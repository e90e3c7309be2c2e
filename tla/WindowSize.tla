----------------------------- MODULE WindowSize -----------------------------
(***************************************************************************)
(* How the game learns its height: that of the window without the menu     *)
(* bar.  The render thread publishes the height of the bar in every frame  *)
(* (imgui_ui.cpp), the window thread compares it with what it told the     *)
(* game last (startSendEvents) and is called back when the window changes  *)
(* (window_callbacks.cpp); the game may also ask the window itself         *)
(* (fake_window.cpp, fake_egl.cpp).                                        *)
(***************************************************************************)
EXTENDS Naturals

CONSTANTS
  Heights,          (* heights of the window                                 *)
  BarHeight,        (* the menu bar's                                        *)
  MaxChanges        (* bound: changes of the window and of the bar           *)

VARIABLES
  height,           (* the window's                                          *)
  published,        (* Settings::menubarsize                                 *)
  menubarsize,      (* WindowCallbacks::menubarsize                          *)
  shown,            (* the menu bar is drawn                                 *)
  resized,          (* heights the window has not called back with yet       *)
  nextSize,         (* startSendEvents: the bar it found, or "none"          *)
  gameHeight,       (* what nativeResize said last                           *)
  changes

vars == <<height, published, menubarsize, shown, resized, nextSize, gameHeight, changes>>

Init ==
  /\ height \in Heights /\ resized = <<>> /\ nextSize = <<>>
  /\ published = 0 /\ menubarsize = 0 /\ shown = FALSE
  /\ gameHeight = height
  /\ changes = 0

(* ANativeWindow_getHeight, and eglQuerySurface for the height.             *)
getHeight == height - published

-----------------------------------------------------------------------------
Change == changes < MaxChanges /\ changes' = changes + 1

(* The window system; a callback of an older height is not kept.            *)
Resize ==
  /\ Change /\ height' \in Heights \ {height}
  /\ resized' = <<height'>>
  /\ UNCHANGED <<published, menubarsize, shown, nextSize, gameHeight>>

(* The user hides the bar or leaves fullscreen, or it hides by itself.      *)
ToggleMenubar ==
  /\ Change /\ shown' = ~shown
  /\ UNCHANGED <<height, published, menubarsize, resized, nextSize, gameHeight>>

DrawFrame ==
  /\ published' = IF shown THEN BarHeight ELSE 0
  /\ UNCHANGED <<height, menubarsize, shown, resized, nextSize, gameHeight, changes>>

-----------------------------------------------------------------------------
(* The window thread; a poll of the looper runs startSendEvents, then the   *)
(* callbacks of the window.                                                 *)
startSendEvents ==
  /\ nextSize = <<>> /\ published # menubarsize
  /\ nextSize' = <<published>>
  /\ UNCHANGED <<height, published, menubarsize, shown, resized, gameHeight, changes>>

(* Mutant: the new bar is remembered and the game not told.                 *)
RememberMenubar ==
  /\ nextSize # <<>> /\ nextSize' = <<>>
  /\ menubarsize' = nextSize[1]
  /\ UNCHANGED <<height, published, shown, resized, gameHeight, changes>>

TellMenubar ==
  /\ nextSize # <<>> /\ nextSize' = <<>>
  /\ menubarsize' = nextSize[1]
  /\ gameHeight' = height - menubarsize'
  /\ UNCHANGED <<height, published, shown, resized, changes>>

onWindowSizeCallback ==
  /\ nextSize = <<>> /\ resized # <<>>
  /\ resized' = <<>>
  /\ gameHeight' = resized[1] - menubarsize
  /\ UNCHANGED <<height, published, menubarsize, shown, nextSize, changes>>

Poll == startSendEvents \/ TellMenubar \/ onWindowSizeCallback

Next == Resize \/ ToggleMenubar \/ DrawFrame \/ Poll

Spec == Init /\ [][Next]_vars

-----------------------------------------------------------------------------
(* The values of the variables.                                             *)
TypeOK ==
  /\ height \in Heights /\ shown \in BOOLEAN
  /\ published \in {0, BarHeight} /\ menubarsize \in {0, BarHeight}
  /\ resized = <<>> \/ resized[1] = height
  /\ nextSize \in {<<>>, <<0>>, <<BarHeight>>}
  /\ gameHeight \in {h - b : h \in Heights, b \in {0, BarHeight}}
  /\ changes \in 0..MaxChanges

(* After the last change of the window or of the bar the game ends up with  *)
(* the height it would be told if it asked, the one without the bar that is *)
(* drawn: whatever came in between the reading of the two.                  *)
GameHeightFollows ==
  <>[](gameHeight = getHeight /\ gameHeight = height - (IF shown THEN BarHeight ELSE 0))
=============================================================================
