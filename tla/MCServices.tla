----------------------------- MODULE MCServices -----------------------------
(***************************************************************************)
(* The parts of the launcher that do not interact with each other, in one  *)
(* model: component says which of them runs, the others keep their initial *)
(* state.  So the behaviours are the sum of theirs, not the product.       *)
(***************************************************************************)
EXTENDS OverlayWindows

CONSTANTS
  Components,
  MaxSize,                                     (* FakeAudio                  *)
  Heights, BarHeight, MaxChanges, MaxText,     (* WindowSize, TextExchange   *)
  Scales,                                      (* Settings                   *)
  PipeSize, ReadSize, MaxWrites,               (* XalWebView                 *)
  Programs, Buffers, MaxLinks,                 (* GLCorePatch                *)
  Requests                                     (* XboxLive                   *)

ASSUME ServicesAssumption ==
  /\ MaxSize \in Nat /\ MaxLinks \in Nat /\ MaxWrites \in Nat /\ ReadSize \in Nat \ {0}
  /\ PipeSize \in Nat /\ MaxChanges \in Nat /\ MaxText \in Nat
  /\ Heights \subseteq Nat /\ BarHeight \in Nat /\ {0, 1} \subseteq Scales

VARIABLES
  component,
  s, audioBuffer, audioBufferSize, playing, refuses, requested, callback, touched,
  height, published, menubarsize, shown, resized, nextSize, gameHeight, changes,
  mem, list, file, windowFullscreen, moving, phase, pc, reset, overlapped, left,
  textInput, fieldEnabled, objects, current, game, setting, loop, crossed, changed,
  out, err, child, writes, parent, result, url,
  vaoMap, buffers, program, vertexArray, arrayBuffer, elementsOf, generated, linked, deleted,
  client, cll, flow, request, answers, logger, shutdown, fault,
  options, theGame, at, graphicsApi, libGLESv2, libfmod, windows, handle, preinit, mods, enabled

Audio    == INSTANCE FakeAudio
Size     == INSTANCE WindowSize
File     == INSTANCE Settings
Text     == INSTANCE TextExchange WITH enabled <- fieldEnabled, overlapped <- crossed
WebView  == INSTANCE XalWebView
GL       == INSTANCE GLCorePatch
Xbox     == INSTANCE XboxLive
Launcher == INSTANCE LauncherStart

audioVars    == <<s, audioBuffer, audioBufferSize, playing, refuses, requested, callback, touched>>
sizeVars     == <<height, published, menubarsize, shown, resized, nextSize, gameHeight, changes>>
fileVars     == <<mem, list, file, windowFullscreen, moving, phase, pc, reset, overlapped, left>>
textVars     == <<textInput, fieldEnabled, objects, current, game, setting, loop, crossed, changed>>
viewVars     == <<out, err, child, writes, parent, result, url>>
glVars       == <<vaoMap, buffers, program, vertexArray, arrayBuffer, elementsOf, generated,
                  linked, deleted>>
xboxVars     == <<client, cll, flow, request, answers, logger, shutdown, fault>>
launcherVars == <<options, theGame, at, graphicsApi, libGLESv2, libfmod, windows, handle,
                  preinit, mods, enabled>>

Runs(c) == component = c

(* A part that does not run has one initial state.                          *)
ServicesInit ==
  /\ component \in Components
  /\ Init /\ File!Init /\ Text!Init /\ WebView!Init /\ GL!Init
  /\ Audio!Init /\ (Runs("audio") \/ audioBufferSize = 1)
  /\ Size!Init /\ (Runs("size") \/ height = BarHeight)
  /\ Xbox!Init /\ (Runs("xbox") \/ flow = {})
  /\ Launcher!Init
  /\ \/ Runs("launcher")
     \/ TRUE \notin {options[o] : o \in DOMAIN options} \cup {theGame[o] : o \in DOMAIN theGame}

Others ==
  /\ UNCHANGED component
  /\ IF Runs("windows") THEN TRUE ELSE UNCHANGED vars
  /\ IF Runs("audio") THEN TRUE ELSE UNCHANGED audioVars
  /\ IF Runs("size") THEN TRUE ELSE UNCHANGED sizeVars
  /\ IF Runs("settings") THEN TRUE ELSE UNCHANGED fileVars
  /\ IF Runs("text") THEN TRUE ELSE UNCHANGED textVars
  /\ IF Runs("webview") THEN TRUE ELSE UNCHANGED viewVars
  /\ IF Runs("gl") THEN TRUE ELSE UNCHANGED glVars
  /\ IF Runs("xbox") THEN TRUE ELSE UNCHANGED xboxVars
  /\ IF Runs("launcher") THEN TRUE ELSE UNCHANGED launcherVars

ServicesNext ==
  \/ Runs("windows")  /\ Next          /\ Others
  \/ Runs("audio")    /\ Audio!Next    /\ Others
  \/ Runs("size")     /\ Size!Next     /\ Others
  \/ Runs("settings") /\ File!Next     /\ Others
  \/ Runs("text")     /\ Text!Next     /\ Others
  \/ Runs("webview")  /\ WebView!Next  /\ Others
  \/ Runs("gl")       /\ GL!Next       /\ Others
  \/ Runs("xbox")     /\ Xbox!Next     /\ Others
  \/ Runs("launcher") /\ Launcher!Next /\ Others

servicesVars == <<component, vars, audioVars, sizeVars, fileVars, textVars, viewVars, glVars,
                  xboxVars, launcherVars>>

ServicesSpec == ServicesInit /\ [][ServicesNext]_servicesVars

(* The fairness of each part: threads that run go on running.  A mod gets   *)
(* the lock in the end, the user ends the sign-in, the daemon and the login *)
(* of the game answer; nothing makes users, mods or the game do anything.   *)
FairServicesSpec ==
  /\ ServicesSpec
  /\ WF_vars(Runs("windows") /\ DrawWindows)
  /\ \A m \in Mods : /\ SF_vars(Runs("windows") /\ Lock(m))
                     /\ WF_vars(Runs("windows") /\ (show_window(m) \/ close_window(m)))
  /\ WF_sizeVars(Runs("size") /\ Size!DrawFrame) /\ WF_sizeVars(Runs("size") /\ Size!Poll)
  /\ WF_textVars(Runs("text") /\ Text!UpdateTextInput) /\ WF_textVars(Runs("text") /\ Text!Loop)
  /\ WF_viewVars(Runs("webview") /\ WebView!Launcher)
  /\ WF_viewVars(Runs("webview") /\ ~WebView!Stuck /\ (WebView!Killed \/ WebView!Exit))
  /\ \A r \in Requests : WF_xboxVars(Runs("xbox") /\ request[r] # "none" /\ Xbox!Step(r))

-----------------------------------------------------------------------------
(* The values of all variables.                                             *)
TypesOK ==
  /\ component \in Components
  /\ TypeOK /\ Audio!TypeOK /\ Size!TypeOK /\ File!TypeOK /\ Text!TypeOK
  /\ WebView!TypeOK /\ GL!TypeOK /\ Xbox!TypeOK /\ Launcher!TypeOK

(* The properties, stated in the modules of the parts.                      *)
StreamKept        == Audio!StreamKept
GameHeightFollows == Runs("size") => Size!GameHeightFollows
SettingsKept      == File!SettingsKept
FullscreenAgrees  == File!FullscreenAgrees
GameConverges     == Runs("text") => Text!GameConverges
UrlOnly           == WebView!UrlOnly
ShowReturns       == Runs("webview") => WebView!ShowReturns
DrawsAsBound      == GL!DrawsAsBound
OneAnswer         == Xbox!OneAnswer
SignInEnds        == Xbox!SignInEnds
StartFits         == Launcher!StartFits

(* The help of --reset-settings says what File!ResetSavesDefaults states.   *)
ResetSavesDefaults == File!ResetSavesDefaults
=============================================================================
