---------------------------- MODULE WindowInput ----------------------------
(***************************************************************************)
(* From the window to the game: FakeLooper::pollAll, which the game calls  *)
(* in its main loop, lets the window call the handlers of WindowCallbacks; *)
(* these filter events by input mode and hand them to the game, either     *)
(* through FakeInputQueue or, for a GameActivity, directly.                *)
(*                                                                         *)
(* The user's hands (what is held down) and what the game has been told    *)
(* are variables of their own, for the properties to compare.  The game    *)
(* reads the queue as android_native_app_glue does: one event at a time,   *)
(* finished before the next.                                               *)
(***************************************************************************)
EXTENDS Naturals, Sequences, FiniteSets, FiniteSetsExt

CONSTANTS Keys, Fingers, Pads,  (* the devices' parts                        *)
          Settings,             (* the environments and builds to start in   *)
          MaxBatch,             (* bound: window events in one pollEvents    *)
          MaxQueue              (* bound: events in a queue nobody reads     *)

Modes == {"Touch", "Mouse", "Gamepad", "Unknown"}

(* MCPELAUNCHER_CLIENT_RAW_INPUT, MCPELAUNCHER_CLIENT_FORCED_INPUT_MODE,    *)
(* and USE_IMGUI of the build.                                              *)
AllSettings == [rawInput : BOOLEAN, forcedMode : Modes, overlay : BOOLEAN]

(* The device of an event that is not a gamepad's.                          *)
NoPad == "none"

ASSUME InputAssumption ==
  /\ Settings \subseteq AllSettings
  /\ MaxBatch \in Nat /\ MaxQueue \in Nat
  /\ NoPad \notin Pads

VARIABLES
  settings,          (* chosen before the process starts                     *)
  isGameActivity,
  inputEntry,        (* attachInputQueue was called                          *)
  phase,             (* "game", or "window" inside GameWindow::pollEvents    *)
  batch,             (* window events handled in this pollEvents             *)
  sendEvents, inputMode,
  recent,            (* lastUpdated is at most inputModeSwitchDelay ago      *)
  cursorLocked, cursorDisabled,
  connected,         (* the keys of WindowCallbacks::gamepads                *)
  gamepads,          (* their GamepadData                                    *)
  needsQueueGamepadInput,
  imGuiTouchId,      (* the finger the overlay follows: at most one          *)
  followed,          (* fingers whose last touch is, or was, the overlay's   *)
  wantCapture,       (* the overlay wants keyboard and mouse                 *)
  keyEvents, motionEvents,
  backlog,           (* the window was polled on a queue that was not empty  *)
  heldKeys, heldFingers, heldPads,    (* the user                            *)
  gameKeys, gameFingers, gamePads,    (* the game                            *)
  announced          (* pads the game was told of by onInputDeviceAdded      *)

modeVars    == <<sendEvents, inputMode, recent, cursorDisabled>>
padVars     == <<connected, gamepads, needsQueueGamepadInput>>
queueVars   == <<keyEvents, motionEvents>>
userVars    == <<heldKeys, heldFingers, heldPads>>
gameVars    == <<gameKeys, gameFingers, gamePads>>
overlayVars == <<imGuiTouchId, followed, wantCapture>>
vars == <<settings, isGameActivity, inputEntry, phase, batch, modeVars, cursorLocked, padVars,
          queueVars, backlog, userVars, gameVars, overlayVars, announced>>

(* A stick at rest, moved a little, or past the 0.4 that switches the mode. *)
GamepadData == [axis : 0..2, dpad : BOOLEAN, button : BOOLEAN]
Released    == [axis |-> 0, dpad |-> FALSE, button |-> FALSE]

Init ==
  /\ settings \in Settings
  /\ isGameActivity \in BOOLEAN
  /\ inputEntry = FALSE /\ phase = "game" /\ batch = 0
  /\ sendEvents = FALSE /\ inputMode = "Unknown" /\ recent = FALSE
  /\ cursorLocked = FALSE /\ cursorDisabled = FALSE
  /\ connected = {} /\ gamepads = [p \in Pads |-> Released]
  /\ needsQueueGamepadInput = TRUE
  /\ imGuiTouchId = {} /\ followed = {} /\ wantCapture = FALSE
  /\ keyEvents = <<>> /\ motionEvents = <<>> /\ backlog = FALSE
  /\ heldKeys = {} /\ heldFingers = {} /\ heldPads = [p \in Pads |-> Released]
  /\ gameKeys = {} /\ gameFingers = {} /\ gamePads = [p \in Pads |-> Released]
  /\ announced = {}

Toggle(set, e, on) == IF on THEN set \cup {e} ELSE set \ {e}
-----------------------------------------------------------------------------
(* What an event tells the game.  The axes of a gamepad event are read when *)
(* the game asks for them, by the event's axisFunction.                     *)
Sticks(pad) == <<pad.axis, pad.dpad>>

ToldKey(e) ==
  IF e.pad \in Pads
  THEN gamePads' = [gamePads EXCEPT ![e.pad].button = e.down] /\ UNCHANGED gameKeys
  ELSE gameKeys' = Toggle(gameKeys, e.key, e.down) /\ UNCHANGED gamePads

ToldMotion(e, pads) ==
  IF e.pad \in Pads
  THEN /\ gamePads' = [gamePads EXCEPT ![e.pad].axis = pads[e.pad].axis,
                                       ![e.pad].dpad = pads[e.pad].dpad]
       /\ UNCHANGED gameFingers
  ELSE /\ gameFingers' = IF e.action = "move" THEN gameFingers
                         ELSE Toggle(gameFingers, e.finger, e.action = "down")
       /\ UNCHANGED gamePads

KeyEvent(key, down)         == [pad |-> NoPad, key |-> key, down |-> down]
PadButtonEvent(pad, down)   == [pad |-> pad, key |-> "button", down |-> down]
TouchEvent(finger, action)  == [pad |-> NoPad, finger |-> finger, action |-> action]
PadMotionEvent(pad)         == [pad |-> pad, finger |-> "axes", action |-> "move"]

(* FakeInputQueue::addEvent, or sendKeyDown, sendKeyUp and sendMotionEvent. *)
SendKey(e) ==
  IF isGameActivity
  THEN ToldKey(e) /\ UNCHANGED <<queueVars, gameFingers>>
  ELSE keyEvents' = Append(keyEvents, e) /\ UNCHANGED <<motionEvents, gameVars>>

SendMotion(e, pads) ==
  IF isGameActivity
  THEN ToldMotion(e, pads) /\ UNCHANGED <<queueVars, gameKeys>>
  ELSE motionEvents' = Append(motionEvents, e) /\ UNCHANGED <<keyEvents, gameVars>>

NothingSent == UNCHANGED <<queueVars, gameVars>>

-----------------------------------------------------------------------------
(* WindowCallbacks::hasInputMode.                                           *)
Rank == [Touch |-> 0, Mouse |-> 1, Gamepad |-> 2, Unknown |-> 3]
RawInput   == settings.rawInput
ForcedMode == settings.forcedMode
Overlay    == settings.overlay
Filtering  == ~RawInput /\ ForcedMode = "Unknown"

(* Mutant: raw input is filtered too.                                       *)
hasInputModeFiltered(want, changeMode) ==
  /\ sendEvents
  /\ inputMode = want \/ (changeMode /\ (Rank[want] < Rank[inputMode] \/ ~recent))

hasInputMode(want, changeMode) ==
  /\ sendEvents
  /\ \/ RawInput
     \/ ForcedMode # "Unknown" /\ want = ForcedMode
     \/ ForcedMode = "Unknown" /\
          \/ inputMode = want
          \/ changeMode /\ (Rank[want] < Rank[inputMode] \/ ~recent)

(* Mutant: the cursor keeps its state when the mode changes.                *)
EnterModeOnly(want) ==
  /\ inputMode' = IF Filtering THEN want ELSE inputMode
  /\ recent' = (Filtering \/ recent)
  /\ UNCHANGED cursorDisabled

EnterMode(want) ==
  IF Filtering
  THEN /\ inputMode' = want /\ recent' = TRUE
       /\ cursorDisabled' = IF inputMode = want THEN cursorDisabled
                            ELSE want = "Mouse" => cursorLocked
  ELSE UNCHANGED <<inputMode, recent, cursorDisabled>>

(* A handler called by the window while it is being polled.                 *)
QueueRoom == Len(keyEvents) < MaxQueue /\ Len(motionEvents) < MaxQueue

WindowEvent ==
  /\ phase = "window" /\ batch < MaxBatch /\ QueueRoom
  /\ batch' = batch + 1
  /\ UNCHANGED <<isGameActivity, inputEntry, phase, sendEvents, cursorLocked, backlog,
                 wantCapture>>

Ignored == NothingSent /\ UNCHANGED <<inputMode, recent, cursorDisabled>>

-----------------------------------------------------------------------------
(* Keyboard and touch.                                                      *)
onKeyboard(key, down) ==
  /\ WindowEvent
  /\ (key \in heldKeys) # down
  /\ heldKeys' = Toggle(heldKeys, key, down)
  /\ IF hasInputMode("Mouse", TRUE)
     THEN /\ EnterMode("Mouse")
          /\ IF wantCapture THEN NothingSent ELSE SendKey(KeyEvent(key, down))
     ELSE Ignored
  /\ UNCHANGED <<padVars, heldFingers, heldPads, imGuiTouchId, followed, announced>>

onTouchStart(finger) ==
  /\ WindowEvent
  /\ finger \notin heldFingers
  /\ heldFingers' = heldFingers \cup {finger}
  /\ IF hasInputMode("Touch", TRUE)
     THEN /\ EnterMode("Touch")
          /\ imGuiTouchId' = IF Overlay /\ imGuiTouchId = {} THEN {finger} ELSE imGuiTouchId
          /\ IF imGuiTouchId' # imGuiTouchId /\ wantCapture
             THEN NothingSent
             ELSE SendMotion(TouchEvent(finger, "down"), gamepads)
     ELSE Ignored /\ UNCHANGED imGuiTouchId
  /\ followed' = Toggle(followed, finger, finger \in imGuiTouchId')
  /\ UNCHANGED <<padVars, heldKeys, heldPads, announced>>

onTouchUpdate(finger) ==
  /\ WindowEvent
  /\ finger \in heldFingers
  /\ IF hasInputMode("Touch", TRUE)
     THEN /\ EnterMode("Touch")
          /\ IF finger \in imGuiTouchId THEN NothingSent
             ELSE SendMotion(TouchEvent(finger, "move"), gamepads)
     ELSE Ignored
  /\ UNCHANGED <<padVars, userVars, imGuiTouchId, followed, announced>>

(* Mutant: the overlay's finger is forgotten by every finger lifted.        *)
onTouchEndForgetting(finger) ==
  /\ WindowEvent
  /\ finger \in heldFingers
  /\ heldFingers' = heldFingers \ {finger}
  /\ imGuiTouchId' = {}
  /\ IF hasInputMode("Touch", TRUE)
     THEN /\ EnterMode("Touch")
          /\ IF imGuiTouchId # {} THEN NothingSent
             ELSE SendMotion(TouchEvent(finger, "up"), gamepads)
     ELSE Ignored
  /\ UNCHANGED <<padVars, heldKeys, heldPads, followed, announced>>

onTouchEnd(finger) ==
  /\ WindowEvent
  /\ finger \in heldFingers
  /\ heldFingers' = heldFingers \ {finger}
  /\ IF hasInputMode("Touch", TRUE)
     THEN /\ EnterMode("Touch")
          /\ imGuiTouchId' = imGuiTouchId \ {finger}
          /\ IF finger \in imGuiTouchId THEN NothingSent
             ELSE SendMotion(TouchEvent(finger, "up"), gamepads)
     ELSE Ignored /\ UNCHANGED imGuiTouchId
  /\ UNCHANGED <<padVars, heldKeys, heldPads, followed, announced>>

-----------------------------------------------------------------------------
(* Gamepads.                                                                *)
(* onInputDeviceAddedNative: the game starts with a released pad.           *)
setGameControllerConnected(pads) ==
  /\ announced' = announced \cup pads
  /\ gamePads' = [p \in Pads |-> IF p \in pads THEN Released ELSE gamePads[p]]

QueuedFor(p) ==
  \/ \E i \in 1..Len(keyEvents) : keyEvents[i].pad = p
  \/ \E i \in 1..Len(motionEvents) : motionEvents[i].pad = p

(* The window may report a pad before it is polled for the first time.  A   *)
(* pad that was removed comes back once its last events have been read.     *)
onGamepadState(p, isConnected) ==
  /\ phase = "window" \/ ~sendEvents
  /\ (p \in connected) # isConnected
  /\ isConnected => ~QueuedFor(p)
  /\ connected' = Toggle(connected, p, isConnected)
  /\ gamepads' = [gamepads EXCEPT ![p] = Released]
  /\ heldPads' = [heldPads EXCEPT ![p] = Released]
  /\ IF sendEvents /\ isConnected THEN setGameControllerConnected({p})
                                  ELSE UNCHANGED <<announced, gamePads>>
  /\ UNCHANGED <<isGameActivity, inputEntry, phase, batch, modeVars, cursorLocked,
                 needsQueueGamepadInput, queueVars, backlog, heldKeys, heldFingers,
                 gameKeys, gameFingers, overlayVars>>

queueGamepadAxisInputIfNeeded(p) ==
  IF needsQueueGamepadInput \/ isGameActivity
  THEN SendMotion(PadMotionEvent(p), gamepads') /\ needsQueueGamepadInput' = FALSE
  ELSE NothingSent /\ UNCHANGED needsQueueGamepadInput

(* A directional button is part of the axes, every other one a key.         *)
(* Mutant: the pad's own record of the button is not kept.                  *)
SetButtonUnrecorded(p, part, pressed) ==
  IF part = "dpad"
  THEN /\ gamepads' = [gamepads EXCEPT ![p].dpad = pressed]
       /\ queueGamepadAxisInputIfNeeded(p)
  ELSE SendKey(PadButtonEvent(p, pressed)) /\ UNCHANGED <<gamepads, needsQueueGamepadInput>>

SetButton(p, part, pressed) ==
  IF gamepads[p][part] = pressed
  THEN NothingSent /\ UNCHANGED <<gamepads, needsQueueGamepadInput>>
  ELSE /\ gamepads' = [gamepads EXCEPT ![p][part] = pressed]
       /\ IF part = "dpad" THEN queueGamepadAxisInputIfNeeded(p)
          ELSE SendKey(PadButtonEvent(p, pressed)) /\ UNCHANGED needsQueueGamepadInput

onGamepadButton(p, part, pressed) ==
  /\ WindowEvent
  /\ p \in connected /\ heldPads[p][part] # pressed
  /\ heldPads' = [heldPads EXCEPT ![p][part] = pressed]
  /\ IF hasInputMode("Gamepad", TRUE)
     THEN EnterMode("Gamepad") /\ SetButton(p, part, pressed)
     ELSE Ignored /\ UNCHANGED <<gamepads, needsQueueGamepadInput>>
  /\ UNCHANGED <<connected, heldKeys, heldFingers, imGuiTouchId, followed, announced>>

onGamepadAxis(p, value) ==
  /\ WindowEvent
  /\ p \in connected /\ heldPads[p].axis # value
  /\ heldPads' = [heldPads EXCEPT ![p].axis = value]
  /\ IF hasInputMode("Gamepad", value = 2)
     THEN /\ EnterMode("Gamepad")
          /\ gamepads' = [gamepads EXCEPT ![p].axis = value]
          /\ queueGamepadAxisInputIfNeeded(p)
     ELSE Ignored /\ UNCHANGED <<gamepads, needsQueueGamepadInput>>
  /\ UNCHANGED <<connected, heldKeys, heldFingers, imGuiTouchId, followed, announced>>

-----------------------------------------------------------------------------
(* FakeLooper::pollAll, split where the window calls back.                  *)
hasEvents == keyEvents # <<>> \/ motionEvents # <<>>

startSendEvents ==
  /\ sendEvents' = TRUE
  /\ IF sendEvents THEN UNCHANGED <<announced, gamePads>>
                   ELSE setGameControllerConnected(connected)

(* pollAll returns at once when events wait in an attached queue.           *)
PollsWindow == ~(inputEntry /\ hasEvents)

pollAll ==
  /\ phase = "game"
  /\ startSendEvents
  /\ phase' = IF PollsWindow THEN "window" ELSE "game"
  /\ batch' = 0
  /\ backlog' = (backlog \/ (PollsWindow /\ hasEvents))
  /\ UNCHANGED <<isGameActivity, inputEntry, inputMode, recent, cursorLocked,
                 cursorDisabled, padVars, queueVars, userVars, gameKeys, gameFingers,
                 overlayVars>>

(* Mutant: pollAll without markRequeueGamepadInput.                         *)
pollAllReturnsUnmarked ==
  /\ phase = "window" /\ phase' = "game" /\ batch' = 0
  /\ UNCHANGED <<isGameActivity, inputEntry, modeVars, cursorLocked, padVars,
                 queueVars, backlog, userVars, gameVars, overlayVars, announced>>

pollAllReturns ==
  /\ phase = "window" /\ phase' = "game" /\ batch' = 0
  /\ needsQueueGamepadInput' = TRUE
  /\ UNCHANGED <<isGameActivity, inputEntry, modeVars, cursorLocked, connected, gamepads,
                 queueVars, backlog, userVars, gameVars, overlayVars, announced>>

-----------------------------------------------------------------------------
(* The game between two polls.                                              *)
GameStep ==
  /\ phase = "game"
  /\ UNCHANGED <<isGameActivity, phase, batch, sendEvents, inputMode, recent, padVars,
                 userVars, announced>>

attachInputQueue ==
  /\ GameStep /\ ~inputEntry /\ ~isGameActivity
  /\ inputEntry' = TRUE
  /\ UNCHANGED <<cursorLocked, cursorDisabled, queueVars, backlog, gameVars, overlayVars>>

(* getEvent, the game's handler, finishEvent: keys before motions.          *)
HandleEvent ==
  /\ GameStep /\ inputEntry /\ hasEvents
  /\ IF keyEvents # <<>>
     THEN /\ ToldKey(Head(keyEvents))
          /\ keyEvents' = Tail(keyEvents)
          /\ UNCHANGED <<motionEvents, gameFingers>>
     ELSE /\ ToldMotion(Head(motionEvents), gamepads)
          /\ motionEvents' = Tail(motionEvents)
          /\ UNCHANGED <<keyEvents, gameKeys>>
  /\ backlog' = (backlog /\ (keyEvents' # <<>> \/ motionEvents' # <<>>))
  /\ UNCHANGED <<inputEntry, cursorLocked, cursorDisabled, overlayVars>>

(* hideMousePointer and showMousePointer.                                   *)
setCursorLocked(locked) ==
  /\ GameStep
  /\ cursorLocked' = locked
  /\ cursorDisabled' = IF hasInputMode("Mouse", FALSE) THEN locked ELSE cursorDisabled
  /\ UNCHANGED <<inputEntry, queueVars, backlog, gameVars, overlayVars>>

(* DrawFrame publishes what the overlay wants.                              *)
OverlayWants ==
  /\ GameStep /\ Overlay
  /\ wantCapture' = ~wantCapture
  /\ UNCHANGED <<inputEntry, cursorLocked, cursorDisabled, queueVars, backlog, gameVars,
                 imGuiTouchId, followed>>

(* inputModeSwitchDelay has passed since the last accepted event.           *)
DelayPasses ==
  /\ recent /\ recent' = FALSE
  /\ UNCHANGED <<isGameActivity, inputEntry, phase, batch, sendEvents, inputMode,
                 cursorLocked, cursorDisabled, padVars, queueVars, backlog, userVars,
                 gameVars, overlayVars, announced>>

KeyboardOrTouch ==
  \/ \E key \in Keys, down \in BOOLEAN : onKeyboard(key, down)
  \/ \E finger \in Fingers :
        onTouchStart(finger) \/ onTouchUpdate(finger) \/ onTouchEnd(finger)

Gamepad == \E p \in Pads :
  \/ \E isConnected \in BOOLEAN : onGamepadState(p, isConnected)
  \/ \E part \in {"dpad", "button"}, pressed \in BOOLEAN : onGamepadButton(p, part, pressed)
  \/ \E value \in 0..2 : onGamepadAxis(p, value)

Looper == pollAll \/ pollAllReturns

Game ==
  \/ attachInputQueue \/ HandleEvent \/ OverlayWants
  \/ \E locked \in BOOLEAN : setCursorLocked(locked)

Next ==
  /\ UNCHANGED settings
  /\ KeyboardOrTouch \/ Gamepad \/ Looper \/ Game \/ DelayPasses

Spec == Init /\ [][Next]_vars
-----------------------------------------------------------------------------
KeyEvents == [pad : Pads \cup {NoPad}, key : Keys \cup {"button"}, down : BOOLEAN]
MotionEvents == [pad : Pads \cup {NoPad}, finger : Fingers \cup {"axes"},
                 action : {"down", "move", "up"}]

(* Each variable stays in its range.                                        *)
TypeOK ==
  /\ settings \in Settings
  /\ isGameActivity \in BOOLEAN /\ inputEntry \in BOOLEAN
  /\ phase \in {"game", "window"} /\ batch \in 0..MaxBatch
  /\ sendEvents \in BOOLEAN /\ inputMode \in Modes /\ recent \in BOOLEAN
  /\ cursorLocked \in BOOLEAN /\ cursorDisabled \in BOOLEAN
  /\ connected \subseteq Pads /\ gamepads \in [Pads -> GamepadData]
  /\ needsQueueGamepadInput \in BOOLEAN
  /\ imGuiTouchId \subseteq Fingers /\ followed \subseteq Fingers /\ wantCapture \in BOOLEAN
  /\ keyEvents \in Seq(KeyEvents) /\ motionEvents \in Seq(MotionEvents)
  /\ backlog \in BOOLEAN /\ announced \subseteq Pads
  /\ heldKeys \subseteq Keys /\ heldFingers \subseteq Fingers
  /\ heldPads \in [Pads -> GamepadData]
  /\ gameKeys \subseteq Keys /\ gameFingers \subseteq Fingers
  /\ gamePads \in [Pads -> GamepadData]

(* One gamepad: a position of its sticks the game has not read has an event *)
(* of its own still in the queue, although a poll queues only one event for *)
(* all pads; and the sticks do not flood the game: once it reads the queue, *)
(* at most one such event waits in it.                                      *)
SticksFresh ==
  /\ \A p \in connected \cap announced :
       \/ Sticks(gamePads[p]) = Sticks(gamepads[p])
       \/ \E i \in 1..Len(motionEvents) : motionEvents[i].pad = p
  /\ ~backlog => Cardinality({i \in 1..Len(motionEvents) : motionEvents[i].pad \in Pads}) <= 1

(* A pad's button is, for the game, what WindowCallbacks recorded it to be, *)
(* once the events still queued for it have been read.                      *)
ButtonsAgree ==
  \A p \in connected \cap announced :
    LET queued == {i \in 1..Len(keyEvents) : keyEvents[i].pad = p}
    IN  gamepads[p].button = IF queued = {} THEN gamePads[p].button
                                            ELSE keyEvents[Max(queued)].down

(* Without raw or forced input the cursor is free only in mouse mode, and   *)
(* there exactly when the game has not locked it.                           *)
CursorFollowsMode ==
  Filtering =>
    /\ inputMode = "Mouse" => cursorDisabled = cursorLocked
    /\ inputMode \in {"Touch", "Gamepad"} => cursorDisabled

(* With raw input nothing stays pressed in the game: when it has read the   *)
(* queue it sees what the user holds.                                       *)
NothingStuck ==
  RawInput /\ ~hasEvents =>
    /\ ~Overlay => gameKeys = heldKeys /\ gameFingers = heldFingers
    /\ \A p \in connected \cap announced : gamePads[p] = heldPads[p]

(* With the overlay too, a finger is down for the game exactly while it is  *)
(* down, unless its touch, or its last one, is the overlay's: the game may  *)
(* be told that one of those goes down, and is never told that it lifts.    *)
OtherFingersFollow ==
  RawInput /\ ~hasEvents => gameFingers \ followed = heldFingers \ followed
=============================================================================
