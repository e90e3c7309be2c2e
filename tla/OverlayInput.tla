---------------------------- MODULE OverlayInput ----------------------------
(***************************************************************************)
(* How input reaches the ImGui overlay.  The handlers of WindowCallbacks   *)
(* run on the thread that polls the window and store what happened in      *)
(* sharedInputState; ImGuiUIDrawFrame runs on the thread that swaps the    *)
(* buffers, reads that state once per frame and tells ImGui.  Everything   *)
(* but the typed text is a separate atomic variable, so each store and     *)
(* each load is a step; the text is guarded by textInputMutex, and what    *)
(* one side does while it holds the mutex is one step.                     *)
(*                                                                         *)
(* The left mouse button, which a touch presses too, one key and one finger*)
(* stand for all; positions are left out.  ImGui itself is external: after *)
(* any frame it may want text.                                             *)
(* What else it wants decides which events the game gets (WindowInput).    *)
(* The looper also starts and stops the text input of the same window, for *)
(* the text field of the game.                                             *)
(***************************************************************************)
EXTENDS Naturals, Sequences

CONSTANT MaxEvents   (* bound: events of the user                          *)

ASSUME OverlayAssumption == MaxEvents \in Nat

VARIABLES
  handler,             (* where the window thread is in a handler or pollAll *)
  events,              (* events handled so far                              *)
  imGuiTouchId,        (* WindowCallbacks: is a finger followed              *)
  mouseDown, keyDown,  (* sharedInputState                                   *)
  textInputBuffer, textInputUpdated,
  touchDown, touchId, touchUpdated,
  gameTextInput,       (* TextInputHandler::enabled                          *)
  looperTextInput,     (* FakeLooper::textInput                              *)
  frame,               (* where the render thread is in ImGuiUIDrawFrame     *)
  lastMouseDown, lastKeyDown, lastTouchDown, lastTouchId, lastWantTextInput,
  readTouchDown,       (* the local copy                                     *)
  typed,               (* all the user typed                                 *)
  toldLeft, toldKey, toldText,   (* what ImGui was told last; all the text    *)
  textInputStarted     (* GameWindow::startTextInput                         *)

buttonVars == <<mouseDown, keyDown>>
textVars   == <<textInputBuffer, textInputUpdated, typed>>
touchVars  == <<touchDown, touchId, touchUpdated>>
windowVars == <<handler, events, imGuiTouchId>>
lastVars   == <<lastMouseDown, lastKeyDown, lastTouchDown, lastTouchId, readTouchDown>>
wantVars   == <<gameTextInput, looperTextInput, lastWantTextInput, textInputStarted>>
toldVars   == <<toldLeft, toldKey, toldText>>
vars == <<windowVars, buttonVars, textVars, touchVars, frame, lastVars, wantVars, toldVars>>

Init ==
  /\ handler = "idle" /\ events = 0 /\ imGuiTouchId = FALSE
  /\ mouseDown = FALSE /\ keyDown = FALSE
  /\ textInputBuffer = <<>> /\ textInputUpdated = FALSE /\ typed = <<>>
  /\ touchDown = FALSE /\ touchId = FALSE /\ touchUpdated = FALSE
  /\ frame = "mouse"
  /\ lastMouseDown = FALSE /\ lastKeyDown = FALSE
  /\ lastTouchDown = FALSE /\ lastTouchId = FALSE /\ readTouchDown = FALSE
  /\ gameTextInput = FALSE /\ looperTextInput = FALSE
  /\ lastWantTextInput = FALSE /\ textInputStarted = FALSE
  /\ toldLeft = FALSE /\ toldKey = FALSE /\ toldText = <<>>

-----------------------------------------------------------------------------
(* The window thread.  Touch ids: TRUE is the finger, FALSE stands for -1.  *)
Event ==
  /\ handler = "idle" /\ events < MaxEvents
  /\ events' = events + 1
  /\ UNCHANGED <<frame, lastVars, wantVars, toldVars>>

onMouseButton(down) ==
  /\ Event /\ mouseDown' = down
  /\ UNCHANGED <<handler, imGuiTouchId, keyDown, textVars, touchVars>>

onKeyboard(down) ==
  /\ Event /\ keyDown' = down
  /\ UNCHANGED <<handler, imGuiTouchId, mouseDown, textVars, touchVars>>

(* Mutant: the text of the last event wins.                                 *)
onKeyboardTextReplacing ==
  /\ Event
  /\ typed' = Append(typed, events)
  /\ textInputBuffer' = <<events>> /\ textInputUpdated' = TRUE
  /\ UNCHANGED <<handler, imGuiTouchId, buttonVars, touchVars>>

onKeyboardText ==
  /\ Event
  /\ typed' = Append(typed, events)
  /\ textInputBuffer' = Append(textInputBuffer, events) /\ textInputUpdated' = TRUE
  /\ UNCHANGED <<handler, imGuiTouchId, buttonVars, touchVars>>

WindowGoto(from, to) ==
  /\ handler = from /\ handler' = to
  /\ UNCHANGED <<events, buttonVars, textVars, frame, lastVars, wantVars, toldVars>>

onTouchStart ==
  /\ ~imGuiTouchId
  /\ Event /\ imGuiTouchId' = TRUE /\ handler' = "startId" /\ touchDown' = TRUE
  /\ UNCHANGED <<buttonVars, textVars, touchId, touchUpdated>>

onTouchUpdate ==
  /\ imGuiTouchId
  /\ Event /\ touchUpdated' = TRUE
  /\ UNCHANGED <<handler, imGuiTouchId, buttonVars, textVars, touchDown, touchId>>

onTouchEnd ==
  /\ imGuiTouchId
  /\ Event /\ handler' = "endId" /\ touchDown' = FALSE
  /\ UNCHANGED <<imGuiTouchId, buttonVars, textVars, touchId, touchUpdated>>

StoreTouchId ==
  \/ WindowGoto("startId", "startUpdated") /\ touchId' = TRUE
       /\ UNCHANGED <<imGuiTouchId, touchDown, touchUpdated>>
  \/ WindowGoto("endId", "endUpdated") /\ touchId' = FALSE
       /\ UNCHANGED <<imGuiTouchId, touchDown, touchUpdated>>

StoreTouchUpdated ==
  \/ WindowGoto("startUpdated", "idle") /\ touchUpdated' = TRUE
       /\ UNCHANGED <<imGuiTouchId, touchDown, touchId>>
  \/ WindowGoto("endUpdated", "idle") /\ touchUpdated' = TRUE /\ imGuiTouchId' = FALSE
       /\ UNCHANGED <<touchDown, touchId>>

(* FakeLooper::pollAll, after the window was polled.  The game's side is    *)
(* read twice: to see a change, and for its new value.                      *)
SetGameTextInput(enabled) ==
  /\ gameTextInput # enabled /\ events < MaxEvents
  /\ gameTextInput' = enabled /\ events' = events + 1
  /\ UNCHANGED <<handler, imGuiTouchId, buttonVars, textVars, touchVars, frame, lastVars,
                 looperTextInput, lastWantTextInput, textInputStarted, toldVars>>

SeeTextInput ==
  /\ handler = "idle" /\ looperTextInput # gameTextInput /\ handler' = "textInput"
  /\ UNCHANGED <<events, imGuiTouchId, buttonVars, textVars, touchVars, frame,
                 lastVars, wantVars, toldVars>>

(* Mutant: the looper starts text input, and never stops it.                *)
SetTextInputOn ==
  /\ handler = "textInput" /\ handler' = "idle"
  /\ looperTextInput' = gameTextInput
  /\ textInputStarted' = (textInputStarted \/ gameTextInput)
  /\ UNCHANGED <<events, imGuiTouchId, buttonVars, textVars, touchVars, frame, lastVars,
                 gameTextInput, lastWantTextInput, toldVars>>

SetTextInput ==
  /\ handler = "textInput" /\ handler' = "idle"
  /\ looperTextInput' = gameTextInput /\ textInputStarted' = gameTextInput
  /\ UNCHANGED <<events, imGuiTouchId, buttonVars, textVars, touchVars, frame, lastVars,
                 gameTextInput, lastWantTextInput, toldVars>>

Finish == StoreTouchId \/ StoreTouchUpdated \/ SeeTextInput \/ SetTextInput

User ==
  \/ \E down \in BOOLEAN : onMouseButton(down) \/ onKeyboard(down)
  \/ onKeyboardText
  \/ onTouchStart \/ onTouchUpdate \/ onTouchEnd
  \/ \E enabled \in BOOLEAN : SetGameTextInput(enabled)

-----------------------------------------------------------------------------
(* The render thread: ImGuiUIDrawFrame.                                     *)
FrameGoto(from, to) == frame = from /\ frame' = to /\ UNCHANGED <<windowVars, buttonVars>>

(* Mutant: the button is compared, but not remembered.                      *)
SampleMouseForgetting ==
  /\ FrameGoto("mouse", "text")
  /\ IF mouseDown # lastMouseDown THEN toldLeft' = mouseDown ELSE UNCHANGED toldLeft
  /\ UNCHANGED <<lastVars, textVars, touchVars, wantVars, toldKey, toldText>>

SampleMouse ==
  /\ FrameGoto("mouse", "text")
  /\ IF mouseDown # lastMouseDown
     THEN toldLeft' = mouseDown /\ lastMouseDown' = mouseDown
     ELSE UNCHANGED <<toldLeft, lastMouseDown>>
  /\ UNCHANGED <<lastKeyDown, lastTouchDown, lastTouchId, readTouchDown,
                 textVars, touchVars, wantVars, toldKey, toldText>>

(* The flag is read without the mutex, cleared with it.                     *)
SeeText ==
  /\ FrameGoto("text", IF textInputUpdated THEN "takeText" ELSE "touch")
  /\ UNCHANGED <<lastVars, textVars, touchVars, wantVars, toldVars>>

(* Mutant: the text stays in the buffer and is told again.                  *)
TakeTextKeeping ==
  /\ FrameGoto("takeText", "touch")
  /\ toldText' = toldText \o textInputBuffer
  /\ textInputUpdated' = FALSE
  /\ UNCHANGED <<textInputBuffer, typed, lastVars, touchVars, wantVars, toldLeft, toldKey>>

TakeText ==
  /\ FrameGoto("takeText", "touch")
  /\ toldText' = toldText \o textInputBuffer
  /\ textInputBuffer' = <<>> /\ textInputUpdated' = FALSE
  /\ UNCHANGED <<typed, lastVars, touchVars, wantVars, toldLeft, toldKey>>

SeeTouch ==
  /\ FrameGoto("touch", IF touchUpdated THEN "touchId" ELSE "keys")
  /\ UNCHANGED <<lastVars, textVars, touchVars, wantVars, toldVars>>

TestTouchId ==
  /\ FrameGoto("touchId", IF touchId THEN "touchDown" ELSE "clearTouch")
  /\ UNCHANGED <<lastVars, textVars, touchVars, wantVars, toldVars>>

ReadTouchDown ==
  /\ FrameGoto("touchDown", "tellTouch")
  /\ readTouchDown' = touchDown
  /\ UNCHANGED <<lastMouseDown, lastKeyDown, lastTouchDown, lastTouchId,
                 textVars, touchVars, wantVars, toldVars>>

TellTouch ==
  /\ FrameGoto("tellTouch", "clearTouch")
  /\ IF readTouchDown # lastTouchDown \/ touchId # lastTouchId
     THEN /\ toldLeft' = readTouchDown
          /\ lastTouchDown' = readTouchDown /\ lastTouchId' = touchId
     ELSE UNCHANGED <<toldLeft, lastTouchDown, lastTouchId>>
  /\ UNCHANGED <<lastMouseDown, lastKeyDown, readTouchDown,
                 textVars, touchVars, wantVars, toldKey, toldText>>

ClearTouch ==
  /\ FrameGoto("clearTouch", "keys")
  /\ touchUpdated' = FALSE
  /\ UNCHANGED <<lastVars, textVars, touchDown, touchId, wantVars, toldVars>>

SampleKeys ==
  /\ FrameGoto("keys", "wants")
  /\ IF keyDown # lastKeyDown
     THEN toldKey' = keyDown /\ lastKeyDown' = keyDown
     ELSE UNCHANGED <<toldKey, lastKeyDown>>
  /\ UNCHANGED <<lastMouseDown, lastTouchDown, lastTouchId, readTouchDown,
                 textVars, touchVars, wantVars, toldLeft, toldText>>

(* ImGui::NewFrame decides; a change starts or stops the window's text      *)
(* input.                                                                   *)
UpdateWants(wantsText) ==
  /\ FrameGoto("wants", "mouse")
  /\ textInputStarted' = IF wantsText # lastWantTextInput THEN wantsText ELSE textInputStarted
  /\ lastWantTextInput' = wantsText
  /\ UNCHANGED <<gameTextInput, looperTextInput, lastVars, textVars, touchVars, toldVars>>

DrawFrame ==
  \/ SampleMouse \/ SeeText \/ TakeText \/ SampleKeys
  \/ SeeTouch \/ TestTouchId \/ ReadTouchDown \/ TellTouch \/ ClearTouch
  \/ \E wantsText \in BOOLEAN : UpdateWants(wantsText)

Next == User \/ Finish \/ DrawFrame

Spec == Init /\ [][Next]_vars

(* The game keeps swapping buffers and polling, and a handler runs to its   *)
(* end.  The user owes nothing.                                             *)
FairSpec == Spec /\ WF_vars(DrawFrame) /\ WF_vars(Finish)

-----------------------------------------------------------------------------
Handlers == {"idle", "startId", "startUpdated", "endId", "endUpdated", "textInput"}
Frames == {"mouse", "text", "takeText", "touch", "touchId", "touchDown", "tellTouch",
           "clearTouch", "keys", "wants"}

(* The values of the variables; between two handlers the finger the window  *)
(* callbacks follow is the one they have published.                         *)
TypeOK ==
  /\ handler \in Handlers /\ frame \in Frames /\ events \in 0..MaxEvents
  /\ {imGuiTouchId, mouseDown, keyDown, textInputUpdated, touchDown, touchId, touchUpdated,
      gameTextInput, looperTextInput, lastMouseDown, lastKeyDown, lastTouchDown, lastTouchId,
      lastWantTextInput, readTouchDown, toldLeft, toldKey, textInputStarted}
       \subseteq BOOLEAN
  /\ {typed, textInputBuffer, toldText} \subseteq Seq(0..MaxEvents)
  /\ handler \in {"idle", "textInput"} => imGuiTouchId = touchId /\ touchId = touchDown

(* The text the user typed reaches ImGui once and in order, however the     *)
(* handlers and the frames interleave; and whatever still waits is flagged  *)
(* for a frame to see, though the flag is tested without the mutex.         *)
TextDelivered ==
  /\ toldText \o textInputBuffer = typed
  /\ textInputUpdated = (textInputBuffer # <<>>)

(* Text that waits is told in a later frame.                                *)
TextArrives == (textInputBuffer # <<>>) ~> (textInputBuffer = <<>>)

(* Once the user rests, ImGui holds exactly the keys that are down, and the *)
(* left button as the mouse has it: a release is never lost to the          *)
(* comparison with the last frame.  A left button that is not the mouse's   *)
(* is what the last touch made of it.                                       *)
ButtonsFollow == <>[](toldKey = keyDown /\ toldLeft \in {mouseDown, lastTouchDown})

(* Overlay and game share the window's text input: when neither wants text  *)
(* any more it is off, whichever of them stopped last.                      *)
TextInputEnds == <>[](~gameTextInput /\ ~lastWantTextInput) => <>[]~textInputStarted

TouchSettled == handler = "idle" /\ frame = "mouse" /\ ~touchUpdated

(* imgui_ui.cpp:550 "Update button state if it changed": a frame that found *)
(* finger and mouse button lifted has told ImGui so.  It does not hold:     *)
(* onTouchEnd sets touchId to -1, and the frame looks at the button only    *)
(* when there is a finger.                                                  *)
TouchReleased == TouchSettled /\ ~imGuiTouchId /\ ~lastMouseDown => ~toldLeft
=============================================================================
