------------------------- MODULE OverlayInput_proofs -------------------------
(***************************************************************************)
(* Proofs about OverlayInput: the values of its variables, and the text.   *)
(***************************************************************************)
EXTENDS OverlayInput, SequenceTheorems, TLAPS

(* How far the handlers of a finger have come in what they publish.         *)
Publishing ==
  /\ handler \in {"idle", "textInput"} => imGuiTouchId = touchId /\ touchId = touchDown
  /\ handler = "startId" => imGuiTouchId = TRUE /\ touchDown = TRUE
  /\ handler = "startUpdated" => imGuiTouchId = TRUE /\ touchDown = TRUE /\ touchId = TRUE
  /\ handler = "endId" => touchDown = FALSE
  /\ handler = "endUpdated" => touchDown = FALSE /\ touchId = FALSE

WindowTyped ==
  /\ handler \in Handlers
  /\ imGuiTouchId \in BOOLEAN /\ mouseDown \in BOOLEAN /\ keyDown \in BOOLEAN
  /\ touchDown \in BOOLEAN /\ touchId \in BOOLEAN /\ touchUpdated \in BOOLEAN
  /\ gameTextInput \in BOOLEAN /\ looperTextInput \in BOOLEAN

FrameTyped ==
  /\ frame \in Frames
  /\ lastMouseDown \in BOOLEAN /\ lastKeyDown \in BOOLEAN
  /\ lastTouchDown \in BOOLEAN /\ lastTouchId \in BOOLEAN
  /\ lastWantTextInput \in BOOLEAN /\ readTouchDown \in BOOLEAN
  /\ toldLeft \in BOOLEAN /\ toldKey \in BOOLEAN
  /\ textInputStarted \in BOOLEAN

TextTyped ==
  /\ events \in 0..MaxEvents
  /\ textInputUpdated \in BOOLEAN
  /\ typed \in Seq(0..MaxEvents) /\ textInputBuffer \in Seq(0..MaxEvents)
  /\ toldText \in Seq(0..MaxEvents)

OverlayInv ==
  /\ WindowTyped
  /\ FrameTyped
  /\ TextTyped
  /\ Publishing
  /\ TextDelivered

-----------------------------------------------------------------------------
(* Text told, text waiting and the text of one more event, in either order  *)
(* of joining them.                                                         *)
LEMMA AppendToWaiting ==
  ASSUME NEW S, NEW told \in Seq(S), NEW waiting \in Seq(S), NEW e \in S
  PROVE  /\ told \o Append(waiting, e) = Append(told \o waiting, e)
         /\ Append(waiting, e) # <<>>
<1>1. Append(waiting, e) = waiting \o <<e>> /\ <<e>> \in Seq(S)
  BY AppendIsConcat
<1>2. told \o waiting \in Seq(S)
  BY ConcatProperties
<1>3. Append(told \o waiting, e) = (told \o waiting) \o <<e>>
  BY <1>2, AppendIsConcat
<1>4. (told \o waiting) \o <<e>> = told \o (waiting \o <<e>>)
  BY <1>1, ConcatAssociative
<1>5. Append(waiting, e) # <<>>
  BY AppendProperties, EmptySeq
<1> QED
  BY <1>1, <1>3, <1>4, <1>5

LEMMA NothingWaits ==
  ASSUME NEW S, NEW told \in Seq(S)
  PROVE  told \o <<>> = told /\ <<>> \in Seq(S)
  BY ConcatEmptySeq, EmptySeq

-----------------------------------------------------------------------------
LEMMA InitOverlayInv == Init => OverlayInv
<1> SUFFICES ASSUME Init PROVE OverlayInv
  OBVIOUS
<1> USE OverlayAssumption
<1>1. WindowTyped /\ FrameTyped
  BY DEF Init, WindowTyped, FrameTyped, Handlers, Frames
<1>2. TextTyped
  <2>1. events \in 0..MaxEvents
    BY DEF Init
  <2>2. <<>> \in Seq(0..MaxEvents)
    BY EmptySeq
  <2> QED
    BY <2>1, <2>2 DEF Init, TextTyped
<1>3. Publishing
  BY DEF Init, Publishing
<1>4. TextDelivered
  BY NothingWaits, EmptySeq DEF Init, TextDelivered
<1> QED
  BY <1>1, <1>2, <1>3, <1>4 DEF OverlayInv

(* The window thread: handlers and pollAll.                                 *)
LEMMA WindowStep ==
  ASSUME OverlayInv, User \/ Finish
  PROVE  WindowTyped' /\ FrameTyped' /\ Publishing'
<1> USE DEF OverlayInv
<1>1. CASE \E down \in BOOLEAN : onMouseButton(down) \/ onKeyboard(down)
  <2> PICK down \in BOOLEAN : onMouseButton(down) \/ onKeyboard(down)
    BY <1>1
  <2>1. WindowTyped'
    BY DEF onMouseButton, onKeyboard, Event, touchVars, wantVars, WindowTyped
  <2>2. FrameTyped' /\ Publishing'
    BY DEF onMouseButton, onKeyboard, Event, touchVars, lastVars, wantVars, toldVars,
           FrameTyped, Publishing
  <2> QED
    BY <2>1, <2>2
<1>2. CASE onKeyboardText
  BY <1>2 DEF onKeyboardText, Event, buttonVars, touchVars, lastVars, wantVars, toldVars,
              WindowTyped, FrameTyped, Publishing
<1>3. CASE onTouchStart \/ onTouchUpdate \/ onTouchEnd
  <2>1. WindowTyped'
    BY <1>3 DEF onTouchStart, onTouchUpdate, onTouchEnd, Event, buttonVars, wantVars, Handlers, WindowTyped
  <2>2. FrameTyped'
    BY <1>3 DEF onTouchStart, onTouchUpdate, onTouchEnd, Event, lastVars, wantVars, toldVars, FrameTyped
  <2>3. Publishing'
    BY <1>3 DEF onTouchStart, onTouchUpdate, onTouchEnd, Event, WindowTyped, Publishing
  <2> QED
    BY <2>1, <2>2, <2>3
<1>4. CASE \E enabled \in BOOLEAN : SetGameTextInput(enabled)
  BY <1>4 DEF SetGameTextInput, buttonVars, textVars, touchVars, lastVars, toldVars,
              WindowTyped, FrameTyped, Publishing
<1>5. CASE StoreTouchId
  <2>1. WindowTyped'
    BY <1>5 DEF StoreTouchId, WindowGoto, buttonVars, wantVars, Handlers, WindowTyped
  <2>2. FrameTyped'
    BY <1>5 DEF StoreTouchId, WindowGoto, lastVars, wantVars, toldVars, FrameTyped
  <2>3. Publishing'
    BY <1>5 DEF StoreTouchId, WindowGoto, WindowTyped, Publishing
  <2> QED
    BY <2>1, <2>2, <2>3
<1>6. CASE StoreTouchUpdated
  <2>1. WindowTyped'
    BY <1>6 DEF StoreTouchUpdated, WindowGoto, buttonVars, wantVars, Handlers, WindowTyped
  <2>2. FrameTyped'
    BY <1>6 DEF StoreTouchUpdated, WindowGoto, lastVars, wantVars, toldVars, FrameTyped
  <2>3. Publishing'
    BY <1>6 DEF StoreTouchUpdated, WindowGoto, WindowTyped, Publishing
  <2> QED
    BY <2>1, <2>2, <2>3
<1>7. CASE SeeTextInput \/ SetTextInput
  BY <1>7 DEF SeeTextInput, SetTextInput, buttonVars, textVars, touchVars, lastVars, wantVars,
              toldVars, Handlers, WindowTyped, FrameTyped, Publishing
<1> QED
  BY <1>1, <1>2, <1>3, <1>4, <1>5, <1>6, <1>7 DEF User, Finish

(* The render thread: ImGuiUIDrawFrame.                                     *)
LEMMA FrameStep ==
  ASSUME OverlayInv, DrawFrame
  PROVE  WindowTyped' /\ FrameTyped' /\ Publishing'
<1> USE DEF OverlayInv, FrameGoto, windowVars, buttonVars, lastVars, textVars, touchVars,
            wantVars, toldVars, Frames, WindowTyped, FrameTyped, Publishing
<1>1. CASE SampleMouse
  BY <1>1 DEF SampleMouse
<1>2. CASE SeeText
  BY <1>2 DEF SeeText
<1>3. CASE TakeText
  BY <1>3 DEF TakeText
<1>4. CASE SampleKeys
  BY <1>4 DEF SampleKeys
<1>5. CASE SeeTouch \/ TestTouchId
  BY <1>5 DEF SeeTouch, TestTouchId
<1>6. CASE ReadTouchDown
  BY <1>6 DEF ReadTouchDown
<1>7. CASE TellTouch
  <2>1. /\ toldLeft' \in BOOLEAN /\ lastTouchDown' \in BOOLEAN
        /\ lastTouchId' \in BOOLEAN
    <3>1. CASE readTouchDown # lastTouchDown \/ touchId # lastTouchId
      BY <1>7, <3>1 DEF TellTouch
    <3>2. CASE ~(readTouchDown # lastTouchDown \/ touchId # lastTouchId)
      BY <1>7, <3>2 DEF TellTouch
    <3> QED
      BY <3>1, <3>2
  <2>2. frame' = "clearTouch" /\ UNCHANGED <<lastMouseDown, lastKeyDown, readTouchDown>>
    BY <1>7 DEF TellTouch
  <2>3. UNCHANGED <<windowVars, buttonVars, touchVars, wantVars, toldKey>>
    BY <1>7 DEF TellTouch
  <2>4. WindowTyped' /\ Publishing'
    BY <2>3
  <2>5. FrameTyped'
    BY <2>1, <2>2, <2>3
  <2> QED
    BY <2>4, <2>5
<1>8. CASE ClearTouch
  <2>1. WindowTyped' /\ Publishing'
    BY <1>8 DEF ClearTouch
  <2>2. FrameTyped'
    BY <1>8 DEF ClearTouch
  <2> QED
    BY <2>1, <2>2
<1>9. CASE \E wantsText \in BOOLEAN : UpdateWants(wantsText)
  BY <1>9 DEF UpdateWants
<1> QED
  BY <1>1, <1>2, <1>3, <1>4, <1>5, <1>6, <1>7, <1>8, <1>9 DEF DrawFrame

(* The two steps that touch the text.                                       *)
LEMMA KeyboardTextStep ==
  ASSUME OverlayInv, onKeyboardText
  PROVE  TextTyped' /\ TextDelivered'
<1> USE OverlayAssumption
<1>1. /\ events \in 0..MaxEvents /\ events < MaxEvents /\ events' = events + 1
      /\ typed \in Seq(0..MaxEvents) /\ textInputBuffer \in Seq(0..MaxEvents)
      /\ toldText \in Seq(0..MaxEvents)
      /\ toldText \o textInputBuffer = typed
  BY DEF OverlayInv, TextTyped, TextDelivered, onKeyboardText, Event
<1>2. /\ typed' = Append(typed, events) /\ textInputBuffer' = Append(textInputBuffer, events)
      /\ textInputUpdated' = TRUE /\ toldText' = toldText
  BY DEF onKeyboardText, Event, toldVars
<1>3. typed' \in Seq(0..MaxEvents) /\ textInputBuffer' \in Seq(0..MaxEvents)
  BY <1>1, <1>2, AppendProperties
<1>4. TextTyped'
  <2>1. events' \in 0..MaxEvents
    BY <1>1
  <2> QED
    BY <1>1, <1>2, <1>3, <2>1 DEF TextTyped
<1>5. TextDelivered'
  <2>1. toldText \o Append(textInputBuffer, events) = Append(toldText \o textInputBuffer, events)
        /\ Append(textInputBuffer, events) # <<>>
    BY <1>1, AppendToWaiting
  <2>2. toldText' \o textInputBuffer' = typed'
    BY <1>1, <1>2, <2>1
  <2>3. textInputUpdated' = (textInputBuffer' # <<>>)
    BY <1>2, <2>1
  <2> QED
    BY <2>2, <2>3 DEF TextDelivered
<1> QED
  BY <1>4, <1>5

LEMMA TakeTextStep ==
  ASSUME OverlayInv, TakeText
  PROVE  TextTyped' /\ TextDelivered'
<1>1. /\ events \in 0..MaxEvents
      /\ typed \in Seq(0..MaxEvents) /\ textInputBuffer \in Seq(0..MaxEvents)
      /\ toldText \in Seq(0..MaxEvents)
      /\ toldText \o textInputBuffer = typed
  BY DEF OverlayInv, TextTyped, TextDelivered
<1>2. /\ typed' = typed /\ events' = events /\ textInputBuffer' = <<>>
      /\ textInputUpdated' = FALSE /\ toldText' = toldText \o textInputBuffer
  BY DEF TakeText, FrameGoto, windowVars
<1>3. TextTyped'
  BY <1>1, <1>2, EmptySeq DEF TextTyped
<1>4. TextDelivered'
  BY <1>1, <1>2, NothingWaits DEF TextDelivered
<1> QED
  BY <1>3, <1>4

LEMMA TextStep ==
  ASSUME OverlayInv, Next
  PROVE  TextTyped' /\ TextDelivered'
<1> USE OverlayAssumption
<1>1. CASE onKeyboardText
  BY <1>1, KeyboardTextStep
<1>2. CASE TakeText
  BY <1>2, TakeTextStep
<1>3. CASE /\ UNCHANGED <<textVars, toldText>>
           /\ events' = events \/ (events < MaxEvents /\ events' = events + 1)
  <2>1. events' \in 0..MaxEvents
    BY <1>3 DEF OverlayInv, TextTyped
  <2>2. TextTyped'
    BY <1>3, <2>1 DEF OverlayInv, TextTyped, textVars
  <2>3. TextDelivered'
    BY <1>3 DEF OverlayInv, TextDelivered, textVars
  <2> QED
    BY <2>2, <2>3
<1>4. ASSUME User, ~onKeyboardText
      PROVE  UNCHANGED <<textVars, toldText>> /\ events < MaxEvents /\ events' = events + 1
  BY <1>4 DEF User, onMouseButton, onKeyboard, onTouchStart, onTouchUpdate, onTouchEnd,
              SetGameTextInput, Event, textVars, toldVars
<1>5. ASSUME Finish
      PROVE  UNCHANGED <<textVars, toldText>> /\ events' = events
  BY <1>5 DEF Finish, StoreTouchId, StoreTouchUpdated, SeeTextInput, SetTextInput, WindowGoto,
              textVars, toldVars
<1>6. ASSUME DrawFrame, ~TakeText
      PROVE  UNCHANGED <<textVars, toldText>> /\ events' = events
  BY <1>6 DEF DrawFrame, SampleMouse, SeeText, SampleKeys, SeeTouch, TestTouchId,
              ReadTouchDown, TellTouch, ClearTouch, UpdateWants, FrameGoto, textVars, toldVars,
              windowVars
<1> QED
  BY <1>1, <1>2, <1>3, <1>4, <1>5, <1>6 DEF Next

LEMMA StutterOverlay ==
  ASSUME OverlayInv, UNCHANGED vars
  PROVE  OverlayInv'
  BY DEF OverlayInv, WindowTyped, FrameTyped, TextTyped, Publishing, TextDelivered, vars,
         windowVars, buttonVars, textVars, touchVars, lastVars, wantVars, toldVars

-----------------------------------------------------------------------------
(* The inductive invariant of OverlayInput holds: where each handler and    *)
(* each frame is, and what it has published by then.                        *)
THEOREM Invariance == Spec => []OverlayInv
<1>1. Init => OverlayInv
  BY InitOverlayInv
<1>2. OverlayInv /\ [Next]_vars => OverlayInv'
  <2> SUFFICES ASSUME OverlayInv, [Next]_vars PROVE OverlayInv'
    OBVIOUS
  <2>1. CASE Next
    <3>1. WindowTyped' /\ FrameTyped' /\ Publishing'
      BY <2>1, WindowStep, FrameStep DEF Next
    <3>2. TextTyped' /\ TextDelivered'
      BY <2>1, TextStep
    <3> QED
      BY <3>1, <3>2 DEF OverlayInv
  <2>2. CASE UNCHANGED vars
    BY <2>2, StutterOverlay
  <2> QED
    BY <2>1, <2>2
<1> QED
  BY <1>1, <1>2, PTL DEF Spec

(* Every variable of OverlayInput stays in its range, and between two       *)
(* handlers the finger followed is the finger published.                    *)
THEOREM TypeCorrect == Spec => []TypeOK
<1>1. OverlayInv => TypeOK
  BY DEF OverlayInv, WindowTyped, FrameTyped, TextTyped, Publishing, TypeOK
<1> QED
  BY <1>1, Invariance, PTL

(* The text of onKeyboardText reaches ImGui once and in order, and text     *)
(* that waits is flagged, however handlers and frames interleave.           *)
THEOREM TextReachesImGui == Spec => []TextDelivered
<1>1. OverlayInv => TextDelivered
  BY DEF OverlayInv
<1> QED
  BY <1>1, Invariance, PTL

=============================================================================
