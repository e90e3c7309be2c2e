------------------------- MODULE WindowInput_proofs -------------------------
(***************************************************************************)
(* Proofs about WindowInput.  What the game will believe of a key, a       *)
(* button or a finger once it has read its queue is the last word the      *)
(* queue has on it, or what the game believes now when the queue says      *)
(* nothing of it.  The invariant relates that last word to what is held.   *)
(***************************************************************************)
EXTENDS WindowInput, SequenceTheorems, FiniteSetTheorems, WellFoundedInduction, TLAPS

(* The events of queue in E are those about x; those in D say it is down.   *)
LastWord(queue, E, D, x, told, goal) ==
  /\ (\A i \in 1..Len(queue) : queue[i] \notin E) => (x \in told <=> x \in goal)
  /\ \A i \in 1..Len(queue) :
       queue[i] \in E /\ (\A j \in 1..Len(queue) : j > i => queue[j] \notin E)
         => (queue[i] \in D <=> x \in goal)

(* The events the handlers send, and which of them are about what.          *)
KeyInputs ==
  [pad : {NoPad}, key : Keys, down : BOOLEAN] \cup
  [pad : Pads, key : {"button"}, down : BOOLEAN]
MotionInputs ==
  [pad : {NoPad}, finger : Fingers, action : {"down", "move", "up"}] \cup
  [pad : Pads, finger : {"axes"}, action : {"move"}]
KeysOf(k)    == {e \in KeyInputs : e.pad = NoPad /\ e.key = k}
ButtonsOf(p) == {e \in KeyInputs : e.pad = p}
Presses      == {e \in KeyInputs : e.down = TRUE}
TouchesOf(f) == {e \in MotionInputs : e.pad = NoPad /\ e.finger = f /\ e.action # "move"}
Touches      == {e \in MotionInputs : e.action = "down"}
PressedIn(pads) == {p \in Pads : pads[p].button = TRUE}

-----------------------------------------------------------------------------
ControlTyped ==
  /\ settings \in Settings
  /\ isGameActivity \in BOOLEAN /\ inputEntry \in BOOLEAN
  /\ phase \in {"game", "window"}
  /\ sendEvents \in BOOLEAN /\ inputMode \in Modes /\ recent \in BOOLEAN
  /\ cursorLocked \in BOOLEAN /\ cursorDisabled \in BOOLEAN
  /\ needsQueueGamepadInput \in BOOLEAN /\ wantCapture \in BOOLEAN /\ backlog \in BOOLEAN

PadsTyped ==
  /\ connected \subseteq Pads /\ announced \subseteq Pads
  /\ gamepads \in [Pads -> GamepadData] /\ heldPads \in [Pads -> GamepadData]
  /\ gamePads \in [Pads -> GamepadData]

HandsTyped ==
  /\ imGuiTouchId \subseteq followed /\ followed \subseteq Fingers
  /\ heldKeys \subseteq Keys /\ heldFingers \subseteq Fingers
  /\ gameKeys \subseteq Keys /\ gameFingers \subseteq Fingers

QueuesTyped == keyEvents \in Seq(KeyInputs) /\ motionEvents \in Seq(MotionInputs)

(* Until the first pollAll no event is accepted and nothing is sent.        *)
Starting == ~sendEvents => phase = "game" /\ inputMode = "Unknown"

Unsent ==
  ~sendEvents => /\ announced = {} /\ keyEvents = <<>> /\ motionEvents = <<>>
                 /\ \A p \in Pads : gamepads[p] = Released

Direct == isGameActivity => keyEvents = <<>> /\ motionEvents = <<>>

OverlayOff == ~Overlay => imGuiTouchId = {} /\ followed = {} /\ wantCapture = FALSE

(* Keys, buttons and fingers: the last word on each.                        *)
KeysTold ==
  RawInput /\ ~Overlay =>
    \A k \in Keys : LastWord(keyEvents, KeysOf(k), Presses, k, gameKeys, heldKeys)

ButtonsTold ==
  \A p \in connected \cap announced :
    LastWord(keyEvents, ButtonsOf(p), Presses, p, PressedIn(gamePads), PressedIn(gamepads))

FingersTold ==
  RawInput => \A f \in Fingers \ followed :
    LastWord(motionEvents, TouchesOf(f), Touches, f, gameFingers, heldFingers)

RawPads == RawInput => \A p \in connected : gamepads[p] = heldPads[p]

(* The sticks.  In a poll at most one event for them enters the queue, and  *)
(* none was there before the poll unless there is a backlog.                *)
Waits(queue, p) == \E i \in 1..Len(queue) : queue[i].pad = p
AnyWaits(queue) == \E i \in 1..Len(queue) : queue[i].pad \in Pads
OneWaits(queue) ==
  \A i, j \in 1..Len(queue) : queue[i].pad \in Pads /\ queue[j].pad \in Pads => i = j

Requeue ==
  ~isGameActivity =>
    /\ ~needsQueueGamepadInput => phase = "window" /\ AnyWaits(motionEvents)
    /\ needsQueueGamepadInput /\ phase = "window" /\ ~backlog => ~AnyWaits(motionEvents)

SticksFew == ~backlog => OneWaits(motionEvents)

OnePad == \A p, q \in Pads : p = q

SticksTold ==
  OnePad => \A p \in connected \cap announced :
    Sticks(gamePads[p]) = Sticks(gamepads[p]) \/ Waits(motionEvents, p)

ControlInv ==
  /\ ControlTyped
  /\ batch \in 0..MaxBatch
  /\ Starting
  /\ OverlayOff
  /\ CursorFollowsMode

HandsInv == HandsTyped /\ KeysTold /\ FingersTold

PadsInv   == PadsTyped /\ Unsent /\ ButtonsTold /\ RawPads
SticksInv == Requeue /\ SticksFew /\ SticksTold

InputInv ==
  /\ ControlInv
  /\ QueuesTyped
  /\ Direct
  /\ HandsInv
  /\ PadsInv
  /\ SticksInv

-----------------------------------------------------------------------------
(* The last word on x when an event is appended, when it is handed to the   *)
(* game past an empty queue, and when the game reads the first.             *)
LEMMA LastWordAppend ==
  ASSUME NEW S, NEW q \in Seq(S), NEW e \in S, NEW E, NEW D, NEW x, NEW told, NEW goal,
         NEW before,
         e \in E => (e \in D <=> x \in goal),
         e \notin E => LastWord(q, E, D, x, told, before) /\ (x \in before <=> x \in goal)
  PROVE  LastWord(Append(q, e), E, D, x, told, goal)
<1> DEFINE r == Append(q, e)
<1>1. /\ Len(q) \in Nat /\ Len(r) = Len(q) + 1 /\ r[Len(q) + 1] = e
      /\ \A i \in 1..Len(q) : r[i] = q[i] /\ i \in 1..Len(r)
  BY AppendProperties, LenProperties
<1>2. Len(r) \in 1..Len(r) /\ r[Len(r)] = e
  BY <1>1
<1> HIDE DEF r
<1>3. ASSUME \A i \in 1..Len(r) : r[i] \notin E
      PROVE  x \in told <=> x \in goal
  <2>1. e \notin E
    BY <1>2, <1>3
  <2>2. \A i \in 1..Len(q) : q[i] \notin E
    BY <1>1, <1>3
  <2> QED
    BY <2>1, <2>2 DEF LastWord
<1>4. ASSUME NEW i \in 1..Len(r), r[i] \in E, \A j \in 1..Len(r) : j > i => r[j] \notin E
      PROVE  r[i] \in D <=> x \in goal
  <2>1. CASE i = Len(r)
    BY <1>2, <1>4, <2>1
  <2>2. CASE i # Len(r)
    <3>1. i \in 1..Len(q) /\ Len(r) > i
      BY <1>1, <2>2
    <3>2. e \notin E
      BY <1>2, <1>4, <3>1
    <3>3. q[i] \in E /\ \A j \in 1..Len(q) : j > i => q[j] \notin E
      BY <1>1, <1>4, <3>1
    <3>4. q[i] \in D <=> x \in before
      BY <3>1, <3>2, <3>3 DEF LastWord
    <3> QED
      BY <1>1, <3>1, <3>2, <3>4
  <2> QED
    BY <2>1, <2>2
<1> QED
  BY <1>3, <1>4 DEF LastWord, r

LEMMA LastWordEmpty ==
  ASSUME NEW E, NEW D, NEW x, NEW told, NEW goal, x \in told <=> x \in goal
  PROVE  LastWord(<<>>, E, D, x, told, goal)
<1>1. Len(<<>>) = 0
  BY EmptySeq
<1>2. 1..Len(<<>>) = {}
  BY <1>1
<1> QED
  BY <1>2 DEF LastWord

LEMMA LastWordOfEmpty ==
  ASSUME NEW E, NEW D, NEW x, NEW told, NEW goal, LastWord(<<>>, E, D, x, told, goal)
  PROVE  x \in told <=> x \in goal
<1>1. Len(<<>>) = 0
  BY EmptySeq
<1>2. 1..Len(<<>>) = {}
  BY <1>1
<1> QED
  BY <1>2 DEF LastWord

LEMMA LastWordRead ==
  ASSUME NEW S, NEW q \in Seq(S), q # <<>>, NEW E, NEW D, NEW x, NEW told, NEW goal,
         NEW after, LastWord(q, E, D, x, told, goal),
         Head(q) \in E => (x \in after <=> Head(q) \in D),
         Head(q) \notin E => (x \in after <=> x \in told)
  PROVE  LastWord(Tail(q), E, D, x, after, goal)
<1> DEFINE r == Tail(q)
<1>1. /\ Len(q) \in Nat /\ 1 \in 1..Len(q) /\ Len(r) = Len(q) - 1 /\ Head(q) = q[1]
      /\ \A i \in 1..Len(r) : r[i] = q[i + 1] /\ i + 1 \in 1..Len(q)
  <2>1. Len(q) \in Nat /\ Len(q) # 0
    BY LenProperties, EmptySeq
  <2>2. Tail(q) \in Seq(S) /\ Len(Tail(q)) = Len(q) - 1 /\ Head(q) = q[1]
        /\ \A i \in 1..Len(Tail(q)) : Tail(q)[i] = q[i + 1]
    BY HeadTailProperties, <2>1
  <2> QED
    BY <2>1, <2>2
<1>2. \A j \in 1..Len(q) : j = 1 \/ (j - 1 \in 1..Len(r) /\ r[j - 1] = q[j])
  BY <1>1
<1> HIDE DEF r
<1>3. ASSUME \A i \in 1..Len(r) : r[i] \notin E
      PROVE  x \in after <=> x \in goal
  <2>1. \A j \in 1..Len(q) : j > 1 => q[j] \notin E
    BY <1>1, <1>2, <1>3
  <2>2. CASE q[1] \in E
    <3>1. q[1] \in D <=> x \in goal
      BY <1>1, <2>1, <2>2 DEF LastWord
    <3> QED
      BY <1>1, <2>2, <3>1
  <2>3. CASE q[1] \notin E
    <3>1. \A j \in 1..Len(q) : q[j] \notin E
      BY <1>1, <2>1, <2>3
    <3>2. x \in told <=> x \in goal
      BY <3>1 DEF LastWord
    <3> QED
      BY <1>1, <2>3, <3>2
  <2> QED
    BY <2>2, <2>3
<1>4. ASSUME NEW i \in 1..Len(r), r[i] \in E, \A j \in 1..Len(r) : j > i => r[j] \notin E
      PROVE  r[i] \in D <=> x \in goal
  <2>1. i + 1 \in 1..Len(q) /\ q[i + 1] \in E /\ r[i] = q[i + 1]
    BY <1>1, <1>4
  <2>2. ASSUME NEW j \in 1..Len(q), j > i + 1 PROVE q[j] \notin E
    <3>1. j - 1 \in 1..Len(r) /\ r[j - 1] = q[j] /\ j - 1 > i
      BY <1>1, <1>2, <2>2
    <3> QED
      BY <1>4, <3>1
  <2>3. q[i + 1] \in D <=> x \in goal
    BY <2>1, <2>2 DEF LastWord
  <2> QED
    BY <2>1, <2>3
<1> QED
  BY <1>3, <1>4 DEF LastWord, r

-----------------------------------------------------------------------------
(* One part of one gamepad changes.                                         *)
LEMMA PadButton ==
  ASSUME NEW pads \in [Pads -> GamepadData], NEW p \in Pads, NEW b \in BOOLEAN
  PROVE  LET r == [pads EXCEPT ![p].button = b] IN
           /\ r \in [Pads -> GamepadData]
           /\ r[p].button = b /\ r[p].axis = pads[p].axis /\ r[p].dpad = pads[p].dpad
           /\ \A q \in Pads : q # p => r[q] = pads[q]
<1> DEFINE d == [pads[p] EXCEPT !.button = b]
<1>1. d \in GamepadData /\ d.button = b /\ d.axis = pads[p].axis /\ d.dpad = pads[p].dpad
  BY DEF GamepadData
<1>2. [pads EXCEPT ![p].button = b] = [pads EXCEPT ![p] = d]
  OBVIOUS
<1> HIDE DEF d
<1> QED
  BY <1>1, <1>2

LEMMA PadDpad ==
  ASSUME NEW pads \in [Pads -> GamepadData], NEW p \in Pads, NEW b \in BOOLEAN
  PROVE  LET r == [pads EXCEPT ![p].dpad = b] IN
           /\ r \in [Pads -> GamepadData]
           /\ r[p].dpad = b /\ r[p].axis = pads[p].axis /\ r[p].button = pads[p].button
           /\ \A q \in Pads : q # p => r[q] = pads[q]
<1> DEFINE d == [pads[p] EXCEPT !.dpad = b]
<1>1. d \in GamepadData /\ d.dpad = b /\ d.axis = pads[p].axis /\ d.button = pads[p].button
  BY DEF GamepadData
<1>2. [pads EXCEPT ![p].dpad = b] = [pads EXCEPT ![p] = d]
  OBVIOUS
<1> HIDE DEF d
<1> QED
  BY <1>1, <1>2

LEMMA PadAxis ==
  ASSUME NEW pads \in [Pads -> GamepadData], NEW p \in Pads, NEW a \in 0..2
  PROVE  LET r == [pads EXCEPT ![p].axis = a] IN
           /\ r \in [Pads -> GamepadData]
           /\ r[p].axis = a /\ r[p].dpad = pads[p].dpad /\ r[p].button = pads[p].button
           /\ \A q \in Pads : q # p => r[q] = pads[q]
<1> DEFINE d == [pads[p] EXCEPT !.axis = a]
<1>1. d \in GamepadData /\ d.axis = a /\ d.dpad = pads[p].dpad /\ d.button = pads[p].button
  BY DEF GamepadData
<1>2. [pads EXCEPT ![p].axis = a] = [pads EXCEPT ![p] = d]
  OBVIOUS
<1> HIDE DEF d
<1> QED
  BY <1>1, <1>2

LEMMA ReleasedPads ==
  Released \in GamepadData /\ Released.button = FALSE
  BY DEF Released, GamepadData

(* Two pads' records say the same of p.                                     *)
LEMMA PressedAgree ==
  ASSUME NEW p \in Pads, NEW a, NEW b, a[p].button = b[p].button
  PROVE  p \in PressedIn(a) <=> p \in PressedIn(b)
  BY DEF PressedIn

LEMMA PressedSame ==
  ASSUME NEW p \in Pads, NEW a \in [Pads -> GamepadData], NEW b \in [Pads -> GamepadData],
         p \in PressedIn(a) <=> p \in PressedIn(b)
  PROVE  a[p].button = b[p].button
  BY DEF PressedIn, GamepadData

-----------------------------------------------------------------------------
(* What one event tells the game.                                           *)
LEMMA ToldKeyEffect ==
  ASSUME NEW e \in KeyInputs, ToldKey(e), PadsTyped, HandsTyped, InputAssumption
  PROVE  /\ gamePads' \in [Pads -> GamepadData] /\ gameKeys' \subseteq Keys
         /\ \A k \in Keys :
              /\ e \in KeysOf(k) => (k \in gameKeys' <=> e \in Presses)
              /\ e \notin KeysOf(k) => (k \in gameKeys' <=> k \in gameKeys)
         /\ \A p \in Pads :
              /\ e \in ButtonsOf(p) => (p \in PressedIn(gamePads') <=> e \in Presses)
              /\ e \notin ButtonsOf(p) => (p \in PressedIn(gamePads') <=> p \in PressedIn(gamePads))
              /\ Sticks(gamePads'[p]) = Sticks(gamePads[p])
<1>0. gamePads \in [Pads -> GamepadData] /\ gameKeys \subseteq Keys
  BY DEF PadsTyped, HandsTyped
<1>1. CASE e.pad \in Pads
  <2>1. e.down \in BOOLEAN
    BY DEF KeyInputs
  <2>2. gamePads' = [gamePads EXCEPT ![e.pad].button = e.down] /\ gameKeys' = gameKeys
    BY <1>1 DEF ToldKey
  <2>3. /\ gamePads' \in [Pads -> GamepadData]
        /\ gamePads'[e.pad].button = e.down
        /\ gamePads'[e.pad].axis = gamePads[e.pad].axis
        /\ gamePads'[e.pad].dpad = gamePads[e.pad].dpad
        /\ \A q \in Pads : q # e.pad => gamePads'[q] = gamePads[q]
    BY <1>0, <1>1, <2>1, <2>2, PadButton
  <2>4. \A k \in Keys : e \notin KeysOf(k)
    BY <1>1 DEF KeysOf, InputAssumption
  <2>5. \A p \in Pads : e \in ButtonsOf(p) <=> e.pad = p
    BY DEF ButtonsOf
  <2>6. ASSUME NEW p \in Pads
        PROVE  Sticks(gamePads'[p]) = Sticks(gamePads[p])
    BY <2>3 DEF Sticks
  <2>7. ASSUME NEW p \in Pads, e.pad = p
        PROVE  p \in PressedIn(gamePads') <=> e \in Presses
    BY <2>3, <2>7 DEF PressedIn, Presses
  <2>8. ASSUME NEW p \in Pads, e.pad # p
        PROVE  p \in PressedIn(gamePads') <=> p \in PressedIn(gamePads)
    BY <2>3, <2>8 DEF PressedIn
  <2> QED
    BY <1>0, <2>2, <2>3, <2>4, <2>5, <2>6, <2>7, <2>8
<1>2. CASE e.pad \notin Pads
  <2>1. e.key \in Keys /\ e.pad = NoPad /\ e.down \in BOOLEAN
    BY <1>2 DEF KeyInputs
  <2>2. gamePads' = gamePads /\ gameKeys' = Toggle(gameKeys, e.key, e.down)
    BY <1>2 DEF ToldKey
  <2>3. \A k \in Keys : e \in KeysOf(k) <=> e.key = k
    BY <2>1 DEF KeysOf
  <2>4. \A k \in Keys : /\ k = e.key => (k \in gameKeys' <=> e \in Presses)
                        /\ k # e.key => (k \in gameKeys' <=> k \in gameKeys)
    BY <2>1, <2>2 DEF Toggle, Presses
  <2>5. \A p \in Pads : e \notin ButtonsOf(p)
    BY <1>2 DEF ButtonsOf
  <2>6. gameKeys' \subseteq Keys
    BY <1>0, <2>1, <2>2 DEF Toggle
  <2> QED
    BY <1>0, <2>2, <2>3, <2>4, <2>5, <2>6
<1> QED
  BY <1>1, <1>2

LEMMA ToldMotionEffect ==
  ASSUME NEW e \in MotionInputs, NEW pads \in [Pads -> GamepadData], ToldMotion(e, pads),
         PadsTyped, HandsTyped, InputAssumption
  PROVE  /\ gamePads' \in [Pads -> GamepadData] /\ gameFingers' \subseteq Fingers
         /\ \A f \in Fingers :
              /\ e \in TouchesOf(f) => (f \in gameFingers' <=> e \in Touches)
              /\ e \notin TouchesOf(f) => (f \in gameFingers' <=> f \in gameFingers)
         /\ \A p \in Pads :
              /\ gamePads'[p].button = gamePads[p].button
              /\ e.pad = p => Sticks(gamePads'[p]) = Sticks(pads[p])
              /\ e.pad # p => gamePads'[p] = gamePads[p]
<1>0. gamePads \in [Pads -> GamepadData] /\ gameFingers \subseteq Fingers
  BY DEF PadsTyped, HandsTyped
<1>1. CASE e.pad \in Pads
  <2>1. pads[e.pad].axis \in 0..2 /\ pads[e.pad].dpad \in BOOLEAN
    BY <1>1 DEF GamepadData
  <2>2. /\ gamePads' = [gamePads EXCEPT ![e.pad].axis = pads[e.pad].axis,
                                        ![e.pad].dpad = pads[e.pad].dpad]
        /\ gameFingers' = gameFingers
    BY <1>1 DEF ToldMotion
  <2>3. /\ gamePads' \in [Pads -> GamepadData]
        /\ gamePads'[e.pad].axis = pads[e.pad].axis
        /\ gamePads'[e.pad].dpad = pads[e.pad].dpad
        /\ gamePads'[e.pad].button = gamePads[e.pad].button
        /\ \A q \in Pads : q # e.pad => gamePads'[q] = gamePads[q]
    <3> DEFINE a == pads[e.pad].axis
               b == pads[e.pad].dpad
    <3>1. a \in 0..2 /\ b \in BOOLEAN /\ gamePads \in [Pads -> GamepadData] /\ e.pad \in Pads
      BY <1>0, <1>1, <2>1
    <3>2. gamePads' = [gamePads EXCEPT ![e.pad].axis = a, ![e.pad].dpad = b]
      BY <2>2, Zenon
    <3> HIDE DEF a, b
    <3> DEFINE p == e.pad
               m == [gamePads EXCEPT ![p].axis = a]
               r == [m EXCEPT ![p].dpad = b]
    <3>3. gamePads' = r /\ p \in Pads
      BY <3>1, <3>2
    <3> HIDE DEF p, r, m
    <3>4. /\ m \in [Pads -> GamepadData]
          /\ m[p].axis = a /\ m[p].dpad = gamePads[p].dpad /\ m[p].button = gamePads[p].button
          /\ \A q \in Pads : q # p => m[q] = gamePads[q]
      BY <3>1, <3>3, PadAxis DEF m
    <3>5. /\ r \in [Pads -> GamepadData]
          /\ r[p].dpad = b /\ r[p].axis = m[p].axis /\ r[p].button = m[p].button
          /\ \A q \in Pads : q # p => r[q] = m[q]
      BY <3>1, <3>3, <3>4, PadDpad DEF r
    <3>6. /\ r \in [Pads -> GamepadData]
          /\ r[p].axis = a /\ r[p].dpad = b /\ r[p].button = gamePads[p].button
          /\ \A q \in Pads : q # p => r[q] = gamePads[q]
      BY <3>4, <3>5
    <3> QED
      BY <3>3, <3>6, Zenon DEF a, b, p
  <2>4. \A f \in Fingers : e \notin TouchesOf(f)
    BY <1>1 DEF TouchesOf, InputAssumption
  <2>5. Sticks(gamePads'[e.pad]) = Sticks(pads[e.pad])
    BY <2>3 DEF Sticks
  <2> QED
    BY <1>0, <2>2, <2>3, <2>4, <2>5
<1>2. CASE e.pad \notin Pads
  <2>1. e.finger \in Fingers /\ e.pad = NoPad /\ e.action \in {"down", "move", "up"}
    BY <1>2 DEF MotionInputs
  <2>2. /\ gamePads' = gamePads
        /\ gameFingers' = IF e.action = "move" THEN gameFingers
                          ELSE Toggle(gameFingers, e.finger, e.action = "down")
    BY <1>2 DEF ToldMotion
  <2>3. \A f \in Fingers : e \in TouchesOf(f) <=> e.finger = f /\ e.action # "move"
    BY <2>1 DEF TouchesOf
  <2>4. \A f \in Fingers :
          /\ e.finger = f /\ e.action # "move" => (f \in gameFingers' <=> e \in Touches)
          /\ ~(e.finger = f /\ e.action # "move") => (f \in gameFingers' <=> f \in gameFingers)
    <3>1. CASE e.action = "down"
      BY <2>1, <2>2, <3>1 DEF Toggle, Touches
    <3>2. CASE e.action = "up"
      BY <2>1, <2>2, <3>2 DEF Toggle, Touches
    <3>3. CASE e.action = "move"
      BY <2>1, <2>2, <3>3
    <3> QED
      BY <2>1, <3>1, <3>2, <3>3
  <2>5. gameFingers' \subseteq Fingers
    BY <1>0, <2>1, <2>2 DEF Toggle
  <2> QED
    BY <1>0, <1>2, <2>2, <2>3, <2>4, <2>5
<1> QED
  BY <1>1, <1>2

-----------------------------------------------------------------------------
(* Modes and the cursor.                                                    *)
ModeKept ==
  /\ inputMode' \in Modes /\ recent' \in BOOLEAN /\ cursorDisabled' \in BOOLEAN
  /\ ~sendEvents => inputMode' = "Unknown"
  /\ CursorFollowsMode'

(* Mouse mode takes the cursor as the game wants it, any other mode has     *)
(* none.                                                                    *)
LEMMA CursorOnSwitch ==
  ASSUME NEW want, NEW locked \in BOOLEAN
  PROVE  /\ (want = "Mouse" => locked) \in BOOLEAN
         /\ want = "Mouse" => ((want = "Mouse" => locked) = locked)
         /\ want # "Mouse" => ((want = "Mouse" => locked) = TRUE)
  BY Zenon

LEMMA HandlerModes ==
  ASSUME ControlInv, UNCHANGED settings, UNCHANGED cursorLocked,
         NEW want \in {"Touch", "Mouse", "Gamepad"},
         (sendEvents /\ EnterMode(want)) \/ UNCHANGED <<inputMode, recent, cursorDisabled>>
  PROVE  ModeKept
<1>0. /\ inputMode \in Modes /\ recent \in BOOLEAN /\ cursorDisabled \in BOOLEAN
      /\ cursorLocked \in BOOLEAN /\ CursorFollowsMode
      /\ ~sendEvents => inputMode = "Unknown"
  BY DEF ControlInv, ControlTyped, Starting
<1>1. Filtering' <=> Filtering
  BY DEF Filtering, RawInput, ForcedMode
<1>2. CASE sendEvents /\ EnterMode(want) /\ Filtering
  <2>1. inputMode' = want /\ recent' = TRUE
        /\ cursorDisabled' = IF inputMode = want THEN cursorDisabled
                             ELSE want = "Mouse" => cursorLocked
    BY <1>2 DEF EnterMode
  <2>2. cursorDisabled' \in BOOLEAN
    BY <1>0, <2>1, CursorOnSwitch
  <2>3. want = "Mouse" => cursorDisabled' = cursorLocked'
    <3>1. CASE inputMode = want
      BY <1>0, <1>2, <2>1, <3>1 DEF CursorFollowsMode
    <3>2. CASE inputMode # want
      BY <1>0, <2>1, <3>2, CursorOnSwitch
    <3> QED
      BY <3>1, <3>2
  <2>4. want \in {"Touch", "Gamepad"} => cursorDisabled' = TRUE
    <3>1. CASE inputMode = want
      BY <1>0, <1>2, <2>1, <3>1 DEF CursorFollowsMode
    <3>2. CASE inputMode # want
      BY <1>0, <2>1, <3>2, CursorOnSwitch
    <3> QED
      BY <3>1, <3>2
  <2> QED
    BY <1>2, <2>1, <2>2, <2>3, <2>4 DEF ModeKept, CursorFollowsMode, Modes
<1>3. CASE sendEvents /\ EnterMode(want) /\ ~Filtering
  <2>1. UNCHANGED <<inputMode, recent, cursorDisabled>>
    BY <1>3 DEF EnterMode
  <2> QED
    BY <1>0, <1>1, <2>1 DEF ModeKept, CursorFollowsMode
<1>4. CASE UNCHANGED <<inputMode, recent, cursorDisabled>>
  BY <1>0, <1>1, <1>4 DEF ModeKept, CursorFollowsMode
<1> QED
  BY <1>2, <1>3, <1>4

(* Everything a window event can do to control.                             *)
LEMMA WindowEventControl ==
  ASSUME ControlInv, InputAssumption, UNCHANGED settings, WindowEvent, ModeKept,
         needsQueueGamepadInput' \in BOOLEAN, OverlayOff'
  PROVE  ControlInv'
<1>1. batch' \in 0..MaxBatch
  BY DEF ControlInv, WindowEvent, InputAssumption
<1>2. ControlTyped'
  BY DEF ControlInv, ControlTyped, WindowEvent, ModeKept
<1>3. Starting' /\ CursorFollowsMode'
  BY DEF ControlInv, Starting, WindowEvent, ModeKept
<1> QED
  BY <1>1, <1>2, <1>3 DEF ControlInv

LEMMA SettingsKept ==
  ASSUME UNCHANGED settings
  PROVE  /\ Overlay' <=> Overlay
         /\ RawInput' <=> RawInput
         /\ Filtering' <=> Filtering
  BY DEF Overlay, RawInput, ForcedMode, Filtering

LEMMA KeyboardOrTouchControl ==
  ASSUME ControlInv, InputAssumption, UNCHANGED settings, KeyboardOrTouch
  PROVE  ControlInv'
<1>1. CASE \E key \in Keys, down \in BOOLEAN : onKeyboard(key, down)
  <2> PICK key \in Keys, down \in BOOLEAN : onKeyboard(key, down)
    BY <1>1
  <2>1. WindowEvent /\ UNCHANGED <<cursorLocked, needsQueueGamepadInput, imGuiTouchId, followed, wantCapture>>
    BY DEF onKeyboard, WindowEvent, padVars
  <2>2. (sendEvents /\ EnterMode("Mouse")) \/ UNCHANGED <<inputMode, recent, cursorDisabled>>
    BY DEF onKeyboard, hasInputMode, Ignored
  <2>3. ModeKept
    BY <2>1, <2>2, HandlerModes
  <2>4. OverlayOff'
    BY <2>1, SettingsKept DEF ControlInv, OverlayOff
  <2>5. needsQueueGamepadInput' \in BOOLEAN
    BY <2>1 DEF ControlInv, ControlTyped
  <2> QED
    BY <2>1, <2>3, <2>4, <2>5, WindowEventControl
<1>2. CASE \E finger \in Fingers :
             onTouchStart(finger) \/ onTouchUpdate(finger) \/ onTouchEnd(finger)
  <2> PICK finger \in Fingers :
             onTouchStart(finger) \/ onTouchUpdate(finger) \/ onTouchEnd(finger)
    BY <1>2
  <2>1. WindowEvent /\ UNCHANGED <<cursorLocked, needsQueueGamepadInput, wantCapture>>
    BY DEF onTouchStart, onTouchUpdate, onTouchEnd, WindowEvent, padVars
  <2>2. (sendEvents /\ EnterMode("Touch")) \/ UNCHANGED <<inputMode, recent, cursorDisabled>>
    BY DEF onTouchStart, onTouchUpdate, onTouchEnd, hasInputMode, Ignored
  <2>3. ModeKept
    BY <2>1, <2>2, HandlerModes
  <2>4. ~Overlay => /\ imGuiTouchId' \subseteq imGuiTouchId
                    /\ followed' \subseteq followed \cup imGuiTouchId'
    BY DEF onTouchStart, onTouchUpdate, onTouchEnd, Toggle
  <2>5. OverlayOff'
    BY <2>1, <2>4, SettingsKept DEF ControlInv, OverlayOff
  <2>6. needsQueueGamepadInput' \in BOOLEAN
    BY <2>1 DEF ControlInv, ControlTyped
  <2> QED
    BY <2>1, <2>3, <2>5, <2>6, WindowEventControl
<1> QED
  BY <1>1, <1>2 DEF KeyboardOrTouch

LEMMA GamepadControl ==
  ASSUME ControlInv, InputAssumption, UNCHANGED settings, Gamepad
  PROVE  ControlInv'
<1> PICK p \in Pads :
      \/ \E isConnected \in BOOLEAN : onGamepadState(p, isConnected)
      \/ \E part \in {"dpad", "button"}, pressed \in BOOLEAN : onGamepadButton(p, part, pressed)
      \/ \E value \in 0..2 : onGamepadAxis(p, value)
  BY DEF Gamepad
<1>1. CASE \E isConnected \in BOOLEAN : onGamepadState(p, isConnected)
  <2>1. UNCHANGED <<isGameActivity, inputEntry, phase, batch, sendEvents, inputMode, recent,
                    cursorDisabled, cursorLocked, needsQueueGamepadInput, backlog,
                    imGuiTouchId, followed, wantCapture>>
    BY <1>1 DEF onGamepadState, modeVars, overlayVars
  <2>2. ControlTyped' /\ batch' \in 0..MaxBatch /\ Starting'
    BY <2>1 DEF ControlInv, ControlTyped, Starting
  <2>3. OverlayOff' /\ CursorFollowsMode'
    BY <2>1, SettingsKept DEF ControlInv, OverlayOff, CursorFollowsMode
  <2> QED
    BY <2>2, <2>3 DEF ControlInv
<1>2. CASE \/ \E part \in {"dpad", "button"}, pressed \in BOOLEAN : onGamepadButton(p, part, pressed)
           \/ \E value \in 0..2 : onGamepadAxis(p, value)
  <2>1. WindowEvent /\ UNCHANGED <<cursorLocked, imGuiTouchId, followed, wantCapture>>
    BY <1>2 DEF onGamepadButton, onGamepadAxis, WindowEvent
  <2>2. (sendEvents /\ EnterMode("Gamepad")) \/ UNCHANGED <<inputMode, recent, cursorDisabled>>
    BY <1>2 DEF onGamepadButton, onGamepadAxis, hasInputMode, Ignored
  <2>3. ModeKept
    BY <2>1, <2>2, HandlerModes
  <2>4. OverlayOff'
    BY <2>1, SettingsKept DEF ControlInv, OverlayOff
  <2>5. needsQueueGamepadInput' \in BOOLEAN
    <3>1. needsQueueGamepadInput' = FALSE \/ UNCHANGED needsQueueGamepadInput
      BY <1>2 DEF onGamepadButton, onGamepadAxis, SetButton, queueGamepadAxisInputIfNeeded
    <3> QED
      BY <3>1 DEF ControlInv, ControlTyped
  <2> QED
    BY <2>1, <2>3, <2>4, <2>5, WindowEventControl
<1> QED
  BY <1>1, <1>2

LEMMA LooperControl ==
  ASSUME ControlInv, InputAssumption, UNCHANGED settings, Looper
  PROVE  ControlInv'
<1>1. batch' \in 0..MaxBatch
  BY DEF Looper, pollAll, pollAllReturns, InputAssumption
<1>2. UNCHANGED <<isGameActivity, inputEntry, inputMode, recent, cursorDisabled, cursorLocked,
                  imGuiTouchId, followed, wantCapture>>
  BY DEF Looper, pollAll, pollAllReturns, modeVars, overlayVars
<1>3. /\ phase' \in {"game", "window"} /\ sendEvents' \in BOOLEAN
      /\ ~sendEvents' => ~sendEvents /\ phase' = "game"
  BY DEF Looper, pollAll, pollAllReturns, startSendEvents, modeVars, ControlInv, ControlTyped
<1>4. needsQueueGamepadInput' \in BOOLEAN
  BY DEF Looper, pollAll, pollAllReturns, padVars, ControlInv, ControlTyped
<1>5. backlog' \in BOOLEAN
  <2>1. CASE pollAll
    <3>1. backlog' = (backlog \/ (PollsWindow /\ hasEvents))
      BY <2>1 DEF pollAll
    <3>2. (backlog \/ (PollsWindow /\ hasEvents)) \in BOOLEAN
      BY Zenon
    <3> QED
      BY <3>1, <3>2
  <2>2. CASE pollAllReturns
    BY <2>2 DEF pollAllReturns, ControlInv, ControlTyped
  <2> QED
    BY <2>1, <2>2 DEF Looper
<1>6. ControlTyped'
  BY <1>2, <1>3, <1>4, <1>5 DEF ControlInv, ControlTyped
<1>7. Starting'
  BY <1>2, <1>3 DEF ControlInv, Starting
<1>8. OverlayOff' /\ CursorFollowsMode'
  BY <1>2, SettingsKept DEF ControlInv, OverlayOff, CursorFollowsMode
<1> QED
  BY <1>1, <1>6, <1>7, <1>8 DEF ControlInv

LEMMA GameControl ==
  ASSUME ControlInv, UNCHANGED settings, Game \/ DelayPasses
  PROVE  ControlInv'
<1>1. UNCHANGED <<isGameActivity, phase, batch, sendEvents, inputMode, imGuiTouchId, followed,
                  needsQueueGamepadInput>>
  BY DEF Game, DelayPasses, GameStep, attachInputQueue, HandleEvent, OverlayWants,
         setCursorLocked, padVars, overlayVars
<1>2. inputEntry' \in BOOLEAN /\ recent' \in BOOLEAN
  BY DEF Game, DelayPasses, GameStep, attachInputQueue, HandleEvent, OverlayWants,
         setCursorLocked, ControlInv, ControlTyped
<1>3. cursorLocked' \in BOOLEAN /\ cursorDisabled' \in BOOLEAN
  BY DEF Game, DelayPasses, attachInputQueue, HandleEvent, OverlayWants,
         setCursorLocked, ControlInv, ControlTyped
<1>4. backlog' \in BOOLEAN
  <2>1. CASE HandleEvent
    <3>1. backlog' = (backlog /\ (keyEvents' # <<>> \/ motionEvents' # <<>>))
      BY <2>1 DEF HandleEvent
    <3>2. (backlog /\ (keyEvents' # <<>> \/ motionEvents' # <<>>)) \in BOOLEAN
      BY Zenon
    <3> QED
      BY <3>1, <3>2
  <2>2. CASE ~HandleEvent
    BY <2>2 DEF Game, DelayPasses, attachInputQueue, OverlayWants, setCursorLocked, ControlInv,
                ControlTyped
  <2> QED
    BY <2>1, <2>2
<1>5. wantCapture' \in BOOLEAN /\ (~Overlay => wantCapture' = wantCapture)
  <2>1. CASE OverlayWants
    <3> DEFINE b == ~wantCapture
    <3>1. b \in BOOLEAN /\ Overlay /\ wantCapture' = b
      BY <2>1 DEF OverlayWants
    <3> QED
      BY <3>1
  <2>2. CASE ~OverlayWants
    BY <2>2 DEF Game, DelayPasses, attachInputQueue, HandleEvent, setCursorLocked, overlayVars,
                ControlInv, ControlTyped
  <2> QED
    BY <2>1, <2>2
<1>6. ControlTyped' /\ batch' \in 0..MaxBatch /\ Starting'
  BY <1>1, <1>2, <1>3, <1>4, <1>5 DEF ControlInv, ControlTyped, Starting
<1>7. OverlayOff'
  BY <1>1, <1>5, SettingsKept DEF ControlInv, OverlayOff
<1>8. CursorFollowsMode'
  <2>1. CASE \E locked \in BOOLEAN : setCursorLocked(locked)
    <3> PICK locked \in BOOLEAN : setCursorLocked(locked)
      BY <2>1
    <3>1. cursorLocked' = locked
          /\ cursorDisabled' = IF hasInputMode("Mouse", FALSE) THEN locked ELSE cursorDisabled
      BY DEF setCursorLocked
    <3>2. Filtering => (hasInputMode("Mouse", FALSE) <=> sendEvents /\ inputMode = "Mouse")
      BY DEF hasInputMode, Filtering
    <3>3. inputMode = "Mouse" => sendEvents
      BY DEF ControlInv, Starting
    <3> QED
      BY <1>1, <3>1, <3>2, <3>3, SettingsKept DEF ControlInv, CursorFollowsMode
  <2>2. CASE ~\E locked \in BOOLEAN : setCursorLocked(locked)
    <3>1. UNCHANGED <<cursorLocked, cursorDisabled>>
      BY <2>2 DEF Game, DelayPasses, attachInputQueue, HandleEvent, OverlayWants
    <3> QED
      BY <1>1, <3>1, SettingsKept DEF ControlInv, CursorFollowsMode
  <2> QED
    BY <2>1, <2>2
<1> QED
  BY <1>6, <1>7, <1>8 DEF ControlInv

-----------------------------------------------------------------------------
(* An event sent: to the queue, or past it to a GameActivity.               *)
LEMMA SendKeyTyped ==
  ASSUME NEW e \in KeyInputs, SendKey(e), QueuesTyped, Direct, PadsTyped, HandsTyped,
         InputAssumption
  PROVE  /\ QueuesTyped' /\ UNCHANGED <<motionEvents, gameFingers>>
         /\ isGameActivity => keyEvents' = keyEvents
         /\ gameKeys' \subseteq Keys /\ gamePads' \in [Pads -> GamepadData]
         /\ \A p \in Pads : Sticks(gamePads'[p]) = Sticks(gamePads[p])
<1>1. CASE isGameActivity
  <2>1. ToldKey(e) /\ UNCHANGED <<keyEvents, motionEvents, gameFingers>>
    BY <1>1 DEF SendKey, queueVars
  <2> QED
    BY <2>1, ToldKeyEffect DEF QueuesTyped
<1>2. CASE ~isGameActivity
  <2>1. keyEvents' = Append(keyEvents, e)
        /\ UNCHANGED <<motionEvents, gameKeys, gameFingers, gamePads>>
    BY <1>2 DEF SendKey, gameVars
  <2>2. keyEvents' \in Seq(KeyInputs)
    BY <2>1, AppendProperties DEF QueuesTyped
  <2> QED
    BY <1>2, <2>1, <2>2 DEF QueuesTyped, PadsTyped, HandsTyped
<1> QED
  BY <1>1, <1>2

LEMMA KeySent ==
  ASSUME NEW e \in KeyInputs, SendKey(e), QueuesTyped, Direct, PadsTyped, HandsTyped,
         InputAssumption, NEW k \in Keys, NEW before, NEW held,
         e \in KeysOf(k) => (e \in Presses <=> k \in held),
         e \notin KeysOf(k) => /\ LastWord(keyEvents, KeysOf(k), Presses, k, gameKeys, before)
                               /\ k \in before <=> k \in held
  PROVE  LastWord(keyEvents', KeysOf(k), Presses, k, gameKeys', held)
<1>1. CASE isGameActivity
  <2>1. ToldKey(e) /\ keyEvents' = <<>> /\ keyEvents = <<>>
    BY <1>1 DEF SendKey, queueVars, Direct
  <2>2. /\ e \in KeysOf(k) => (k \in gameKeys' <=> e \in Presses)
        /\ e \notin KeysOf(k) => (k \in gameKeys' <=> k \in gameKeys)
    BY <2>1, ToldKeyEffect
  <2>3. e \notin KeysOf(k) => (k \in gameKeys <=> k \in before)
    BY <2>1, LastWordOfEmpty
  <2>4. k \in gameKeys' <=> k \in held
    BY <2>2, <2>3
  <2> QED
    BY <2>1, <2>4, LastWordEmpty
<1>2. CASE ~isGameActivity
  <2>1. keyEvents' = Append(keyEvents, e) /\ gameKeys' = gameKeys
    BY <1>2 DEF SendKey, gameVars
  <2>2. keyEvents \in Seq(KeyInputs)
    BY DEF QueuesTyped
  <2> QED
    BY <2>1, <2>2, LastWordAppend
<1> QED
  BY <1>1, <1>2

LEMMA ButtonSent ==
  ASSUME NEW e \in KeyInputs, SendKey(e), QueuesTyped, Direct, PadsTyped, HandsTyped,
         InputAssumption, NEW p \in Pads, NEW before, NEW after,
         e \in ButtonsOf(p) => (e \in Presses <=> p \in after),
         e \notin ButtonsOf(p) =>
           /\ LastWord(keyEvents, ButtonsOf(p), Presses, p, PressedIn(gamePads), before)
           /\ p \in before <=> p \in after
  PROVE  LastWord(keyEvents', ButtonsOf(p), Presses, p, PressedIn(gamePads'), after)
<1>1. CASE isGameActivity
  <2>1. ToldKey(e) /\ keyEvents' = <<>> /\ keyEvents = <<>>
    BY <1>1 DEF SendKey, queueVars, Direct
  <2>2. /\ e \in ButtonsOf(p) => (p \in PressedIn(gamePads') <=> e \in Presses)
        /\ e \notin ButtonsOf(p) => (p \in PressedIn(gamePads') <=> p \in PressedIn(gamePads))
    BY <2>1, ToldKeyEffect
  <2>3. e \notin ButtonsOf(p) => (p \in PressedIn(gamePads) <=> p \in before)
    BY <2>1, LastWordOfEmpty
  <2>4. p \in PressedIn(gamePads') <=> p \in after
    BY <2>2, <2>3
  <2> QED
    BY <2>1, <2>4, LastWordEmpty
<1>2. CASE ~isGameActivity
  <2>1. keyEvents' = Append(keyEvents, e) /\ gamePads' = gamePads
    BY <1>2 DEF SendKey, gameVars
  <2>2. keyEvents \in Seq(KeyInputs)
    BY DEF QueuesTyped
  <2> QED
    BY <2>1, <2>2, LastWordAppend
<1> QED
  BY <1>1, <1>2

LEMMA SendMotionTyped ==
  ASSUME NEW e \in MotionInputs, NEW pads \in [Pads -> GamepadData], SendMotion(e, pads),
         QueuesTyped, Direct, PadsTyped, HandsTyped, InputAssumption
  PROVE  /\ QueuesTyped' /\ UNCHANGED <<keyEvents, gameKeys>>
         /\ isGameActivity => motionEvents' = motionEvents
         /\ ~isGameActivity => motionEvents' = Append(motionEvents, e) /\ gamePads' = gamePads
         /\ gameFingers' \subseteq Fingers /\ gamePads' \in [Pads -> GamepadData]
         /\ \A p \in Pads : gamePads'[p].button = gamePads[p].button
         /\ \A p \in Pads : e.pad # p => gamePads'[p] = gamePads[p]
         /\ \A p \in Pads : isGameActivity /\ e.pad = p => Sticks(gamePads'[p]) = Sticks(pads[p])
<1>1. CASE isGameActivity
  <2>1. ToldMotion(e, pads) /\ UNCHANGED <<keyEvents, motionEvents, gameKeys>>
    BY <1>1 DEF SendMotion, queueVars
  <2> QED
    BY <1>1, <2>1, ToldMotionEffect DEF QueuesTyped
<1>2. CASE ~isGameActivity
  <2>1. motionEvents' = Append(motionEvents, e)
        /\ UNCHANGED <<keyEvents, gameKeys, gameFingers, gamePads>>
    BY <1>2 DEF SendMotion, gameVars
  <2>2. motionEvents' \in Seq(MotionInputs)
    BY <2>1, AppendProperties DEF QueuesTyped
  <2> QED
    BY <1>2, <2>1, <2>2 DEF QueuesTyped, PadsTyped, HandsTyped
<1> QED
  BY <1>1, <1>2

LEMMA FingerSent ==
  ASSUME NEW e \in MotionInputs, NEW pads \in [Pads -> GamepadData], SendMotion(e, pads),
         QueuesTyped, Direct, PadsTyped, HandsTyped, InputAssumption,
         NEW f \in Fingers, NEW before, NEW held,
         e \in TouchesOf(f) => (e \in Touches <=> f \in held),
         e \notin TouchesOf(f) =>
           /\ LastWord(motionEvents, TouchesOf(f), Touches, f, gameFingers, before)
           /\ f \in before <=> f \in held
  PROVE  LastWord(motionEvents', TouchesOf(f), Touches, f, gameFingers', held)
<1>1. CASE isGameActivity
  <2>1. ToldMotion(e, pads) /\ motionEvents' = <<>> /\ motionEvents = <<>>
    BY <1>1 DEF SendMotion, queueVars, Direct
  <2>2. /\ e \in TouchesOf(f) => (f \in gameFingers' <=> e \in Touches)
        /\ e \notin TouchesOf(f) => (f \in gameFingers' <=> f \in gameFingers)
    BY <2>1, ToldMotionEffect
  <2>3. e \notin TouchesOf(f) => (f \in gameFingers <=> f \in before)
    BY <2>1, LastWordOfEmpty
  <2>4. f \in gameFingers' <=> f \in held
    BY <2>2, <2>3
  <2> QED
    BY <2>1, <2>4, LastWordEmpty
<1>2. CASE ~isGameActivity
  <2>1. motionEvents' = Append(motionEvents, e) /\ gameFingers' = gameFingers
    BY <1>2 DEF SendMotion, gameVars
  <2>2. motionEvents \in Seq(MotionInputs)
    BY DEF QueuesTyped
  <2> QED
    BY <2>1, <2>2, LastWordAppend
<1> QED
  BY <1>1, <1>2

-----------------------------------------------------------------------------
(* Keys and fingers, and the queues, step by step.                          *)
HandsQueuesInv == HandsInv /\ QueuesTyped /\ Direct

LEMMA HandsKept ==
  ASSUME InputInv, UNCHANGED settings,
         UNCHANGED <<isGameActivity, keyEvents, motionEvents, imGuiTouchId, followed, heldKeys,
                     heldFingers, gameKeys, gameFingers>>
  PROVE  HandsQueuesInv'
<1>1. QueuesTyped' /\ Direct' /\ HandsTyped'
  BY DEF InputInv, HandsInv, QueuesTyped, Direct, HandsTyped
<1>2. KeysTold' /\ FingersTold'
  BY SettingsKept DEF InputInv, HandsInv, KeysTold, FingersTold
<1> QED
  BY <1>1, <1>2 DEF HandsQueuesInv, HandsInv

(* Raw input accepts every event the window reports.                        *)
LEMMA RawAccepts ==
  ASSUME ControlInv, WindowEvent, RawInput, NEW want
  PROVE  hasInputMode(want, TRUE)
<1>1. sendEvents
  BY DEF ControlInv, Starting, WindowEvent
<1> QED
  BY <1>1 DEF hasInputMode

LEMMA InvFacts ==
  ASSUME InputInv
  PROVE  /\ ControlInv /\ QueuesTyped /\ Direct /\ PadsTyped /\ HandsTyped /\ KeysTold
         /\ FingersTold /\ OverlayOff
  BY DEF InputInv, ControlInv, PadsInv, HandsInv

LEMMA KeyboardHands ==
  ASSUME InputInv, InputAssumption, UNCHANGED settings,
         NEW key \in Keys, NEW down \in BOOLEAN, onKeyboard(key, down)
  PROVE  HandsQueuesInv'
<1> DEFINE e == KeyEvent(key, down)
<1>1. e \in KeyInputs /\ e.pad = NoPad /\ e.key = key /\ e.down = down
  BY DEF KeyEvent, KeyInputs
<1>2. NothingSent \/ SendKey(e)
  BY DEF onKeyboard, Ignored
<1>3. UNCHANGED <<isGameActivity, imGuiTouchId, followed, heldFingers>>
      /\ heldKeys' = Toggle(heldKeys, key, down)
  BY DEF onKeyboard, WindowEvent
<1>4. (e \in Presses <=> down = TRUE) /\ \A k \in Keys : e \in KeysOf(k) <=> k = key
  BY <1>1 DEF Presses, KeysOf
<1>5. RawInput /\ ~Overlay => SendKey(e)
  <2>1. RawInput => hasInputMode("Mouse", TRUE)
    BY RawAccepts, InvFacts DEF onKeyboard
  <2>2. ~Overlay => ~wantCapture
    BY InvFacts DEF OverlayOff
  <2> QED
    BY <2>1, <2>2 DEF onKeyboard
<1> HIDE DEF e
<1>6. QueuesTyped' /\ Direct' /\ UNCHANGED <<motionEvents, gameFingers>> /\ gameKeys' \subseteq Keys
  <2>1. CASE NothingSent
    BY <1>3, <2>1, InvFacts DEF NothingSent, queueVars, gameVars, QueuesTyped, Direct, HandsTyped
  <2>2. CASE SendKey(e)
    BY <1>1, <1>3, <2>2, InvFacts, SendKeyTyped DEF Direct
  <2> QED
    BY <1>2, <2>1, <2>2
<1>7. HandsTyped'
  BY <1>3, <1>6, InvFacts DEF HandsTyped, Toggle
<1>8. FingersTold'
  BY <1>3, <1>6, InvFacts, SettingsKept DEF FingersTold
<1>9. KeysTold'
  <2> SUFFICES ASSUME RawInput, ~Overlay, NEW k \in Keys
               PROVE  LastWord(keyEvents', KeysOf(k), Presses, k, gameKeys', heldKeys')
    BY SettingsKept DEF KeysTold
  <2>1. LastWord(keyEvents, KeysOf(k), Presses, k, gameKeys, heldKeys)
    BY InvFacts DEF KeysTold
  <2>2. e \in KeysOf(k) => (e \in Presses <=> k \in heldKeys')
    BY <1>3, <1>4 DEF Toggle
  <2>3. e \notin KeysOf(k) => (k \in heldKeys <=> k \in heldKeys')
    BY <1>3, <1>4 DEF Toggle
  <2> QED
    BY <1>1, <1>5, <2>1, <2>2, <2>3, InvFacts, KeySent
<1> QED
  BY <1>6, <1>7, <1>8, <1>9 DEF HandsQueuesInv, HandsInv

LEMMA TouchTyped ==
  ASSUME InputInv, InputAssumption, UNCHANGED isGameActivity, NEW f \in Fingers,
         NEW action \in {"down", "move", "up"},
         NothingSent \/ SendMotion(TouchEvent(f, action), gamepads)
  PROVE  /\ QueuesTyped' /\ Direct' /\ UNCHANGED <<keyEvents, gameKeys>>
         /\ gameFingers' \subseteq Fingers
<1>1. CASE NothingSent
  BY <1>1, InvFacts DEF NothingSent, queueVars, gameVars, QueuesTyped, Direct, HandsTyped
<1>2. CASE SendMotion(TouchEvent(f, action), gamepads)
  <2>1. TouchEvent(f, action) \in MotionInputs
    BY DEF TouchEvent, MotionInputs
  <2>2. gamepads \in [Pads -> GamepadData]
    BY InvFacts DEF PadsTyped
  <2> QED
    BY <1>2, <2>1, <2>2, InvFacts, SendMotionTyped DEF Direct
<1> QED
  BY <1>1, <1>2

(* The last word on g after an event of f.                                  *)
LEMMA TouchSent ==
  ASSUME InputInv, InputAssumption, NEW f \in Fingers, NEW g \in Fingers,
         NEW action \in {"down", "move", "up"},
         SendMotion(TouchEvent(f, action), gamepads), NEW held,
         f = g /\ action # "move" => (action = "down" <=> g \in held),
         f # g \/ action = "move" =>
           /\ LastWord(motionEvents, TouchesOf(g), Touches, g, gameFingers, heldFingers)
           /\ g \in heldFingers <=> g \in held
  PROVE  LastWord(motionEvents', TouchesOf(g), Touches, g, gameFingers', held)
<1> DEFINE e == TouchEvent(f, action)
<1>1. e \in MotionInputs /\ e.pad = NoPad /\ e.finger = f /\ e.action = action
  BY DEF TouchEvent, MotionInputs
<1>2. gamepads \in [Pads -> GamepadData]
  BY InvFacts DEF PadsTyped
<1> HIDE DEF e
<1>3. (e \in TouchesOf(g) <=> f = g /\ action # "move") /\ (e \in Touches <=> action = "down")
  BY <1>1 DEF TouchesOf, Touches
<1>4. SendMotion(e, gamepads)
  BY DEF e
<1> QED
  BY <1>1, <1>2, <1>3, <1>4, InvFacts, FingerSent

LEMMA TouchStartHands ==
  ASSUME InputInv, InputAssumption, UNCHANGED settings, NEW f \in Fingers, onTouchStart(f)
  PROVE  HandsQueuesInv'
<1>1. /\ UNCHANGED <<isGameActivity, heldKeys>> /\ WindowEvent
      /\ f \notin heldFingers /\ heldFingers' = heldFingers \cup {f}
  BY DEF onTouchStart, WindowEvent
<1>2. NothingSent \/ SendMotion(TouchEvent(f, "down"), gamepads)
  BY DEF onTouchStart, Ignored
<1>3. /\ imGuiTouchId' = imGuiTouchId \/ (imGuiTouchId = {} /\ imGuiTouchId' = {f} /\ Overlay)
      /\ followed' = IF f \in imGuiTouchId' THEN followed \cup {f} ELSE followed \ {f}
  BY DEF onTouchStart, Toggle
<1>4. QueuesTyped' /\ Direct' /\ UNCHANGED <<keyEvents, gameKeys>> /\ gameFingers' \subseteq Fingers
  BY <1>1, <1>2, TouchTyped
<1>5. HandsTyped'
  BY <1>1, <1>3, <1>4, InvFacts DEF HandsTyped
<1>6. KeysTold'
  BY <1>1, <1>4, InvFacts, SettingsKept DEF KeysTold
<1>7. FingersTold'
  <2> SUFFICES ASSUME RawInput, NEW g \in Fingers \ followed'
               PROVE  LastWord(motionEvents', TouchesOf(g), Touches, g, gameFingers', heldFingers')
    BY SettingsKept DEF FingersTold
  <2>1. hasInputMode("Touch", TRUE)
    BY <1>1, RawAccepts, InvFacts
  <2>2. CASE NothingSent
    <3>1. (imGuiTouchId' # imGuiTouchId /\ wantCapture) \/ UNCHANGED motionEvents
      BY <2>2 DEF NothingSent, queueVars
    <3>2. CASE g = f
      <4>1. SendMotion(TouchEvent(f, "down"), gamepads)
        <5>1. ~(imGuiTouchId' # imGuiTouchId)
          BY <1>3, <3>2
        <5> QED
          BY <2>1, <5>1 DEF onTouchStart
      <4> QED
        BY <1>1, <3>2, <4>1, TouchSent
    <3>3. CASE g # f
      <4>1. LastWord(motionEvents, TouchesOf(g), Touches, g, gameFingers, heldFingers)
        BY <1>1, <1>3, <3>3, InvFacts DEF FingersTold
      <4>2. UNCHANGED <<motionEvents, gameFingers>>
        BY <2>2 DEF NothingSent, queueVars, gameVars
      <4>3. g \in heldFingers' <=> g \in heldFingers
        BY <1>1, <3>3
      <4> QED
        BY <4>1, <4>2, <4>3 DEF LastWord
    <3> QED
      BY <3>2, <3>3
  <2>3. CASE SendMotion(TouchEvent(f, "down"), gamepads)
    <3>1. CASE g = f
      BY <1>1, <2>3, <3>1, TouchSent
    <3>2. CASE g # f
      <4>1. LastWord(motionEvents, TouchesOf(g), Touches, g, gameFingers, heldFingers)
        BY <1>1, <1>3, <3>2, InvFacts DEF FingersTold
      <4>2. g \in heldFingers <=> g \in heldFingers'
        BY <1>1, <3>2
      <4> QED
        BY <2>3, <3>2, <4>1, <4>2, TouchSent
    <3> QED
      BY <3>1, <3>2
  <2> QED
    BY <1>2, <2>2, <2>3
<1> QED
  BY <1>4, <1>5, <1>6, <1>7 DEF HandsQueuesInv, HandsInv

LEMMA TouchUpdateHands ==
  ASSUME InputInv, InputAssumption, UNCHANGED settings, NEW f \in Fingers, onTouchUpdate(f)
  PROVE  HandsQueuesInv'
<1>1. UNCHANGED <<isGameActivity, heldKeys, heldFingers, imGuiTouchId, followed>>
  BY DEF onTouchUpdate, WindowEvent, userVars
<1>2. NothingSent \/ SendMotion(TouchEvent(f, "move"), gamepads)
  BY DEF onTouchUpdate, Ignored
<1>3. QueuesTyped' /\ Direct' /\ UNCHANGED <<keyEvents, gameKeys>> /\ gameFingers' \subseteq Fingers
  BY <1>1, <1>2, TouchTyped
<1>4. HandsTyped' /\ KeysTold'
  BY <1>1, <1>3, InvFacts, SettingsKept DEF HandsTyped, KeysTold
<1>5. FingersTold'
  <2> SUFFICES ASSUME RawInput, NEW g \in Fingers \ followed
               PROVE  LastWord(motionEvents', TouchesOf(g), Touches, g, gameFingers', heldFingers')
    BY <1>1, SettingsKept DEF FingersTold
  <2>1. LastWord(motionEvents, TouchesOf(g), Touches, g, gameFingers, heldFingers)
    BY InvFacts DEF FingersTold
  <2>2. CASE NothingSent
    BY <1>1, <2>1, <2>2 DEF NothingSent, queueVars, gameVars
  <2>3. CASE SendMotion(TouchEvent(f, "move"), gamepads)
    BY <1>1, <2>1, <2>3, TouchSent
  <2> QED
    BY <1>2, <2>2, <2>3
<1> QED
  BY <1>3, <1>4, <1>5 DEF HandsQueuesInv, HandsInv

LEMMA TouchEndHands ==
  ASSUME InputInv, InputAssumption, UNCHANGED settings, NEW f \in Fingers, onTouchEnd(f)
  PROVE  HandsQueuesInv'
<1>1. /\ UNCHANGED <<isGameActivity, heldKeys>> /\ WindowEvent
      /\ heldFingers' = heldFingers \ {f}
  BY DEF onTouchEnd, WindowEvent
<1>2. NothingSent \/ SendMotion(TouchEvent(f, "up"), gamepads)
  BY DEF onTouchEnd, Ignored
<1>3. /\ imGuiTouchId' = imGuiTouchId \/ imGuiTouchId' = imGuiTouchId \ {f}
      /\ followed' = followed
  BY DEF onTouchEnd
<1>4. QueuesTyped' /\ Direct' /\ UNCHANGED <<keyEvents, gameKeys>> /\ gameFingers' \subseteq Fingers
  BY <1>1, <1>2, TouchTyped
<1>5. HandsTyped'
  BY <1>1, <1>3, <1>4, InvFacts DEF HandsTyped
<1>6. KeysTold'
  BY <1>1, <1>4, InvFacts, SettingsKept DEF KeysTold
<1>7. FingersTold'
  <2> SUFFICES ASSUME RawInput, NEW g \in Fingers \ followed'
               PROVE  LastWord(motionEvents', TouchesOf(g), Touches, g, gameFingers', heldFingers')
    BY SettingsKept DEF FingersTold
  <2>1. hasInputMode("Touch", TRUE)
    BY <1>1, RawAccepts, InvFacts
  <2>2. CASE g = f
    <3>1. f \notin imGuiTouchId
      BY <1>3, <2>2, InvFacts DEF HandsTyped
    <3>2. SendMotion(TouchEvent(f, "up"), gamepads)
      BY <2>1, <3>1 DEF onTouchEnd
    <3> QED
      BY <1>1, <2>2, <3>2, TouchSent
  <2>3. CASE g # f
    <3>1. LastWord(motionEvents, TouchesOf(g), Touches, g, gameFingers, heldFingers)
      BY <1>1, <1>3, <2>3, InvFacts DEF FingersTold
    <3>2. g \in heldFingers <=> g \in heldFingers'
      BY <1>1, <2>3
    <3>3. CASE NothingSent
      <4>1. UNCHANGED <<motionEvents, gameFingers>>
        BY <3>3 DEF NothingSent, queueVars, gameVars
      <4> QED
        BY <3>1, <3>2, <4>1 DEF LastWord
    <3>4. CASE SendMotion(TouchEvent(f, "up"), gamepads)
      BY <2>3, <3>1, <3>2, <3>4, TouchSent
    <3> QED
      BY <1>2, <3>3, <3>4
  <2> QED
    BY <2>2, <2>3
<1> QED
  BY <1>4, <1>5, <1>6, <1>7 DEF HandsQueuesInv, HandsInv

(* Events of a gamepad say nothing of keys and fingers.                     *)
LEMMA PadEventHands ==
  ASSUME InputInv, InputAssumption, UNCHANGED settings,
         UNCHANGED <<isGameActivity, heldKeys, heldFingers, imGuiTouchId, followed>>,
         NEW p \in Pads, NEW pressed \in BOOLEAN, NEW pads \in [Pads -> GamepadData],
         \/ NothingSent
         \/ SendKey(PadButtonEvent(p, pressed))
         \/ SendMotion(PadMotionEvent(p), pads)
  PROVE  HandsQueuesInv'
<1>1. CASE NothingSent
  BY <1>1, HandsKept DEF NothingSent, queueVars, gameVars
<1>2. CASE SendKey(PadButtonEvent(p, pressed))
  <2> DEFINE e == PadButtonEvent(p, pressed)
  <2>1. e \in KeyInputs /\ e.pad = p
    BY DEF PadButtonEvent, KeyInputs
  <2>2. SendKey(e)
    BY <1>2
  <2> HIDE DEF e
  <2>3. \A k \in Keys : e \notin KeysOf(k)
    BY <2>1 DEF KeysOf, InputAssumption
  <2>4. QueuesTyped' /\ UNCHANGED <<motionEvents, gameFingers>> /\ gameKeys' \subseteq Keys
        /\ (isGameActivity => keyEvents' = keyEvents)
    BY <2>1, <2>2, InvFacts, SendKeyTyped
  <2>5. Direct' /\ HandsTyped' /\ FingersTold'
    BY <2>4, InvFacts, SettingsKept DEF Direct, HandsTyped, FingersTold
  <2>6. ASSUME RawInput, ~Overlay, NEW k \in Keys
        PROVE  LastWord(keyEvents', KeysOf(k), Presses, k, gameKeys', heldKeys')
    <3>1. LastWord(keyEvents, KeysOf(k), Presses, k, gameKeys, heldKeys)
      BY <2>6, InvFacts DEF KeysTold
    <3> QED
      BY <2>1, <2>2, <2>3, <3>1, InvFacts, KeySent
  <2>7. KeysTold'
    BY <2>6, SettingsKept DEF KeysTold
  <2> QED
    BY <2>4, <2>5, <2>7 DEF HandsQueuesInv, HandsInv
<1>3. CASE SendMotion(PadMotionEvent(p), pads)
  <2> DEFINE e == PadMotionEvent(p)
  <2>1. e \in MotionInputs /\ e.pad = p
    BY DEF PadMotionEvent, MotionInputs
  <2>2. SendMotion(e, pads)
    BY <1>3
  <2> HIDE DEF e
  <2>3. \A f \in Fingers : e \notin TouchesOf(f)
    BY <2>1 DEF TouchesOf, InputAssumption
  <2>4. QueuesTyped' /\ UNCHANGED <<keyEvents, gameKeys>> /\ gameFingers' \subseteq Fingers
        /\ (isGameActivity => motionEvents' = motionEvents)
    BY <2>1, <2>2, InvFacts, SendMotionTyped
  <2>5. Direct' /\ HandsTyped' /\ KeysTold'
    BY <2>4, InvFacts, SettingsKept DEF Direct, HandsTyped, KeysTold
  <2>6. ASSUME RawInput, NEW f \in Fingers \ followed
        PROVE  LastWord(motionEvents', TouchesOf(f), Touches, f, gameFingers', heldFingers')
    <3>1. LastWord(motionEvents, TouchesOf(f), Touches, f, gameFingers, heldFingers)
      BY <2>6, InvFacts DEF FingersTold
    <3> QED
      BY <2>1, <2>2, <2>3, <3>1, InvFacts, FingerSent
  <2>7. FingersTold'
    BY <2>6, SettingsKept DEF FingersTold
  <2> QED
    BY <2>4, <2>5, <2>7 DEF HandsQueuesInv, HandsInv
<1> QED
  BY <1>1, <1>2, <1>3

(* The records of one button after its handler.                             *)
ButtonSet(new, pads, p, part, pressed) ==
  /\ new \in [Pads -> GamepadData]
  /\ new[p].axis = pads[p].axis
  /\ new[p].dpad = IF part = "dpad" THEN pressed ELSE pads[p].dpad
  /\ new[p].button = IF part = "button" THEN pressed ELSE pads[p].button
  /\ \A q \in Pads : q # p => new[q] = pads[q]

LEMMA ButtonRecords ==
  ASSUME NEW p \in Pads, NEW part \in {"dpad", "button"}, NEW pressed \in BOOLEAN,
         NEW pads \in [Pads -> GamepadData], NEW new,
         new = [pads EXCEPT ![p][part] = pressed]
  PROVE  ButtonSet(new, pads, p, part, pressed)
<1>1. CASE part = "dpad"
  <2> DEFINE r == [pads EXCEPT ![p].dpad = pressed]
  <2>1. new = r
    BY <1>1
  <2>2. /\ r \in [Pads -> GamepadData]
        /\ r[p].dpad = pressed /\ r[p].axis = pads[p].axis /\ r[p].button = pads[p].button
        /\ \A q \in Pads : q # p => r[q] = pads[q]
    BY PadDpad
  <2> HIDE DEF r
  <2> QED
    BY <1>1, <2>1, <2>2 DEF ButtonSet
<1>2. CASE part = "button"
  <2> DEFINE r == [pads EXCEPT ![p].button = pressed]
  <2>1. new = r
    BY <1>2
  <2>2. /\ r \in [Pads -> GamepadData]
        /\ r[p].button = pressed /\ r[p].axis = pads[p].axis /\ r[p].dpad = pads[p].dpad
        /\ \A q \in Pads : q # p => r[q] = pads[q]
    BY PadButton
  <2> HIDE DEF r
  <2> QED
    BY <1>2, <2>1, <2>2 DEF ButtonSet
<1> QED
  BY <1>1, <1>2

LEMMA GamepadHands ==
  ASSUME InputInv, InputAssumption, UNCHANGED settings, Gamepad
  PROVE  HandsQueuesInv'
<1> PICK p \in Pads :
      \/ \E isConnected \in BOOLEAN : onGamepadState(p, isConnected)
      \/ \E part \in {"dpad", "button"}, pressed \in BOOLEAN : onGamepadButton(p, part, pressed)
      \/ \E value \in 0..2 : onGamepadAxis(p, value)
  BY DEF Gamepad
<1>0. gamepads \in [Pads -> GamepadData]
  BY InvFacts DEF PadsTyped
<1>1. CASE \E isConnected \in BOOLEAN : onGamepadState(p, isConnected)
  <2>1. UNCHANGED <<isGameActivity, keyEvents, motionEvents, imGuiTouchId, followed, heldKeys,
                    heldFingers, gameKeys, gameFingers>>
    BY <1>1 DEF onGamepadState, queueVars, overlayVars
  <2> QED
    BY <2>1, HandsKept
<1>2. CASE \E part \in {"dpad", "button"}, pressed \in BOOLEAN : onGamepadButton(p, part, pressed)
  <2> PICK part \in {"dpad", "button"}, pressed \in BOOLEAN : onGamepadButton(p, part, pressed)
    BY <1>2
  <2>1. UNCHANGED <<isGameActivity, heldKeys, heldFingers, imGuiTouchId, followed>>
    BY DEF onGamepadButton, WindowEvent
  <2>2. NothingSent \/ SendKey(PadButtonEvent(p, pressed)) \/ SendMotion(PadMotionEvent(p), gamepads')
    BY DEF onGamepadButton, Ignored, SetButton, queueGamepadAxisInputIfNeeded
  <2>3. gamepads' = gamepads \/ gamepads' = [gamepads EXCEPT ![p][part] = pressed]
    BY DEF onGamepadButton, SetButton
  <2>4. gamepads' \in [Pads -> GamepadData]
    BY <1>0, <2>3, ButtonRecords DEF ButtonSet
  <2> QED
    BY <2>1, <2>2, <2>4, PadEventHands
<1>3. CASE \E value \in 0..2 : onGamepadAxis(p, value)
  <2> PICK value \in 0..2 : onGamepadAxis(p, value)
    BY <1>3
  <2>1. UNCHANGED <<isGameActivity, heldKeys, heldFingers, imGuiTouchId, followed>>
    BY DEF onGamepadAxis, WindowEvent
  <2>2. NothingSent \/ SendMotion(PadMotionEvent(p), gamepads')
    BY DEF onGamepadAxis, Ignored, queueGamepadAxisInputIfNeeded
  <2>3. gamepads' = gamepads \/ gamepads' = [gamepads EXCEPT ![p].axis = value]
    BY DEF onGamepadAxis
  <2>4. [gamepads EXCEPT ![p].axis = value] \in [Pads -> GamepadData]
    BY <1>0, PadAxis
  <2>5. gamepads' \in [Pads -> GamepadData]
    BY <1>0, <2>3, <2>4
  <2> QED
    BY <2>1, <2>2, <2>5, PadEventHands
<1> QED
  BY <1>1, <1>2, <1>3

LEMMA HandleEventHands ==
  ASSUME InputInv, InputAssumption, UNCHANGED settings, HandleEvent
  PROVE  HandsQueuesInv'
<1>1. UNCHANGED <<isGameActivity, heldKeys, heldFingers, imGuiTouchId, followed>>
  BY DEF HandleEvent, GameStep, userVars, overlayVars
<1>2. ~isGameActivity
  BY InvFacts DEF Direct, HandleEvent, hasEvents
<1>3. keyEvents \in Seq(KeyInputs) /\ motionEvents \in Seq(MotionInputs)
      /\ gamepads \in [Pads -> GamepadData]
  BY InvFacts DEF QueuesTyped, PadsTyped
<1>4. CASE keyEvents # <<>>
  <2> DEFINE e == Head(keyEvents)
  <2>1. e \in KeyInputs /\ Tail(keyEvents) \in Seq(KeyInputs)
    BY <1>3, <1>4, HeadTailProperties
  <2>2. ToldKey(e) /\ keyEvents' = Tail(keyEvents) /\ UNCHANGED <<motionEvents, gameFingers>>
    BY <1>4 DEF HandleEvent
  <2> HIDE DEF e
  <2>3. /\ gameKeys' \subseteq Keys
        /\ \A k \in Keys :
             /\ e \in KeysOf(k) => (k \in gameKeys' <=> e \in Presses)
             /\ e \notin KeysOf(k) => (k \in gameKeys' <=> k \in gameKeys)
    BY <2>1, <2>2, InvFacts, ToldKeyEffect
  <2>4. QueuesTyped' /\ Direct' /\ HandsTyped' /\ FingersTold'
    BY <1>1, <1>2, <1>3, <2>1, <2>2, <2>3, InvFacts, SettingsKept
       DEF QueuesTyped, Direct, HandsTyped, FingersTold
  <2>5. ASSUME RawInput, ~Overlay, NEW k \in Keys
        PROVE  LastWord(keyEvents', KeysOf(k), Presses, k, gameKeys', heldKeys')
    <3>1. LastWord(keyEvents, KeysOf(k), Presses, k, gameKeys, heldKeys)
      BY <2>5, InvFacts DEF KeysTold
    <3>2. /\ Head(keyEvents) \in KeysOf(k) => (k \in gameKeys' <=> Head(keyEvents) \in Presses)
          /\ Head(keyEvents) \notin KeysOf(k) => (k \in gameKeys' <=> k \in gameKeys)
      BY <2>3 DEF e
    <3>3. LastWord(Tail(keyEvents), KeysOf(k), Presses, k, gameKeys', heldKeys)
      BY <1>3, <1>4, <3>1, <3>2, LastWordRead
    <3> QED
      BY <1>1, <2>2, <3>3
  <2>6. KeysTold'
    BY <2>5, SettingsKept DEF KeysTold
  <2> QED
    BY <2>4, <2>6 DEF HandsQueuesInv, HandsInv
<1>5. CASE keyEvents = <<>>
  <2> DEFINE e == Head(motionEvents)
  <2>0. motionEvents # <<>>
    BY <1>5 DEF HandleEvent, hasEvents
  <2>1. e \in MotionInputs /\ Tail(motionEvents) \in Seq(MotionInputs)
    BY <1>3, <2>0, HeadTailProperties
  <2>2. ToldMotion(e, gamepads) /\ motionEvents' = Tail(motionEvents)
        /\ UNCHANGED <<keyEvents, gameKeys>>
    BY <1>5 DEF HandleEvent
  <2> HIDE DEF e
  <2>3. /\ gameFingers' \subseteq Fingers
        /\ \A f \in Fingers :
             /\ e \in TouchesOf(f) => (f \in gameFingers' <=> e \in Touches)
             /\ e \notin TouchesOf(f) => (f \in gameFingers' <=> f \in gameFingers)
    BY <1>3, <2>1, <2>2, InvFacts, ToldMotionEffect
  <2>4. QueuesTyped' /\ Direct' /\ HandsTyped' /\ KeysTold'
    BY <1>1, <1>2, <1>3, <2>1, <2>2, <2>3, InvFacts, SettingsKept
       DEF QueuesTyped, Direct, HandsTyped, KeysTold
  <2>5. ASSUME RawInput, NEW f \in Fingers \ followed
        PROVE  LastWord(motionEvents', TouchesOf(f), Touches, f, gameFingers', heldFingers')
    <3>1. LastWord(motionEvents, TouchesOf(f), Touches, f, gameFingers, heldFingers)
      BY <2>5, InvFacts DEF FingersTold
    <3>2. /\ Head(motionEvents) \in TouchesOf(f) => (f \in gameFingers' <=> Head(motionEvents) \in Touches)
          /\ Head(motionEvents) \notin TouchesOf(f) => (f \in gameFingers' <=> f \in gameFingers)
      BY <2>3 DEF e
    <3>3. LastWord(Tail(motionEvents), TouchesOf(f), Touches, f, gameFingers', heldFingers)
      BY <1>3, <2>0, <3>1, <3>2, LastWordRead
    <3> QED
      BY <1>1, <2>2, <3>3
  <2>6. FingersTold'
    BY <1>1, <2>5, SettingsKept DEF FingersTold
  <2> QED
    BY <2>4, <2>6 DEF HandsQueuesInv, HandsInv
<1> QED
  BY <1>4, <1>5

LEMMA HandsStep ==
  ASSUME InputInv, InputAssumption, Next
  PROVE  HandsQueuesInv'
<1>0. UNCHANGED settings
  BY DEF Next
<1>1. CASE KeyboardOrTouch
  BY <1>0, <1>1, KeyboardHands, TouchStartHands, TouchUpdateHands, TouchEndHands
     DEF KeyboardOrTouch
<1>2. CASE Gamepad
  BY <1>0, <1>2, GamepadHands
<1>3. CASE HandleEvent
  BY <1>0, <1>3, HandleEventHands
<1>4. CASE Looper \/ attachInputQueue \/ OverlayWants \/ DelayPasses
           \/ \E locked \in BOOLEAN : setCursorLocked(locked)
  <2>1. UNCHANGED <<isGameActivity, keyEvents, motionEvents, imGuiTouchId, followed, heldKeys,
                    heldFingers, gameKeys, gameFingers>>
    BY <1>4 DEF Looper, pollAll, pollAllReturns, attachInputQueue, OverlayWants, DelayPasses,
                setCursorLocked, GameStep, queueVars, overlayVars, userVars, gameVars
  <2> QED
    BY <1>0, <2>1, HandsKept
<1> QED
  BY <1>1, <1>2, <1>3, <1>4 DEF Next, Game

-----------------------------------------------------------------------------
(* Events of gamepads in the queue, when it grows and when it is read.      *)
LEMMA WaitsAppend ==
  ASSUME NEW q \in Seq(MotionInputs), NEW e \in MotionInputs
  PROVE  /\ \A p : Waits(q, p) => Waits(Append(q, e), p)
         /\ Waits(Append(q, e), e.pad)
         /\ e.pad \in Pads => AnyWaits(Append(q, e))
         /\ e.pad \notin Pads => (AnyWaits(Append(q, e)) <=> AnyWaits(q))
         /\ OneWaits(q) /\ (e.pad \notin Pads \/ ~AnyWaits(q)) => OneWaits(Append(q, e))
         /\ AnyWaits(q) => AnyWaits(Append(q, e))
<1> DEFINE r == Append(q, e)
<1>1. /\ Len(q) \in Nat /\ Len(r) = Len(q) + 1 /\ r[Len(q) + 1] = e
      /\ \A i \in 1..Len(q) : r[i] = q[i] /\ i \in 1..Len(r)
  BY AppendProperties, LenProperties
<1>2. \A i \in 1..Len(r) : (i \in 1..Len(q) /\ r[i] = q[i]) \/ (i = Len(r) /\ r[i] = e)
  BY <1>1
<1>3. Len(r) \in 1..Len(r) /\ r[Len(r)] = e
  BY <1>1
<1> HIDE DEF r
<1>4. \A p : Waits(q, p) => Waits(r, p)
  BY <1>1 DEF Waits
<1>5. Waits(r, e.pad)
  BY <1>3 DEF Waits
<1>6. e.pad \in Pads => AnyWaits(r)
  BY <1>3 DEF AnyWaits
<1>7. e.pad \notin Pads => (AnyWaits(r) <=> AnyWaits(q))
  BY <1>1, <1>2 DEF AnyWaits
<1>8. OneWaits(q) /\ (e.pad \notin Pads \/ ~AnyWaits(q)) => OneWaits(r)
  BY <1>1, <1>2 DEF OneWaits, AnyWaits
<1>9. AnyWaits(q) => AnyWaits(r)
  BY <1>1 DEF AnyWaits
<1> QED
  BY <1>4, <1>5, <1>6, <1>7, <1>8, <1>9 DEF r

LEMMA WaitsTail ==
  ASSUME NEW q \in Seq(MotionInputs), q # <<>>
  PROVE  /\ \A p : Waits(q, p) /\ Head(q).pad # p => Waits(Tail(q), p)
         /\ OneWaits(q) => OneWaits(Tail(q))
<1> DEFINE r == Tail(q)
<1>1. /\ Len(q) \in Nat /\ Len(r) = Len(q) - 1 /\ Head(q) = q[1]
      /\ \A i \in 1..Len(r) : r[i] = q[i + 1] /\ i + 1 \in 1..Len(q)
  <2>1. Len(q) \in Nat /\ Len(q) # 0
    BY LenProperties, EmptySeq
  <2>2. Tail(q) \in Seq(MotionInputs) /\ Len(Tail(q)) = Len(q) - 1 /\ Head(q) = q[1]
        /\ \A i \in 1..Len(Tail(q)) : Tail(q)[i] = q[i + 1]
    BY HeadTailProperties, <2>1
  <2> QED
    BY <2>1, <2>2
<1>2. \A j \in 1..Len(q) : j = 1 \/ (j - 1 \in 1..Len(r) /\ r[j - 1] = q[j])
  BY <1>1
<1> HIDE DEF r
<1>3. ASSUME NEW p, Waits(q, p), Head(q).pad # p PROVE Waits(r, p)
  <2>1. PICK j \in 1..Len(q) : q[j].pad = p
    BY <1>3 DEF Waits
  <2>2. j # 1
    BY <1>1, <1>3, <2>1
  <2>3. j - 1 \in 1..Len(r) /\ r[j - 1].pad = p
    BY <1>2, <2>1, <2>2
  <2> QED
    BY <2>3 DEF Waits
<1>4. OneWaits(q) => OneWaits(r)
  <2> SUFFICES ASSUME OneWaits(q), NEW i \in 1..Len(r), NEW j \in 1..Len(r),
                      r[i].pad \in Pads, r[j].pad \in Pads
               PROVE  i = j
    BY DEF OneWaits
  <2>1. i + 1 = j + 1
    BY <1>1 DEF OneWaits
  <2> QED
    BY <1>1, <2>1
<1> QED
  BY <1>3, <1>4 DEF r

LEMMA EmptyWaits ==
  ~AnyWaits(<<>>) /\ OneWaits(<<>>) /\ \A p : ~Waits(<<>>, p)
<1>1. Len(<<>>) = 0
  BY EmptySeq
<1>2. 1..Len(<<>>) = {}
  BY <1>1
<1> QED
  BY <1>2 DEF AnyWaits, OneWaits, Waits

LEMMA OnePadWaits ==
  ASSUME OnePad, NEW q, AnyWaits(q), NEW p \in Pads
  PROVE  Waits(q, p)
  BY DEF OnePad, AnyWaits, Waits

-----------------------------------------------------------------------------
(* Gamepads, step by step.                                                  *)
LEMMA LastWordAgree ==
  ASSUME NEW q, NEW E, NEW D, NEW x, NEW told, NEW goal, NEW told2, NEW goal2,
         x \in told <=> x \in told2, x \in goal <=> x \in goal2,
         LastWord(q, E, D, x, told, goal)
  PROVE  LastWord(q, E, D, x, told2, goal2)
  BY DEF LastWord

LEMMA LastWordSilent ==
  ASSUME NEW q, NEW E, NEW D, NEW x, NEW told, NEW goal,
         \A i \in 1..Len(q) : q[i] \notin E, x \in told <=> x \in goal
  PROVE  LastWord(q, E, D, x, told, goal)
  BY DEF LastWord

LEMMA SameRecord ==
  ASSUME NEW r \in GamepadData, NEW s \in GamepadData,
         r.axis = s.axis, r.dpad = s.dpad, r.button = s.button
  PROVE  r = s
  BY DEF GamepadData

LEMMA InvPads ==
  ASSUME InputInv
  PROVE  /\ PadsTyped /\ Unsent /\ ButtonsTold /\ RawPads /\ Requeue /\ SticksFew /\ SticksTold
         /\ connected \subseteq Pads /\ announced \subseteq Pads
         /\ gamepads \in [Pads -> GamepadData] /\ heldPads \in [Pads -> GamepadData]
         /\ gamePads \in [Pads -> GamepadData]
  BY DEF InputInv, PadsInv, SticksInv, PadsTyped

PadsSticksInv == PadsInv /\ SticksInv

LEMMA PadsKept ==
  ASSUME InputInv, UNCHANGED settings,
         UNCHANGED <<isGameActivity, phase, sendEvents, backlog, needsQueueGamepadInput,
                     connected, announced, gamepads, gamePads, keyEvents, motionEvents>>,
         heldPads' \in [Pads -> GamepadData], RawInput => heldPads' = heldPads
  PROVE  PadsSticksInv'
<1>1. PadsTyped' /\ Unsent' /\ ButtonsTold'
  BY InvPads DEF PadsTyped, Unsent, ButtonsTold
<1>2. RawPads'
  BY InvPads, SettingsKept DEF RawPads
<1>3. Requeue' /\ SticksFew' /\ SticksTold'
  BY InvPads DEF Requeue, SticksFew, SticksTold
<1> QED
  BY <1>1, <1>2, <1>3 DEF PadsSticksInv, PadsInv, SticksInv

LEMMA Accepting ==
  ASSUME ControlInv, WindowEvent
  PROVE  /\ phase = "window" /\ sendEvents /\ sendEvents'
         /\ UNCHANGED <<isGameActivity, phase, sendEvents, backlog>>
  BY DEF ControlInv, Starting, WindowEvent

LEMMA KeyboardPads ==
  ASSUME InputInv, InputAssumption, UNCHANGED settings,
         NEW key \in Keys, NEW down \in BOOLEAN, onKeyboard(key, down)
  PROVE  PadsSticksInv'
<1> DEFINE e == KeyEvent(key, down)
<1>1. e \in KeyInputs /\ e.pad = NoPad
  BY DEF KeyEvent, KeyInputs
<1>2. NothingSent \/ SendKey(e)
  BY DEF onKeyboard, Ignored
<1>3. /\ UNCHANGED <<connected, announced, gamepads, heldPads, needsQueueGamepadInput>>
      /\ WindowEvent
  BY DEF onKeyboard, padVars
<1> HIDE DEF e
<1>4. sendEvents' /\ UNCHANGED <<isGameActivity, phase, sendEvents, backlog>>
  BY <1>3, Accepting, InvFacts
<1>5. CASE NothingSent
  BY <1>3, <1>4, <1>5, InvPads, PadsKept DEF NothingSent, queueVars, gameVars
<1>6. CASE SendKey(e)
  <2>1. /\ UNCHANGED motionEvents /\ gamePads' \in [Pads -> GamepadData]
        /\ \A p \in Pads : Sticks(gamePads'[p]) = Sticks(gamePads[p])
    BY <1>1, <1>6, InvFacts, SendKeyTyped
  <2>2. PadsTyped' /\ Unsent'
    BY <1>3, <1>4, <2>1, InvPads DEF PadsTyped, Unsent
  <2>3. RawPads'
    BY <1>3, InvPads, SettingsKept DEF RawPads
  <2>4. Requeue' /\ SticksFew' /\ SticksTold'
    BY <1>3, <1>4, <2>1, InvPads DEF Requeue, SticksFew, SticksTold
  <2>5. ASSUME NEW p \in connected \cap announced
        PROVE  LastWord(keyEvents', ButtonsOf(p), Presses, p, PressedIn(gamePads'),
                        PressedIn(gamepads))
    <3>1. p \in Pads /\ e \notin ButtonsOf(p)
      BY <1>1, InvPads DEF ButtonsOf, InputAssumption
    <3>2. LastWord(keyEvents, ButtonsOf(p), Presses, p, PressedIn(gamePads), PressedIn(gamepads))
      BY InvPads DEF ButtonsTold
    <3> QED
      BY <1>1, <1>6, <3>1, <3>2, InvFacts, ButtonSent
  <2>6. ButtonsTold'
    BY <1>3, <2>5 DEF ButtonsTold
  <2> QED
    BY <2>2, <2>3, <2>4, <2>6 DEF PadsSticksInv, PadsInv, SticksInv
<1> QED
  BY <1>2, <1>5, <1>6

(* A touch sent leaves the pads alone, and adds an event that is not theirs. *)
LEMMA TouchPads ==
  ASSUME InputInv, InputAssumption, UNCHANGED settings, WindowEvent,
         UNCHANGED <<connected, announced, gamepads, heldPads, needsQueueGamepadInput>>,
         NEW f \in Fingers, NEW action \in {"down", "move", "up"},
         NothingSent \/ SendMotion(TouchEvent(f, action), gamepads)
  PROVE  PadsSticksInv'
<1> DEFINE e == TouchEvent(f, action)
<1>1. e \in MotionInputs /\ e.pad = NoPad
  BY DEF TouchEvent, MotionInputs
<1>2. NothingSent \/ SendMotion(e, gamepads)
  OBVIOUS
<1> HIDE DEF e
<1>3. sendEvents' /\ UNCHANGED <<isGameActivity, phase, sendEvents, backlog>>
  BY Accepting, InvFacts
<1>4. CASE NothingSent
  BY <1>3, <1>4, InvPads, PadsKept DEF NothingSent, queueVars, gameVars
<1>5. CASE SendMotion(e, gamepads)
  <2>0. e.pad \notin Pads
    BY <1>1 DEF InputAssumption
  <2>1. /\ UNCHANGED keyEvents /\ gamePads' \in [Pads -> GamepadData]
        /\ \A p \in Pads : gamePads'[p] = gamePads[p]
        /\ isGameActivity => motionEvents' = motionEvents
        /\ ~isGameActivity => motionEvents' = Append(motionEvents, e)
    BY <1>1, <1>5, <2>0, InvFacts, InvPads, SendMotionTyped
  <2>2. gamePads' = gamePads
    BY <2>1, InvPads
  <2>3. motionEvents \in Seq(MotionInputs)
    BY InvFacts DEF QueuesTyped
  <2>4. /\ \A p : Waits(motionEvents, p) => Waits(motionEvents', p)
        /\ AnyWaits(motionEvents') <=> AnyWaits(motionEvents)
        /\ OneWaits(motionEvents) => OneWaits(motionEvents')
    <3>1. CASE isGameActivity
      BY <2>1, <3>1
    <3>2. CASE ~isGameActivity
      <4>1. motionEvents' = Append(motionEvents, e) /\ e \in MotionInputs
        BY <1>1, <2>1, <3>2
      <4> QED
        BY <2>0, <2>3, <4>1, WaitsAppend
    <3> QED
      BY <3>1, <3>2
  <2>5. PadsTyped' /\ Unsent' /\ ButtonsTold'
    BY <1>3, <2>1, <2>2, InvPads DEF PadsTyped, Unsent, ButtonsTold
  <2>6. RawPads'
    BY InvPads, SettingsKept DEF RawPads
  <2>7. Requeue' /\ SticksFew'
    BY <1>3, <2>4, InvPads DEF Requeue, SticksFew
  <2>8. SticksTold'
    BY <2>2, <2>4, InvPads DEF SticksTold
  <2> QED
    BY <2>5, <2>6, <2>7, <2>8 DEF PadsSticksInv, PadsInv, SticksInv
<1> QED
  BY <1>2, <1>4, <1>5

LEMMA KeyboardOrTouchPads ==
  ASSUME InputInv, InputAssumption, UNCHANGED settings, KeyboardOrTouch
  PROVE  PadsSticksInv'
<1>1. CASE \E key \in Keys, down \in BOOLEAN : onKeyboard(key, down)
  BY <1>1, KeyboardPads
<1>2. CASE \E finger \in Fingers :
             onTouchStart(finger) \/ onTouchUpdate(finger) \/ onTouchEnd(finger)
  <2> PICK finger \in Fingers :
             onTouchStart(finger) \/ onTouchUpdate(finger) \/ onTouchEnd(finger)
    BY <1>2
  <2>1. WindowEvent /\ UNCHANGED <<connected, announced, gamepads, heldPads,
                                   needsQueueGamepadInput>>
    BY DEF onTouchStart, onTouchUpdate, onTouchEnd, padVars, userVars
  <2>2. \E action \in {"down", "move", "up"} :
          NothingSent \/ SendMotion(TouchEvent(finger, action), gamepads)
    BY DEF onTouchStart, onTouchUpdate, onTouchEnd, Ignored
  <2> QED
    BY <2>1, <2>2, TouchPads
<1> QED
  BY <1>1, <1>2 DEF KeyboardOrTouch

(* The axes of p have changed, or its directional buttons: an event for     *)
(* them is sent unless one of this poll waits already.                      *)
LEMMA AxisQueued ==
  ASSUME InputInv, InputAssumption, UNCHANGED settings, WindowEvent, NEW p \in Pads,
         UNCHANGED <<connected, announced>>,
         gamepads' \in [Pads -> GamepadData], heldPads' \in [Pads -> GamepadData],
         \A q \in Pads : q # p => gamepads'[q] = gamepads[q],
         gamepads'[p].button = gamepads[p].button,
         RawInput => \A q \in connected : gamepads'[q] = heldPads'[q],
         queueGamepadAxisInputIfNeeded(p)
  PROVE  PadsSticksInv'
<1> DEFINE e == PadMotionEvent(p)
<1>1. e \in MotionInputs /\ e.pad = p
  BY DEF PadMotionEvent, MotionInputs
<1>2. IF needsQueueGamepadInput \/ isGameActivity
      THEN SendMotion(e, gamepads') /\ needsQueueGamepadInput' = FALSE
      ELSE NothingSent /\ UNCHANGED needsQueueGamepadInput
  BY DEF queueGamepadAxisInputIfNeeded
<1> HIDE DEF e
<1>3. phase = "window" /\ sendEvents' /\ UNCHANGED <<isGameActivity, phase, sendEvents, backlog>>
  BY Accepting, InvFacts
<1>4. Unsent'
  BY <1>3 DEF Unsent
<1>5. RawPads'
  BY InvPads, SettingsKept DEF RawPads
<1>6. motionEvents \in Seq(MotionInputs)
  BY InvFacts DEF QueuesTyped
<1>7. \A q \in Pads : gamepads'[q].button = gamepads[q].button
  OBVIOUS
<1>8. ASSUME UNCHANGED keyEvents, gamePads' \in [Pads -> GamepadData],
             \A q \in Pads : gamePads'[q].button = gamePads[q].button
      PROVE  PadsInv'
  <2>1. PadsTyped'
    BY <1>8, InvPads DEF PadsTyped
  <2>2. ASSUME NEW q \in connected \cap announced
        PROVE  LastWord(keyEvents', ButtonsOf(q), Presses, q, PressedIn(gamePads'),
                        PressedIn(gamepads'))
    <3>1. q \in Pads
      BY InvPads
    <3>2. LastWord(keyEvents, ButtonsOf(q), Presses, q, PressedIn(gamePads), PressedIn(gamepads))
      BY InvPads DEF ButtonsTold
    <3>3. /\ q \in PressedIn(gamePads) <=> q \in PressedIn(gamePads')
          /\ q \in PressedIn(gamepads) <=> q \in PressedIn(gamepads')
      BY <1>7, <1>8, <3>1, PressedAgree
    <3>4. LastWord(keyEvents, ButtonsOf(q), Presses, q, PressedIn(gamePads'), PressedIn(gamepads'))
      BY <3>2, <3>3, LastWordAgree
    <3> QED
      BY <1>8, <3>4
  <2>3. ButtonsTold'
    BY <2>2 DEF ButtonsTold
  <2> QED
    BY <1>4, <1>5, <2>1, <2>3 DEF PadsInv
<1>9. CASE SendMotion(e, gamepads') /\ needsQueueGamepadInput' = FALSE /\ isGameActivity
  <2>1. /\ QueuesTyped' /\ UNCHANGED <<keyEvents, motionEvents>>
        /\ gamePads' \in [Pads -> GamepadData]
        /\ \A q \in Pads : gamePads'[q].button = gamePads[q].button
        /\ \A q \in Pads : q # p => gamePads'[q] = gamePads[q]
        /\ Sticks(gamePads'[p]) = Sticks(gamepads'[p])
    BY <1>1, <1>9, InvFacts, SendMotionTyped
  <2>2. Requeue' /\ SticksFew'
    BY <1>3, <1>9, <2>1, InvPads DEF Requeue, SticksFew
  <2>3. SticksTold'
    BY <2>1, InvPads DEF SticksTold
  <2> QED
    BY <1>8, <2>1, <2>2, <2>3 DEF PadsSticksInv, SticksInv
<1>10. CASE /\ SendMotion(e, gamepads') /\ needsQueueGamepadInput' = FALSE
            /\ ~isGameActivity /\ needsQueueGamepadInput
  <2>1. /\ UNCHANGED keyEvents
        /\ motionEvents' = Append(motionEvents, e) /\ gamePads' = gamePads
    BY <1>1, <1>10, InvFacts, SendMotionTyped
  <2>2. /\ \A q : Waits(motionEvents, q) => Waits(motionEvents', q)
        /\ Waits(motionEvents', p) /\ AnyWaits(motionEvents')
        /\ OneWaits(motionEvents) /\ ~AnyWaits(motionEvents) => OneWaits(motionEvents')
    BY <1>1, <1>6, <2>1, WaitsAppend
  <2>3. Requeue' /\ SticksFew'
    BY <1>3, <1>10, <2>2, InvPads DEF Requeue, SticksFew
  <2>4. SticksTold'
    BY <2>1, <2>2, InvPads DEF SticksTold
  <2>5. PadsInv'
    BY <1>8, <2>1, InvPads
  <2> QED
    BY <2>3, <2>4, <2>5 DEF PadsSticksInv, SticksInv
<1>11. CASE /\ NothingSent /\ UNCHANGED needsQueueGamepadInput
            /\ ~needsQueueGamepadInput /\ ~isGameActivity
  <2>1. UNCHANGED <<keyEvents, motionEvents, gamePads>>
    BY <1>11 DEF NothingSent, queueVars, gameVars
  <2>2. Requeue' /\ SticksFew'
    BY <1>3, <1>11, <2>1, InvPads DEF Requeue, SticksFew
  <2>3. AnyWaits(motionEvents)
    BY <1>11, InvPads DEF Requeue
  <2>4. SticksTold'
    <3>1. OnePad => \A q \in Pads : Waits(motionEvents, q)
      BY <2>3, OnePadWaits
    <3> QED
      BY <2>1, <3>1, InvPads DEF SticksTold
  <2>5. PadsInv'
    BY <1>8, <2>1, InvPads
  <2> QED
    BY <2>2, <2>4, <2>5 DEF PadsSticksInv, SticksInv
<1> QED
  BY <1>2, <1>9, <1>10, <1>11

LEMMA AxisPads ==
  ASSUME InputInv, InputAssumption, UNCHANGED settings, NEW p \in Pads, NEW value \in 0..2,
         onGamepadAxis(p, value)
  PROVE  PadsSticksInv'
<1>0. gamepads \in [Pads -> GamepadData] /\ heldPads \in [Pads -> GamepadData]
  BY InvPads
<1>1. /\ WindowEvent /\ UNCHANGED <<connected, announced>> /\ p \in connected
      /\ heldPads' = [heldPads EXCEPT ![p].axis = value]
  BY DEF onGamepadAxis
<1>2. /\ heldPads' \in [Pads -> GamepadData]
      /\ heldPads'[p].axis = value /\ heldPads'[p].dpad = heldPads[p].dpad
      /\ heldPads'[p].button = heldPads[p].button
      /\ \A q \in Pads : q # p => heldPads'[q] = heldPads[q]
  <2> DEFINE r == [heldPads EXCEPT ![p].axis = value]
  <2>1. /\ r \in [Pads -> GamepadData]
        /\ r[p].axis = value /\ r[p].dpad = heldPads[p].dpad /\ r[p].button = heldPads[p].button
        /\ \A q \in Pads : q # p => r[q] = heldPads[q]
    BY <1>0, PadAxis
  <2> HIDE DEF r
  <2>2. heldPads' = r
    BY <1>1 DEF r
  <2> QED
    BY <2>1, <2>2
<1>3. CASE ~hasInputMode("Gamepad", value = 2)
  <2>1. NothingSent /\ UNCHANGED <<gamepads, needsQueueGamepadInput>>
    BY <1>3 DEF onGamepadAxis, Ignored
  <2>2. ~RawInput
    BY <1>1, <1>3, Accepting, InvFacts DEF hasInputMode
  <2>3. UNCHANGED <<isGameActivity, phase, sendEvents, backlog>>
    BY <1>1, Accepting, InvFacts
  <2> QED
    BY <1>1, <1>2, <2>1, <2>2, <2>3, PadsKept DEF NothingSent, queueVars, gameVars
<1>4. CASE hasInputMode("Gamepad", value = 2)
  <2>1. gamepads' = [gamepads EXCEPT ![p].axis = value] /\ queueGamepadAxisInputIfNeeded(p)
    BY <1>4 DEF onGamepadAxis
  <2>2. /\ gamepads' \in [Pads -> GamepadData]
        /\ gamepads'[p].axis = value /\ gamepads'[p].dpad = gamepads[p].dpad
        /\ gamepads'[p].button = gamepads[p].button
        /\ \A q \in Pads : q # p => gamepads'[q] = gamepads[q]
    <3> DEFINE r == [gamepads EXCEPT ![p].axis = value]
    <3>1. /\ r \in [Pads -> GamepadData]
          /\ r[p].axis = value /\ r[p].dpad = gamepads[p].dpad /\ r[p].button = gamepads[p].button
          /\ \A q \in Pads : q # p => r[q] = gamepads[q]
      BY <1>0, PadAxis
    <3> HIDE DEF r
    <3>2. gamepads' = r
      BY <2>1 DEF r
    <3> QED
      BY <3>1, <3>2
  <2>3. ASSUME RawInput, NEW q \in connected PROVE gamepads'[q] = heldPads'[q]
    <3>1. q \in Pads /\ gamepads[q] = heldPads[q]
      BY <2>3, InvPads DEF RawPads
    <3>2. CASE q # p
      BY <1>2, <2>2, <3>1, <3>2
    <3>3. CASE q = p
      <4>1. gamepads'[p] \in GamepadData /\ heldPads'[p] \in GamepadData
        BY <1>2, <2>2
      <4>2. /\ gamepads'[p].axis = heldPads'[p].axis /\ gamepads'[p].dpad = heldPads'[p].dpad
            /\ gamepads'[p].button = heldPads'[p].button
        BY <1>2, <2>2, <3>1, <3>3
      <4> QED
        BY <3>3, <4>1, <4>2, SameRecord
    <3> QED
      BY <3>2, <3>3
  <2> QED
    BY <1>1, <1>2, <2>1, <2>2, <2>3, AxisQueued
<1> QED
  BY <1>3, <1>4

LEMMA ButtonPads ==
  ASSUME InputInv, InputAssumption, UNCHANGED settings, NEW p \in Pads,
         NEW part \in {"dpad", "button"}, NEW pressed \in BOOLEAN,
         onGamepadButton(p, part, pressed)
  PROVE  PadsSticksInv'
<1>0. gamepads \in [Pads -> GamepadData] /\ heldPads \in [Pads -> GamepadData]
      /\ gamePads \in [Pads -> GamepadData] /\ PadsTyped
  BY InvPads
<1>1. /\ WindowEvent /\ UNCHANGED <<connected, announced>> /\ p \in connected
      /\ heldPads[p][part] # pressed
      /\ heldPads' = [heldPads EXCEPT ![p][part] = pressed]
  BY DEF onGamepadButton
<1>2. /\ heldPads' \in [Pads -> GamepadData]
      /\ heldPads'[p].axis = heldPads[p].axis
      /\ heldPads'[p].dpad = IF part = "dpad" THEN pressed ELSE heldPads[p].dpad
      /\ heldPads'[p].button = IF part = "button" THEN pressed ELSE heldPads[p].button
      /\ \A q \in Pads : q # p => heldPads'[q] = heldPads[q]
  <2>1. heldPads' = [heldPads EXCEPT ![p][part] = pressed]
    BY <1>1
  <2>2. ButtonSet(heldPads', heldPads, p, part, pressed)
    BY <1>0, <2>1, ButtonRecords, Zenon
  <2> QED
    BY <2>2 DEF ButtonSet
<1>3. phase = "window" /\ sendEvents' /\ UNCHANGED <<isGameActivity, phase, sendEvents, backlog>>
  BY <1>1, Accepting, InvFacts
<1>4. CASE ~hasInputMode("Gamepad", TRUE) \/ gamepads[p][part] = pressed
  <2>1. NothingSent /\ UNCHANGED <<gamepads, needsQueueGamepadInput>>
    BY <1>4 DEF onGamepadButton, Ignored, SetButton
  <2>2. ~RawInput
    <3>1. RawInput => hasInputMode("Gamepad", TRUE)
      BY <1>1, RawAccepts, InvFacts
    <3>2. RawInput => gamepads[p] = heldPads[p]
      BY <1>1, InvPads DEF RawPads
    <3> QED
      BY <1>1, <1>4, <3>1, <3>2
  <2> QED
    BY <1>1, <1>2, <1>3, <2>1, <2>2, PadsKept DEF NothingSent, queueVars, gameVars
<1>5. CASE hasInputMode("Gamepad", TRUE) /\ gamepads[p][part] # pressed
  <2>1. gamepads' = [gamepads EXCEPT ![p][part] = pressed]
    BY <1>5 DEF onGamepadButton, SetButton
  <2>2. /\ gamepads' \in [Pads -> GamepadData]
        /\ gamepads'[p].axis = gamepads[p].axis
        /\ gamepads'[p].dpad = IF part = "dpad" THEN pressed ELSE gamepads[p].dpad
        /\ gamepads'[p].button = IF part = "button" THEN pressed ELSE gamepads[p].button
        /\ \A q \in Pads : q # p => gamepads'[q] = gamepads[q]
    <3>1. ButtonSet(gamepads', gamepads, p, part, pressed)
      BY <1>0, <2>1, ButtonRecords, Zenon
    <3> QED
      BY <3>1 DEF ButtonSet
  <2>3. ASSUME RawInput, NEW q \in connected PROVE gamepads'[q] = heldPads'[q]
    <3>1. q \in Pads /\ gamepads[q] = heldPads[q]
      BY <2>3, InvPads DEF RawPads
    <3>2. CASE q # p
      BY <1>2, <2>2, <3>1, <3>2
    <3>3. CASE q = p
      <4>1. gamepads'[p] \in GamepadData /\ heldPads'[p] \in GamepadData
        BY <1>2, <2>2
      <4>2. /\ gamepads'[p].axis = heldPads'[p].axis /\ gamepads'[p].dpad = heldPads'[p].dpad
            /\ gamepads'[p].button = heldPads'[p].button
        BY <1>2, <2>2, <3>1, <3>3
      <4> QED
        BY <3>3, <4>1, <4>2, SameRecord
    <3> QED
      BY <3>2, <3>3
  <2>4. CASE part = "dpad"
    <3>1. queueGamepadAxisInputIfNeeded(p)
      BY <1>5, <2>4 DEF onGamepadButton, SetButton
    <3>2. gamepads'[p].button = gamepads[p].button
      BY <2>2, <2>4
    <3> QED
      BY <1>1, <1>2, <2>2, <2>3, <3>1, <3>2, AxisQueued
  <2>5. CASE part = "button"
    <3> DEFINE e == PadButtonEvent(p, pressed)
    <3>1. e \in KeyInputs /\ e.pad = p /\ e.down = pressed
      BY DEF PadButtonEvent, KeyInputs
    <3>2. SendKey(e) /\ UNCHANGED needsQueueGamepadInput
      BY <1>5, <2>5 DEF onGamepadButton, SetButton
    <3> HIDE DEF e
    <3>3. /\ UNCHANGED motionEvents /\ gamePads' \in [Pads -> GamepadData]
          /\ \A q \in Pads : Sticks(gamePads'[q]) = Sticks(gamePads[q])
      BY <3>1, <3>2, InvFacts, SendKeyTyped
    <3>4. \A q \in Pads : Sticks(gamepads'[q]) = Sticks(gamepads[q])
      BY <2>2, <2>5 DEF Sticks
    <3>5. PadsTyped' /\ Unsent'
      BY <1>1, <1>2, <1>3, <2>2, <3>3, InvPads DEF PadsTyped, Unsent
    <3>6. RawPads'
      BY <1>1, <2>3, SettingsKept DEF RawPads
    <3>7. Requeue' /\ SticksFew' /\ SticksTold'
      BY <1>1, <1>3, <3>2, <3>3, <3>4, InvPads DEF Requeue, SticksFew, SticksTold
    <3>8. ASSUME NEW q \in connected \cap announced
          PROVE  LastWord(keyEvents', ButtonsOf(q), Presses, q, PressedIn(gamePads'),
                          PressedIn(gamepads'))
      <4>1. q \in Pads
        BY InvPads
      <4>2. LastWord(keyEvents, ButtonsOf(q), Presses, q, PressedIn(gamePads), PressedIn(gamepads))
        BY InvPads DEF ButtonsTold
      <4>3. e \in ButtonsOf(q) <=> q = p
        BY <3>1 DEF ButtonsOf
      <4>4. q = p => (e \in Presses <=> q \in PressedIn(gamepads'))
        BY <2>2, <2>5, <3>1 DEF Presses, PressedIn
      <4>5. q # p => (q \in PressedIn(gamepads) <=> q \in PressedIn(gamepads'))
        BY <2>2, <4>1 DEF PressedIn
      <4> QED
        BY <3>1, <3>2, <4>1, <4>2, <4>3, <4>4, <4>5, InvFacts, ButtonSent
    <3>9. ButtonsTold'
      BY <1>1, <3>8 DEF ButtonsTold
    <3> QED
      BY <3>5, <3>6, <3>7, <3>9 DEF PadsSticksInv, PadsInv, SticksInv
  <2> QED
    BY <2>4, <2>5
<1> QED
  BY <1>4, <1>5

LEMMA StatePads ==
  ASSUME InputInv, InputAssumption, UNCHANGED settings, NEW p \in Pads,
         NEW isConnected \in BOOLEAN, onGamepadState(p, isConnected)
  PROVE  PadsSticksInv'
<1>1. /\ UNCHANGED <<isGameActivity, phase, sendEvents, backlog, needsQueueGamepadInput,
                     keyEvents, motionEvents>>
      /\ connected' = Toggle(connected, p, isConnected)
      /\ gamepads' = [gamepads EXCEPT ![p] = Released]
      /\ heldPads' = [heldPads EXCEPT ![p] = Released]
      /\ isConnected => ~QueuedFor(p)
  BY DEF onGamepadState, modeVars, queueVars
<1>2. /\ gamepads' \in [Pads -> GamepadData] /\ heldPads' \in [Pads -> GamepadData]
      /\ gamepads'[p] = Released /\ heldPads'[p] = Released
      /\ \A q \in Pads : q # p => gamepads'[q] = gamepads[q] /\ heldPads'[q] = heldPads[q]
  BY <1>1, InvPads, ReleasedPads
<1>3. /\ connected' \subseteq Pads
      /\ \A q \in Pads : q # p => (q \in connected' <=> q \in connected)
      /\ p \in connected' <=> isConnected = TRUE
  BY <1>1, InvPads DEF Toggle
<1>4. \/ /\ sendEvents /\ isConnected /\ announced' = announced \cup {p}
         /\ gamePads' = [q \in Pads |-> IF q \in {p} THEN Released ELSE gamePads[q]]
      \/ ~(sendEvents /\ isConnected) /\ UNCHANGED <<announced, gamePads>>
  BY DEF onGamepadState, setGameControllerConnected
<1>5. /\ gamePads' \in [Pads -> GamepadData] /\ announced' \subseteq Pads
      /\ \A q \in Pads : q # p => gamePads'[q] = gamePads[q] /\ (q \in announced' <=> q \in announced)
      /\ ~sendEvents => announced' = announced
      /\ sendEvents /\ isConnected => gamePads'[p] = Released
  BY <1>4, InvPads, ReleasedPads
<1>6. PadsTyped'
  BY <1>2, <1>3, <1>5 DEF PadsTyped
<1>7. Unsent'
  BY <1>1, <1>2, <1>5, InvPads DEF Unsent
<1>8. RawPads'
  BY <1>2, <1>3, InvPads, SettingsKept DEF RawPads
<1>9. Requeue' /\ SticksFew'
  BY <1>1, InvPads DEF Requeue, SticksFew
(* A pad that is connected and was announced is p itself only when it is    *)
(* announced now: the game and WindowCallbacks start with it released.      *)
<1>10. ASSUME p \in connected' \cap announced'
       PROVE  sendEvents /\ isConnected /\ gamePads'[p] = gamepads'[p]
  <2>1. isConnected
    BY <1>3, <1>10
  <2>2. sendEvents
    BY <1>5, <1>10, InvPads DEF Unsent
  <2> QED
    BY <1>2, <1>5, <2>1, <2>2
<1>11. SticksTold'
  <2> SUFFICES ASSUME OnePad, NEW q \in connected' \cap announced'
               PROVE  Sticks(gamePads'[q]) = Sticks(gamepads'[q]) \/ Waits(motionEvents', q)
    BY DEF SticksTold, OnePad
  <2>1. CASE q = p
    BY <1>10, <2>1
  <2>2. CASE q # p
    BY <1>1, <1>2, <1>3, <1>5, <2>2, InvPads DEF SticksTold
  <2> QED
    BY <2>1, <2>2
<1>12. ASSUME NEW q \in connected' \cap announced'
       PROVE  LastWord(keyEvents', ButtonsOf(q), Presses, q, PressedIn(gamePads'),
                       PressedIn(gamepads'))
  <2>0. q \in Pads
    BY <1>3
  <2>1. CASE q = p
    <3>1. isConnected /\ gamePads'[p] = gamepads'[p]
      BY <1>10, <2>1
    <3>2. \A i \in 1..Len(keyEvents) : keyEvents[i] \notin ButtonsOf(p)
      BY <1>1, <3>1 DEF QueuedFor, ButtonsOf
    <3>3. p \in PressedIn(gamePads') <=> p \in PressedIn(gamepads')
      BY <3>1, PressedAgree
    <3>4. LastWord(keyEvents, ButtonsOf(p), Presses, p, PressedIn(gamePads'), PressedIn(gamepads'))
      BY <3>2, <3>3, LastWordSilent
    <3> QED
      BY <1>1, <2>1, <3>4
  <2>2. CASE q # p
    <3>1. q \in connected \cap announced
      BY <1>3, <1>5, <2>0, <2>2
    <3>2. LastWord(keyEvents, ButtonsOf(q), Presses, q, PressedIn(gamePads), PressedIn(gamepads))
      BY <3>1, InvPads DEF ButtonsTold
    <3>3. /\ q \in PressedIn(gamePads) <=> q \in PressedIn(gamePads')
          /\ q \in PressedIn(gamepads) <=> q \in PressedIn(gamepads')
      BY <1>2, <1>5, <2>0, <2>2, PressedAgree
    <3>4. LastWord(keyEvents, ButtonsOf(q), Presses, q, PressedIn(gamePads'), PressedIn(gamepads'))
      BY <3>2, <3>3, LastWordAgree
    <3> QED
      BY <1>1, <3>4
  <2> QED
    BY <2>1, <2>2
<1>13. ButtonsTold'
  BY <1>12 DEF ButtonsTold
<1> QED
  BY <1>6, <1>7, <1>8, <1>9, <1>11, <1>13 DEF PadsSticksInv, PadsInv, SticksInv

LEMMA PollPads ==
  ASSUME InputInv, InputAssumption, UNCHANGED settings, pollAll
  PROVE  PadsSticksInv'
<1>1. /\ UNCHANGED <<isGameActivity, connected, gamepads, needsQueueGamepadInput, keyEvents,
                     motionEvents, heldPads>>
      /\ phase = "game" /\ sendEvents' = TRUE
      /\ phase' = IF PollsWindow THEN "window" ELSE "game"
      /\ backlog' = (backlog \/ (PollsWindow /\ hasEvents))
  BY DEF pollAll, startSendEvents, padVars, queueVars, userVars
<1>2. \/ sendEvents /\ UNCHANGED <<announced, gamePads>>
      \/ /\ ~sendEvents /\ announced' = announced \cup connected
         /\ gamePads' = [q \in Pads |-> IF q \in connected THEN Released ELSE gamePads[q]]
  BY DEF pollAll, startSendEvents, setGameControllerConnected
<1>3. PadsTyped'
  BY <1>1, <1>2, InvPads, ReleasedPads DEF PadsTyped
<1>4. Unsent'
  BY <1>1 DEF Unsent
<1>5. RawPads'
  BY <1>1, InvPads, SettingsKept DEF RawPads
<1>6. (backlog' <=> backlog \/ (PollsWindow /\ hasEvents))
  BY <1>1, Zenon
<1>7. SticksFew'
  BY <1>1, <1>6, InvPads DEF SticksFew
<1>8. Requeue'
  <2> SUFFICES ASSUME ~isGameActivity
               PROVE  /\ needsQueueGamepadInput
                      /\ phase' = "window" /\ ~backlog' => ~AnyWaits(motionEvents)
    BY <1>1 DEF Requeue
  <2>1. needsQueueGamepadInput
    BY <1>1, InvPads DEF Requeue
  <2>2. ASSUME phase' = "window", ~backlog' PROVE ~AnyWaits(motionEvents)
    <3>1. motionEvents = <<>>
      BY <1>1, <1>6, <2>2 DEF hasEvents
    <3> QED
      BY <3>1, EmptyWaits
  <2> QED
    BY <2>1, <2>2
<1>9. CASE sendEvents
  <2>1. UNCHANGED <<announced, gamePads>>
    BY <1>2, <1>9
  <2>2. ButtonsTold' /\ SticksTold'
    BY <1>1, <2>1, InvPads DEF ButtonsTold, SticksTold
  <2> QED
    BY <1>3, <1>4, <1>5, <1>7, <1>8, <2>2 DEF PadsSticksInv, PadsInv, SticksInv
<1>10. CASE ~sendEvents
  <2>1. /\ announced' = connected /\ keyEvents = <<>>
        /\ \A q \in connected : q \in Pads /\ gamePads'[q] = gamepads[q]
    BY <1>2, <1>10, InvPads DEF Unsent
  <2>2. ASSUME NEW q \in connected
        PROVE  LastWord(keyEvents', ButtonsOf(q), Presses, q, PressedIn(gamePads'),
                        PressedIn(gamepads'))
    <3>1. q \in PressedIn(gamePads') <=> q \in PressedIn(gamepads')
      BY <1>1, <2>1, PressedAgree
    <3>2. LastWord(<<>>, ButtonsOf(q), Presses, q, PressedIn(gamePads'), PressedIn(gamepads'))
      BY <3>1, LastWordEmpty
    <3> QED
      BY <1>1, <2>1, <3>2
  <2>3. ButtonsTold'
    BY <1>1, <2>1, <2>2 DEF ButtonsTold
  <2>4. SticksTold'
    BY <1>1, <2>1 DEF SticksTold
  <2> QED
    BY <1>3, <1>4, <1>5, <1>7, <1>8, <2>3, <2>4 DEF PadsSticksInv, PadsInv, SticksInv
<1> QED
  BY <1>9, <1>10

LEMMA PollReturnsPads ==
  ASSUME InputInv, UNCHANGED settings, pollAllReturns
  PROVE  PadsSticksInv'
<1>1. /\ UNCHANGED <<isGameActivity, sendEvents, connected, announced, gamepads, heldPads,
                     gamePads, backlog, keyEvents, motionEvents>>
      /\ phase' = "game" /\ needsQueueGamepadInput' = TRUE
  BY DEF pollAllReturns, modeVars, queueVars, userVars, gameVars
<1>2. PadsInv'
  BY <1>1, InvPads, SettingsKept DEF PadsInv, PadsTyped, Unsent, ButtonsTold, RawPads
<1>3. SticksInv'
  BY <1>1, InvPads DEF SticksInv, Requeue, SticksFew, SticksTold
<1> QED
  BY <1>2, <1>3 DEF PadsSticksInv

LEMMA HandleEventPads ==
  ASSUME InputInv, InputAssumption, UNCHANGED settings, HandleEvent
  PROVE  PadsSticksInv'
<1>1. /\ UNCHANGED <<isGameActivity, phase, sendEvents, connected, announced, gamepads, heldPads,
                     needsQueueGamepadInput>>
      /\ phase = "game" /\ hasEvents
      /\ backlog' = (backlog /\ (keyEvents' # <<>> \/ motionEvents' # <<>>))
  BY DEF HandleEvent, GameStep, padVars, userVars
<1>2. ~isGameActivity /\ sendEvents
  BY <1>1, InvFacts, InvPads DEF Direct, Unsent, hasEvents
<1>3. keyEvents \in Seq(KeyInputs) /\ motionEvents \in Seq(MotionInputs)
  BY InvFacts DEF QueuesTyped
<1>4. Unsent'
  BY <1>1, <1>2 DEF Unsent
<1>5. RawPads'
  BY <1>1, InvPads, SettingsKept DEF RawPads
<1>6. Requeue'
  BY <1>1, InvPads DEF Requeue
<1>7. ~backlog' => ~backlog \/ motionEvents' = <<>>
  BY <1>1, Zenon
<1>8. CASE keyEvents # <<>>
  <2> DEFINE e == Head(keyEvents)
  <2>1. e \in KeyInputs
    BY <1>3, <1>8, HeadTailProperties
  <2>2. ToldKey(e) /\ keyEvents' = Tail(keyEvents) /\ UNCHANGED motionEvents
    BY <1>8 DEF HandleEvent
  <2> HIDE DEF e
  <2>3. /\ gamePads' \in [Pads -> GamepadData]
        /\ \A p \in Pads :
             /\ e \in ButtonsOf(p) => (p \in PressedIn(gamePads') <=> e \in Presses)
             /\ e \notin ButtonsOf(p) => (p \in PressedIn(gamePads') <=> p \in PressedIn(gamePads))
             /\ Sticks(gamePads'[p]) = Sticks(gamePads[p])
    BY <2>1, <2>2, InvFacts, ToldKeyEffect
  <2>4. PadsTyped'
    BY <1>1, <2>3, InvPads DEF PadsTyped
  <2>5. SticksFew'
    BY <1>7, <2>2, InvPads, EmptyWaits DEF SticksFew
  <2>6. SticksTold'
    BY <1>1, <2>2, <2>3, InvPads DEF SticksTold
  <2>7. ASSUME NEW p \in connected \cap announced
        PROVE  LastWord(keyEvents', ButtonsOf(p), Presses, p, PressedIn(gamePads'),
                        PressedIn(gamepads))
    <3>1. LastWord(keyEvents, ButtonsOf(p), Presses, p, PressedIn(gamePads), PressedIn(gamepads))
      BY InvPads DEF ButtonsTold
    <3>2. p \in Pads
      BY InvPads
    <3>3. /\ Head(keyEvents) \in ButtonsOf(p) => (p \in PressedIn(gamePads') <=> Head(keyEvents) \in Presses)
          /\ Head(keyEvents) \notin ButtonsOf(p)
               => (p \in PressedIn(gamePads') <=> p \in PressedIn(gamePads))
      BY <2>3, <3>2 DEF e
    <3>4. LastWord(Tail(keyEvents), ButtonsOf(p), Presses, p, PressedIn(gamePads'), PressedIn(gamepads))
      BY <1>3, <1>8, <3>1, <3>3, LastWordRead
    <3> QED
      BY <2>2, <3>4
  <2>8. ButtonsTold'
    BY <1>1, <2>7 DEF ButtonsTold
  <2> QED
    BY <1>4, <1>5, <1>6, <2>4, <2>5, <2>6, <2>8 DEF PadsSticksInv, PadsInv, SticksInv
<1>9. CASE keyEvents = <<>>
  <2> DEFINE e == Head(motionEvents)
  <2>0. motionEvents # <<>>
    BY <1>1, <1>9 DEF hasEvents
  <2>1. e \in MotionInputs
    BY <1>3, <2>0, HeadTailProperties
  <2>2. ToldMotion(e, gamepads) /\ motionEvents' = Tail(motionEvents) /\ UNCHANGED keyEvents
    BY <1>9 DEF HandleEvent
  <2> HIDE DEF e
  <2>3. /\ gamePads' \in [Pads -> GamepadData]
        /\ \A p \in Pads :
              /\ gamePads'[p].button = gamePads[p].button
              /\ e.pad = p => Sticks(gamePads'[p]) = Sticks(gamepads[p])
              /\ e.pad # p => gamePads'[p] = gamePads[p]
    BY <2>1, <2>2, InvFacts, InvPads, ToldMotionEffect
  <2>4. /\ \A p : Waits(motionEvents, p) /\ e.pad # p => Waits(motionEvents', p)
        /\ OneWaits(motionEvents) => OneWaits(motionEvents')
    <3>1. /\ \A p : Waits(motionEvents, p) /\ Head(motionEvents).pad # p => Waits(Tail(motionEvents), p)
          /\ OneWaits(motionEvents) => OneWaits(Tail(motionEvents))
      BY <1>3, <2>0, WaitsTail
    <3> QED
      BY <2>2, <3>1 DEF e
  <2>5. PadsTyped'
    BY <1>1, <2>3, InvPads DEF PadsTyped
  <2>6. SticksFew'
    BY <1>7, <2>4, InvPads, EmptyWaits DEF SticksFew
  <2>7. SticksTold'
    <3> SUFFICES ASSUME OnePad, NEW p \in connected \cap announced
                 PROVE  Sticks(gamePads'[p]) = Sticks(gamepads[p]) \/ Waits(motionEvents', p)
      BY <1>1 DEF SticksTold, OnePad
    <3>1. p \in Pads /\ (Sticks(gamePads[p]) = Sticks(gamepads[p]) \/ Waits(motionEvents, p))
      BY InvPads DEF SticksTold
    <3> QED
      BY <2>3, <2>4, <3>1
  <2>8. ASSUME NEW p \in connected \cap announced
        PROVE  LastWord(keyEvents, ButtonsOf(p), Presses, p, PressedIn(gamePads'),
                        PressedIn(gamepads))
    <3>1. LastWord(keyEvents, ButtonsOf(p), Presses, p, PressedIn(gamePads), PressedIn(gamepads))
      BY InvPads DEF ButtonsTold
    <3>2. p \in Pads
      BY InvPads
    <3>3. p \in PressedIn(gamePads) <=> p \in PressedIn(gamePads')
      BY <2>3, <3>2, PressedAgree
    <3> QED
      BY <3>1, <3>3, LastWordAgree
  <2>9. ButtonsTold'
    BY <1>1, <2>2, <2>8 DEF ButtonsTold
  <2> QED
    BY <1>4, <1>5, <1>6, <2>5, <2>6, <2>7, <2>9 DEF PadsSticksInv, PadsInv, SticksInv
<1> QED
  BY <1>8, <1>9

LEMMA PadsStep ==
  ASSUME InputInv, InputAssumption, Next
  PROVE  PadsSticksInv'
<1>0. UNCHANGED settings
  BY DEF Next
<1>1. CASE KeyboardOrTouch
  BY <1>0, <1>1, KeyboardOrTouchPads
<1>2. CASE Gamepad
  BY <1>0, <1>2, StatePads, ButtonPads, AxisPads DEF Gamepad
<1>3. CASE HandleEvent
  BY <1>0, <1>3, HandleEventPads
<1>4. CASE Looper
  BY <1>0, <1>4, PollPads, PollReturnsPads DEF Looper
<1>5. CASE attachInputQueue \/ OverlayWants \/ DelayPasses
           \/ \E locked \in BOOLEAN : setCursorLocked(locked)
  <2>1. UNCHANGED <<isGameActivity, phase, sendEvents, backlog, needsQueueGamepadInput,
                    connected, announced, gamepads, gamePads, keyEvents, motionEvents, heldPads>>
    BY <1>5 DEF attachInputQueue, OverlayWants, DelayPasses, setCursorLocked, GameStep, queueVars,
                padVars, userVars, gameVars
  <2> QED
    BY <1>0, <2>1, InvPads, PadsKept
<1> QED
  BY <1>1, <1>2, <1>3, <1>4, <1>5 DEF Next, Game

-----------------------------------------------------------------------------
LEMMA InitInput ==
  ASSUME Init, InputAssumption
  PROVE  InputInv
<1>1. settings \in AllSettings
  BY DEF Init, InputAssumption
<1>2. ControlTyped /\ Starting /\ OverlayOff /\ CursorFollowsMode
  BY DEF Init, ControlTyped, Starting, OverlayOff, CursorFollowsMode, Modes
<1>3. batch \in 0..MaxBatch
  BY DEF Init, InputAssumption
<1>4. QueuesTyped /\ Direct
  BY EmptySeq DEF Init, QueuesTyped, Direct
<1>5. HandsTyped
  BY DEF Init, HandsTyped
<1>6. KeysTold /\ FingersTold
  BY LastWordEmpty DEF Init, KeysTold, FingersTold
<1>7. PadsTyped /\ Unsent /\ ButtonsTold /\ RawPads
  BY ReleasedPads DEF Init, PadsTyped, Unsent, ButtonsTold, RawPads
<1>8. Requeue /\ SticksFew /\ SticksTold
  BY EmptyWaits DEF Init, Requeue, SticksFew, SticksTold
<1> QED
  BY <1>2, <1>3, <1>4, <1>5, <1>6, <1>7, <1>8
     DEF InputInv, ControlInv, HandsInv, PadsInv, SticksInv

LEMMA ControlStep ==
  ASSUME ControlInv, InputAssumption, Next
  PROVE  ControlInv'
  BY KeyboardOrTouchControl, GamepadControl, LooperControl, GameControl DEF Next

LEMMA StutterInput ==
  ASSUME InputInv, UNCHANGED vars
  PROVE  InputInv'
<1> USE DEF vars, modeVars, padVars, queueVars, userVars, gameVars, overlayVars
<1>1. ControlInv'
  <2>1. UNCHANGED settings
    OBVIOUS
  <2>2. ControlTyped' /\ batch' \in 0..MaxBatch /\ Starting'
    BY DEF InputInv, ControlInv, ControlTyped, Starting
  <2>3. OverlayOff' /\ CursorFollowsMode'
    BY <2>1, SettingsKept DEF InputInv, ControlInv, OverlayOff, CursorFollowsMode
  <2> QED
    BY <2>2, <2>3 DEF ControlInv
<1>2. HandsQueuesInv'
  BY HandsKept
<1>3. PadsSticksInv'
  BY PadsKept, InvPads
<1> QED
  BY <1>1, <1>2, <1>3 DEF InputInv, HandsQueuesInv, PadsSticksInv

(* The inductive invariant of WindowInput holds: what the queue will tell   *)
(* the game, together with what it was told, is what is held.               *)
THEOREM Invariance == Spec => []InputInv
<1>1. Init => InputInv
  BY InitInput, InputAssumption
<1>2. InputInv /\ [Next]_vars => InputInv'
  <2> SUFFICES ASSUME InputInv, [Next]_vars PROVE InputInv'
    OBVIOUS
  <2>1. CASE Next
    <3>1. ControlInv'
      BY <2>1, ControlStep, InputAssumption DEF InputInv
    <3>2. HandsQueuesInv' /\ PadsSticksInv'
      BY <2>1, HandsStep, PadsStep, InputAssumption
    <3> QED
      BY <3>1, <3>2 DEF InputInv, HandsQueuesInv, PadsSticksInv
  <2>2. CASE UNCHANGED vars
    BY <2>2, StutterInput
  <2> QED
    BY <2>1, <2>2
<1> QED
  BY <1>1, <1>2, PTL DEF Spec

(* Every variable of WindowInput stays in its range.                        *)
THEOREM TypeCorrect == Spec => []TypeOK
<1>1. InputInv => TypeOK
  <2> SUFFICES ASSUME InputInv PROVE TypeOK
    OBVIOUS
  <2>1. KeyInputs \subseteq KeyEvents /\ MotionInputs \subseteq MotionEvents
    BY DEF KeyInputs, KeyEvents, MotionInputs, MotionEvents
  <2>2. keyEvents \in Seq(KeyEvents) /\ motionEvents \in Seq(MotionEvents)
    BY <2>1, SeqMonotonic, InvFacts DEF QueuesTyped
  <2>3. ControlTyped /\ batch \in 0..MaxBatch /\ PadsTyped /\ HandsTyped
    BY DEF InputInv, ControlInv, HandsInv, PadsInv
  <2>4. batch \in 0..MaxBatch
    BY <2>3
  <2> QED
    BY <2>2, <2>3, <2>4 DEF TypeOK, ControlTyped, PadsTyped, HandsTyped
<1> QED
  BY <1>1, Invariance, PTL

(* The window shows the cursor as the mode and the game ask for.            *)
THEOREM CursorRight == Spec => []CursorFollowsMode
<1>1. InputInv => CursorFollowsMode
  BY DEF InputInv, ControlInv
<1> QED
  BY <1>1, Invariance, PTL

-----------------------------------------------------------------------------
(* The largest of some indices, for the last event about a button.          *)
LEMMA MaxIsGreatest ==
  ASSUME NEW n \in Nat, NEW S \in SUBSET (1..n), S # {}
  PROVE  Max(S) \in S /\ \A k \in S : Max(S) >= k
<1> DEFINE Below == {n - i : i \in S}
<1>1. Below \subseteq Nat /\ Below # {}
  OBVIOUS
<1>2. PICK m \in Below : \A k \in Below : ~(<<k, m>> \in OpToRel(<, Nat))
  BY <1>1, NatLessThanWellFounded, WFMin
<1>3. ASSUME NEW k \in Below PROVE m <= k
  <2>1. OpToRel(<, Nat) = {ss \in Nat \X Nat : ss[1] < ss[2]}
    BY Zenon DEF OpToRel
  <2>2. ~(<<k, m>> \in {ss \in Nat \X Nat : ss[1] < ss[2]})
    BY <1>2, <2>1, Zenon
  <2>3. ~(k < m)
    BY <1>1, <2>2
  <2> QED
    BY <1>1, <2>3
<1>4. PICK i \in S : m = n - i
  OBVIOUS
<1>5. \A k \in S : i >= k
  <2> TAKE k \in S
  <2>1. n - k \in Below
    OBVIOUS
  <2>2. m <= n - k
    BY <1>3, <2>1
  <2> QED
    BY <1>4, <2>2
<1> QED
  BY <1>5 DEF Max

(* A pad's button is what was recorded of it, once the queue is read.       *)
THEOREM ButtonsRecorded == Spec => []ButtonsAgree
<1>1. InputInv => ButtonsAgree
  <2> SUFFICES ASSUME InputInv, NEW p \in connected \cap announced
               PROVE  LET queued == {i \in 1..Len(keyEvents) : keyEvents[i].pad = p}
                      IN  gamepads[p].button = IF queued = {} THEN gamePads[p].button
                                                ELSE keyEvents[Max(queued)].down
    BY DEF ButtonsAgree
  <2> DEFINE queued == {i \in 1..Len(keyEvents) : keyEvents[i].pad = p}
  <2>1. LastWord(keyEvents, ButtonsOf(p), Presses, p, PressedIn(gamePads), PressedIn(gamepads))
    BY InvPads DEF ButtonsTold
  <2>2. p \in Pads /\ gamepads \in [Pads -> GamepadData] /\ gamePads \in [Pads -> GamepadData]
    BY InvPads
  <2>3. Len(keyEvents) \in Nat /\ \A i \in 1..Len(keyEvents) : keyEvents[i] \in KeyInputs
    BY InvFacts, LenProperties, ElementOfSeq DEF QueuesTyped
  <2>4. \A i \in 1..Len(keyEvents) : keyEvents[i] \in ButtonsOf(p) <=> i \in queued
    BY <2>3 DEF ButtonsOf
  <2>5. CASE queued = {}
    <3>1. p \in PressedIn(gamePads) <=> p \in PressedIn(gamepads)
      BY <2>1, <2>4, <2>5 DEF LastWord
    <3> QED
      BY <2>2, <2>5, <3>1, PressedSame
  <2>6. CASE queued # {}
    <3> DEFINE l == Max(queued)
    <3>1. l \in queued /\ \A k \in queued : l >= k
      BY <2>3, <2>6, MaxIsGreatest
    <3> HIDE DEF l
    <3>2. l \in 1..Len(keyEvents) /\ keyEvents[l] \in ButtonsOf(p)
      BY <2>4, <3>1
    <3>3. \A j \in 1..Len(keyEvents) : j > l => keyEvents[j] \notin ButtonsOf(p)
      BY <2>3, <2>4, <3>1, <3>2
    <3>4. keyEvents[l] \in Presses <=> p \in PressedIn(gamepads)
      BY <2>1, <3>2, <3>3 DEF LastWord
    <3>5. keyEvents[l].down \in BOOLEAN /\ gamepads[p].button \in BOOLEAN
      BY <2>2, <2>3, <3>2 DEF KeyInputs, GamepadData
    <3>6. keyEvents[l].down = gamepads[p].button
      BY <2>2, <2>3, <3>2, <3>4, <3>5 DEF Presses, PressedIn
    <3> QED
      BY <2>6, <3>6 DEF l
  <2> QED
    BY <2>5, <2>6
<1> QED
  BY <1>1, Invariance, PTL

(* With one gamepad, a position of its sticks the game has not read is      *)
(* waiting for it; and however many there are, one event waits at most.     *)
THEOREM SticksNotLost ==
  ASSUME OnePad
  PROVE  Spec => []SticksFresh
<1>1. InputInv => SticksFresh
  <2> SUFFICES ASSUME InputInv PROVE SticksFresh
    OBVIOUS
  <2> DEFINE Indices == {i \in 1..Len(motionEvents) : motionEvents[i].pad \in Pads}
  <2>1. \A p \in connected \cap announced :
          \/ Sticks(gamePads[p]) = Sticks(gamepads[p])
          \/ \E i \in 1..Len(motionEvents) : motionEvents[i].pad = p
    BY InvPads DEF SticksTold, Waits
  <2>2. ASSUME ~backlog PROVE Cardinality(Indices) <= 1
    <3>1. \A i, j \in Indices : i = j
      BY <2>2, InvPads DEF SticksFew, OneWaits
    <3> HIDE DEF Indices
    <3>2. CASE Indices = {}
      <4>1. Cardinality(Indices) = 0
        BY <3>2, FS_EmptySet
      <4> QED
        BY <4>1
    <3>3. CASE Indices # {}
      <4>1. PICK i \in Indices : TRUE
        BY <3>3
      <4>2. Indices = {i}
        BY <3>1, <4>1
      <4>3. Cardinality({i}) = 1
        BY FS_Singleton
      <4>4. Cardinality(Indices) = 1
        BY <4>2, <4>3, Zenon
      <4> QED
        BY <4>4
    <3> QED
      BY <3>2, <3>3
  <2> QED
    BY <2>1, <2>2 DEF SticksFresh
<1> QED
  BY <1>1, Invariance, PTL

-----------------------------------------------------------------------------
(* What the game believes when it has read its queue.                       *)
LEMMA QueueRead ==
  ASSUME InputInv, RawInput, ~hasEvents
  PROVE  /\ ~Overlay => gameKeys = heldKeys /\ gameFingers = heldFingers
         /\ gameFingers \ followed = heldFingers \ followed
         /\ \A p \in connected \cap announced : gamePads[p].button = heldPads[p].button
<1>1. keyEvents = <<>> /\ motionEvents = <<>>
  BY DEF hasEvents
<1>2. ~Overlay => gameKeys = heldKeys
  <2>1. ~Overlay => \A k \in Keys : k \in gameKeys <=> k \in heldKeys
    BY <1>1, InvFacts, LastWordOfEmpty DEF KeysTold
  <2> QED
    BY <2>1, InvFacts DEF HandsTyped
<1>3. \A f \in Fingers \ followed : f \in gameFingers <=> f \in heldFingers
  BY <1>1, InvFacts, LastWordOfEmpty DEF FingersTold
<1>4. gameFingers \ followed = heldFingers \ followed
  BY <1>3, InvFacts DEF HandsTyped
<1>5. ~Overlay => gameFingers = heldFingers
  BY <1>4, InvFacts DEF OverlayOff
<1>6. ASSUME NEW p \in connected \cap announced PROVE gamePads[p].button = heldPads[p].button
  <2>1. p \in PressedIn(gamePads) <=> p \in PressedIn(gamepads)
    BY <1>1, InvPads, LastWordOfEmpty DEF ButtonsTold
  <2>2. gamePads[p].button = gamepads[p].button
    BY <2>1, InvPads, PressedSame
  <2>3. gamepads[p] = heldPads[p]
    BY InvPads DEF RawPads
  <2> QED
    BY <2>2, <2>3
<1> QED
  BY <1>2, <1>4, <1>5, <1>6

(* With raw input nothing stays pressed in the game: keys, fingers and, for *)
(* one gamepad, its buttons and its sticks.                                 *)
THEOREM AllReleased ==
  ASSUME OnePad
  PROVE  Spec => []NothingStuck
<1>1. InputInv => NothingStuck
  <2> SUFFICES ASSUME InputInv, RawInput, ~hasEvents
               PROVE  /\ ~Overlay => gameKeys = heldKeys /\ gameFingers = heldFingers
                      /\ \A p \in connected \cap announced : gamePads[p] = heldPads[p]
    BY DEF NothingStuck
  <2>1. ASSUME NEW p \in connected \cap announced PROVE gamePads[p] = heldPads[p]
    <3>1. motionEvents = <<>>
      BY DEF hasEvents
    <3>2. Sticks(gamePads[p]) = Sticks(gamepads[p])
      BY <3>1, InvPads, EmptyWaits DEF SticksTold
    <3>3. gamepads[p] = heldPads[p] /\ gamePads[p] \in GamepadData /\ heldPads[p] \in GamepadData
      BY InvPads DEF RawPads
    <3>4. gamePads[p].button = heldPads[p].button
      BY QueueRead
    <3> QED
      BY <3>2, <3>3, <3>4, SameRecord DEF Sticks
  <2> QED
    BY <2>1, QueueRead
<1> QED
  BY <1>1, Invariance, PTL

(* With raw input and any number of gamepads no button, and without the     *)
(* overlay no key and no finger, stays pressed.                             *)
THEOREM ButtonsReleased ==
  Spec => [](RawInput /\ ~hasEvents =>
               /\ ~Overlay => gameKeys = heldKeys /\ gameFingers = heldFingers
               /\ \A p \in connected \cap announced : gamePads[p].button = heldPads[p].button)
<1>1. InputInv => (RawInput /\ ~hasEvents =>
               /\ ~Overlay => gameKeys = heldKeys /\ gameFingers = heldFingers
               /\ \A p \in connected \cap announced : gamePads[p].button = heldPads[p].button)
  BY QueueRead
<1> QED
  BY <1>1, Invariance, PTL

(* With the overlay too, a finger is down for the game exactly while it is  *)
(* down, unless its touch, or its last one, is the overlay's.               *)
THEOREM FingersFollow == Spec => []OtherFingersFollow
<1>1. InputInv => OtherFingersFollow
  BY QueueRead DEF OtherFingersFollow
<1> QED
  BY <1>1, Invariance, PTL

=============================================================================
