------------------------- MODULE TextInputHandler -------------------------
(***************************************************************************)
(* The text field the launcher edits for the game: TextInputHandler keeps  *)
(* a UTF-8 string, the cursor as a byte offset and as a character offset,  *)
(* and the other end of the selection in both units.  The keyboard edits   *)
(* it through WindowCallbacks, the game loads it through MainActivity and  *)
(* TextInputConnection, and two callbacks tell the game what changed.  A   *)
(* GameActivity's game is not told by them: JniSupport's loop compares     *)
(* (TextExchange).                                                         *)
(*                                                                         *)
(* A byte is what the code tells apart: a letter, a separator, the lead    *)
(* byte of a character of 2, 3 or 4 bytes, or a continuation byte.         *)
(* setKeepLastCharOnce has no caller, so keepOnce is FALSE throughout.     *)
(***************************************************************************)
EXTENDS Integers, Sequences, FiniteSets, FiniteSetsExt, SequencesExt

CONSTANTS Characters,    (* what one key press types: sequences of bytes     *)
          Texts,         (* what the game loads                              *)
          MaxLength,     (* bound: no input once the text has this many bytes*)
          SizeMax,       (* size_t arithmetic is modulo SizeMax + 1          *)
          WideAlt        (* is Alt+backspace also pressed on texts with      *)
                         (* characters of more than one byte                 *)

Bytes == {"letter", "separator", "lead2", "lead3", "lead4", "continuation"}

ASSUME TextAssumption ==
  /\ Characters \subseteq Seq(Bytes) /\ Texts \subseteq Seq(Bytes)
  /\ MaxLength \in Nat /\ SizeMax \in Nat /\ SizeMax > 2 * MaxLength + 8
  /\ \A text \in Texts : Len(text) <= SizeMax
  /\ WideAlt \in BOOLEAN

VARIABLES
  enabled, altPressed, shiftPressed,
  currentText,
  position, positionUTF,          (* currentTextPosition(UTF)                *)
  copyPosition, copyPositionUTF,  (* currentTextCopyPosition(UTF)            *)
  ignoreNextHideKeyboard,         (* MainActivity                            *)
  useGameActivityTextInput,       (* JniSupport                              *)
  sentText, sentCaret,            (* what a game the callbacks tell was told,*)
                                  (* or loaded last                          *)
  writer,                         (* who changed the field last              *)
  wildErase                       (* an erase whose range is outside the text*)

positionVars == <<position, positionUTF, copyPosition, copyPositionUTF>>
vars == <<enabled, altPressed, shiftPressed, currentText, positionVars,
          ignoreNextHideKeyboard, useGameActivityTextInput, sentText, sentCaret,
          writer, wildErase>>

NotTold == -1
Wrap(n) == n % (SizeMax + 1)

Init ==
  /\ enabled = FALSE /\ altPressed = FALSE /\ shiftPressed = FALSE
  /\ currentText = <<>>
  /\ position = 0 /\ positionUTF = 0 /\ copyPosition = 0 /\ copyPositionUTF = 0
  /\ ignoreNextHideKeyboard = FALSE /\ useGameActivityTextInput = FALSE
  /\ sentText = <<>> /\ sentCaret = NotTold
  /\ writer = "game" /\ wildErase = FALSE

-----------------------------------------------------------------------------
(* UTF8Util.  Offsets are those of the code, from 0; s[i + 1] is str[i].    *)
getCharByteSize(b) ==
  CASE b = "lead4" -> 4 [] b = "lead3" -> 3 [] b = "lead2" -> 2 [] OTHER -> 1

(* The offsets the walk from lead byte to lead byte visits.                 *)
CharStarts(s) ==
  LET visited[i \in 0..Len(s)] ==
        \/ i = 0
        \/ \E size \in 1..4 : /\ size <= i
                              /\ getCharByteSize(s[i - size + 1]) = size
                              /\ visited[i - size]
  IN {i \in 0..(Len(s) - 1) : visited[i]}

getLength(s, len) == Cardinality({i \in CharStarts(s) : i < len})

getBytePosFromUTF(s, utflen) ==
  LET starts == CharStarts(s)
      last   == CHOOSE i \in starts : Cardinality({j \in starts : j <= i}) = utflen
  IN  IF utflen = 0 THEN 0
      ELSE IF utflen > Cardinality(starts) THEN Cardinality(starts)
      ELSE last + getCharByteSize(s[last + 1])

-----------------------------------------------------------------------------
IsSeparator(i)    == currentText[i + 1] = "separator"      (* strchr(spaces) *)
IsContinuation(i) == currentText[i + 1] = "continuation"
Size == Len(currentText)

(* The callbacks JniSupport installs.  enable_keyboard_autofocus_patches,   *)
(* a setting, keeps text typed into a closed field from the game.           *)
textUpdateCallback(text) ==
  \/ ~useGameActivityTextInput /\ sentText' = text
  \/ useGameActivityTextInput /\ UNCHANGED sentText
  \/ ~enabled /\ UNCHANGED sentText

caretPositionCallback(utf) ==
  sentCaret' = IF useGameActivityTextInput THEN sentCaret ELSE utf

At(p) == [byte |-> p, utf |-> getLength(currentText, p)]

SetPosition(p) == position' = p.byte /\ positionUTF' = p.utf
SetCopyPosition(p) == copyPosition' = p.byte /\ copyPositionUTF' = p.utf

-----------------------------------------------------------------------------
(* The GameActivity's connection gets the text field: startGame.            *)
ConnectTextInput ==
  /\ ~useGameActivityTextInput /\ useGameActivityTextInput' = TRUE
  /\ sentText' = <<>> /\ sentCaret' = NotTold
  /\ UNCHANGED <<enabled, altPressed, shiftPressed, currentText, positionVars,
                 ignoreNextHideKeyboard, writer, wildErase>>

(* The game sets the text or asks for the cursor, and so knows it.          *)
Known(text, utf) ==
  IF useGameActivityTextInput THEN UNCHANGED <<sentText, sentCaret>>
                              ELSE sentText' = text /\ sentCaret' = utf

(* Loading: update moves both ends of the selection behind the new text.    *)
update(text) ==
  /\ currentText' = text
  /\ SetPosition([byte |-> Len(text), utf |-> getLength(text, Len(text))])
  /\ SetCopyPosition([byte |-> Len(text), utf |-> getLength(text, Len(text))])
  /\ Known(text, NotTold)
  /\ writer' = "game"

(* MainActivity::showKeyboard, TextInputConnection::setSoftKeyboardActive.  *)
ShowKeyboard(text) ==
  /\ enabled' = TRUE /\ ignoreNextHideKeyboard' = FALSE
  /\ update(text)
  /\ UNCHANGED <<altPressed, shiftPressed, useGameActivityTextInput, wildErase>>

disable ==
  /\ enabled' = FALSE
  /\ currentText' = <<>>
  /\ position' = 0 /\ positionUTF' = 0 /\ copyPosition' = 0 /\ copyPositionUTF' = 0

HideKeyboard ==
  /\ ignoreNextHideKeyboard' = FALSE
  /\ IF ignoreNextHideKeyboard
     THEN UNCHANGED <<enabled, currentText, positionVars, sentText, sentCaret, writer>>
     ELSE disable /\ Known(<<>>, NotTold) /\ writer' = "game"
  /\ UNCHANGED <<altPressed, shiftPressed, useGameActivityTextInput, wildErase>>

UpdateTextboxText(text) ==
  /\ ignoreNextHideKeyboard' = TRUE
  /\ update(text)
  /\ UNCHANGED <<enabled, altPressed, shiftPressed, useGameActivityTextInput, wildErase>>

GetCursorPosition ==
  /\ ignoreNextHideKeyboard' = FALSE
  /\ Known(sentText, positionUTF)
  /\ UNCHANGED <<enabled, altPressed, shiftPressed, currentText, positionVars,
                 useGameActivityTextInput, writer, wildErase>>

(* setCursorPosition.  The game passes an offset inside its own text.       *)
CursorTarget(text, pos) ==
  IF pos < 0 THEN [byte |-> Len(text), utf |-> getLength(text, Len(text))]
             ELSE [byte |-> getBytePosFromUTF(text, pos), utf |-> pos]

SetCaretPosition(pos) ==
  LET p == CursorTarget(currentText, pos)
  IN  /\ SetPosition(p)
      /\ IF shiftPressed THEN UNCHANGED <<copyPosition, copyPositionUTF>>
                         ELSE SetCopyPosition(p)
      /\ caretPositionCallback(p.utf)
      /\ writer' = "user"
      /\ UNCHANGED <<enabled, altPressed, shiftPressed, currentText,
                     ignoreNextHideKeyboard, useGameActivityTextInput, sentText, wildErase>>

(* TextInputConnection::setState: update, then setCursorPosition.           *)
SetState(text, pos) ==
  LET p == CursorTarget(text, pos)
      end == CursorTarget(text, -1)
  IN  /\ useGameActivityTextInput
      /\ currentText' = text
      /\ SetPosition(p)
      /\ SetCopyPosition(IF shiftPressed THEN end ELSE p)
      /\ UNCHANGED sentText /\ caretPositionCallback(p.utf)
      /\ writer' = "game"
      /\ UNCHANGED <<enabled, altPressed, shiftPressed, ignoreNextHideKeyboard,
                     useGameActivityTextInput, wildErase>>

-----------------------------------------------------------------------------
(* Typing: onTextInput.  The tail every edit shares.                        *)
Edited(text, p) ==
  /\ currentText' = text
  /\ SetPosition(p) /\ SetCopyPosition(p)
  /\ textUpdateCallback(text) /\ caretPositionCallback(p.utf)
  /\ writer' = "user" /\ wildErase' = FALSE

Erase(first, last) ==
  SubSeq(currentText, 1, first) \o SubSeq(currentText, last + 1, Size)

(* A loop that steps back from d until P holds or the text begins.          *)
StepBack(d, P(_)) ==
  IF d = 0 THEN 0 ELSE Max({e \in 0..(d - 1) : e = 0 \/ P(e)})

WordStart(d) ==
  LET notBothSeparators(e) == ~IsSeparator(e - 1) \/ ~IsSeparator(e)
      oneSeparator(e)      == IsSeparator(e - 1) \/ IsSeparator(e)
  IN  StepBack(IF IsSeparator(d) THEN StepBack(d, notBothSeparators) ELSE d, oneSeparator)

CharStart(d) == Max({e \in 0..d : e = 0 \/ ~IsContinuation(e)})

(* Erasing from before the first byte is undefined; nothing is said of what *)
(* comes after.                                                             *)
EraseBeforeText ==
  /\ wildErase' = TRUE
  /\ UNCHANGED <<currentText, positionVars, sentText, sentCaret, writer>>

Backspace ==
  /\ positionUTF > 0
  /\ LET deleteStart == Wrap(position - 1)
     IN IF deleteStart >= Size THEN EraseBeforeText
        ELSE LET word  == WordStart(deleteStart)
                 first == CharStart(IF altPressed THEN word ELSE deleteStart)
             IN  Edited(Erase(first, position),
                        [byte |-> first,
                         utf  |-> IF altPressed THEN word ELSE Wrap(positionUTF - 1)])

CharEndFrom(p) == Min({e \in (p + 1)..Size : e = Size \/ ~IsContinuation(e)})

(* Mutant: only one byte goes.                                              *)
DeleteOneByte ==
  /\ position < Size
  /\ Edited(Erase(position, position + 1), [byte |-> position, utf |-> positionUTF])

Delete ==
  /\ position < Size
  /\ Edited(Erase(position, CharEndFrom(position)), [byte |-> position, utf |-> positionUTF])

(* Mutant: the caret is not reported.                                       *)
InsertUnreported(text) ==
  /\ currentText' =
       SubSeq(currentText, 1, position) \o text \o SubSeq(currentText, position + 1, Size)
  /\ LET p == [byte |-> position + Len(text),
               utf |-> positionUTF + getLength(text, Len(text))]
     IN SetPosition(p) /\ SetCopyPosition(p)
  /\ textUpdateCallback(currentText')
  /\ writer' = "user" /\ UNCHANGED <<sentCaret, wildErase>>

Insert(text) ==
  Edited(SubSeq(currentText, 1, position) \o text \o SubSeq(currentText, position + 1, Size),
         [byte |-> position + Len(text),
          utf |-> positionUTF + getLength(text, Len(text))])

OneByteCharacters == ToSet(currentText) \subseteq {"letter", "separator"}

TextInput ==
  /\ UNCHANGED <<enabled, altPressed, shiftPressed, ignoreNextHideKeyboard,
                 useGameActivityTextInput>>
  /\ \/ /\ ~enabled
        /\ \E text \in Characters : textUpdateCallback(text)
        /\ UNCHANGED <<currentText, positionVars, sentCaret, writer, wildErase>>
     \/ /\ enabled
        /\ \/ (altPressed => WideAlt \/ OneByteCharacters) /\ Backspace
           \/ Delete
           \/ \E text \in Characters : Size + Len(text) <= MaxLength /\ Insert(text)

-----------------------------------------------------------------------------
(* Cursor keys: onKeyPressed.                                               *)
WordRight ==
  LET from == IF IsSeparator(position)
              THEN Min({e \in (position + 1)..Size : e = Size \/ ~IsSeparator(e)})
              ELSE position
  IN  IF from = Size THEN Size
      ELSE Min({e \in (from + 1)..Size : e = Size \/ IsSeparator(e)})

WordLeft ==
  LET notSeparator(e) == ~IsSeparator(e - 1)
      separator(e)    == IsSeparator(e - 1)
  IN  StepBack(IF IsSeparator(position - 1) THEN StepBack(position, notSeparator)
                                            ELSE position,
               separator)

(* Mutant: RIGHT moves by one byte.                                         *)
RightTargetInBytes(alt) ==
  IF alt THEN At(WordRight) ELSE [byte |-> position + 1, utf |-> Wrap(positionUTF + 1)]

RightTarget(alt) ==
  IF alt THEN At(WordRight)
         ELSE [byte |-> CharEndFrom(position), utf |-> Wrap(positionUTF + 1)]

LeftTarget(alt) ==
  IF alt THEN At(WordLeft)
         ELSE [byte |-> CharStart(position - 1), utf |-> Wrap(positionUTF - 1)]

Moved(p) == SetPosition(p) /\ caretPositionCallback(p.utf) /\ writer' = "user"

(* Without Shift, LEFT and RIGHT first collapse a selection to one end.     *)
Collapses(key, shift) ==
  key \in {"LEFT", "RIGHT"} /\ ~shift /\ position # copyPosition

AtEdge(key) ==
  \/ key = "RIGHT" /\ position >= Size
  \/ key = "LEFT" /\ position <= 0

Collapse(key) ==
  LET p == At(IF key = "RIGHT" THEN Max({position, copyPosition})
                               ELSE Min({position, copyPosition}))
  IN  Moved(p) /\ SetCopyPosition(p)

MoveCursor(key, shift, alt) ==
  LET p == CASE key = "RIGHT" -> RightTarget(alt)
             [] key = "LEFT"  -> LeftTarget(alt)
             [] key = "HOME"  -> [byte |-> 0, utf |-> 0]
             [] key = "END"   -> At(Size)
  IN  /\ Moved(p)
      /\ IF shift THEN UNCHANGED <<copyPosition, copyPositionUTF>> ELSE SetCopyPosition(p)

Stay == UNCHANGED <<positionVars, sentCaret, writer>>

KeyPressed(key, pressed, shift, alt) ==
  /\ shiftPressed' = shift /\ altPressed' = alt
  /\ \/ (~pressed \/ key = "OTHER") /\ Stay
     \/ pressed /\ Collapses(key, shift) /\ Collapse(key)
     \/ pressed /\ key # "OTHER" /\ ~Collapses(key, shift)
        /\ IF AtEdge(key) THEN Stay ELSE MoveCursor(key, shift, alt)
  /\ UNCHANGED <<enabled, currentText, ignoreNextHideKeyboard, useGameActivityTextInput,
                 sentText, wildErase>>

-----------------------------------------------------------------------------
Keys == {"LEFT", "RIGHT", "HOME", "END", "OTHER"}

Next ==
  /\ ~wildErase
  /\ \/ \E text \in Texts : ShowKeyboard(text) \/ UpdateTextboxText(text)
     \/ \E text \in Texts : \E pos \in 0..getLength(text, Len(text)) : SetState(text, pos)
     \/ ConnectTextInput \/ HideKeyboard \/ GetCursorPosition
     \/ \E pos \in -1..getLength(currentText, Size) : SetCaretPosition(pos)
     \/ TextInput
     \/ \E key \in Keys, pressed, shift, alt \in BOOLEAN : KeyPressed(key, pressed, shift, alt)

Spec == Init /\ [][Next]_vars
-----------------------------------------------------------------------------
(* Offsets stay offsets: no position ever leaves the text, and neither unit *)
(* wraps around size_t.                                                     *)
TypeOK ==
  /\ enabled \in BOOLEAN /\ altPressed \in BOOLEAN /\ shiftPressed \in BOOLEAN
  /\ ignoreNextHideKeyboard \in BOOLEAN /\ useGameActivityTextInput \in BOOLEAN
  /\ wildErase \in BOOLEAN
  /\ currentText \in Seq(Bytes) /\ sentText \in Seq(Bytes)
  /\ position \in 0..Size /\ copyPosition \in 0..Size
  /\ positionUTF \in 0..Size /\ copyPositionUTF \in 0..Size
  /\ sentCaret \in 0..SizeMax \cup {NotTold}
  /\ writer \in {"game", "user"}

(* The byte offset and the character offset of the cursor, and of the other *)
(* end of the selection, denote the same place, between two characters.     *)
PositionsAgree ==
  /\ position = getBytePosFromUTF(currentText, positionUTF)
  /\ positionUTF = getLength(currentText, position)
  /\ copyPosition = getBytePosFromUTF(currentText, copyPositionUTF)
  /\ copyPositionUTF = getLength(currentText, copyPosition)

(* While the text field of a game told by the callbacks is open, the game's *)
(* copy of the text is the launcher's, and a cursor the game was told is    *)
(* the launcher's cursor: no edit or cursor movement forgets a callback.    *)
GameFollows ==
  enabled /\ ~useGameActivityTextInput =>
    sentText = currentText /\ sentCaret \in {NotTold, positionUTF}

(* "unsigned int!": the code takes care that deleteStart, which is          *)
(* unsigned, does not run past the beginning of the text.                   *)
DeleteStartInText == ~wildErase

(* The promise to the game: a caret between whole characters, edits next to *)
(* it, and a selection that follows.                                        *)
WholeCharacters(s) ==
  \A i \in 1..Len(s) :
    LET next == i + getCharByteSize(s[i])
        lead == s[i] # "continuation"
    IN  /\ lead => /\ next <= Len(s) + 1
                   /\ \A j \in (i + 1)..(next - 1) : s[j] = "continuation"
                   /\ next <= Len(s) => s[next] # "continuation"
        /\ i = 1 => lead

Editor == INSTANCE TextEditor WITH
  Whole <- WholeCharacters, text <- currentText, caret <- position, anchor <- copyPosition

EditorSpec == Editor!Spec
=============================================================================
