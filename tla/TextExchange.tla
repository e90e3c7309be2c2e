---------------------------- MODULE TextExchange ----------------------------
(***************************************************************************)
(* How a game built on GameActivity and the launcher keep one text field   *)
(* in step.  The game hands over a State object (TextInputConnection,      *)
(* main_activity.cpp) on its own thread; the main thread edits the         *)
(* launcher's field while it polls the window, then compares the two,      *)
(* writes the difference into the object and tells the game                *)
(* (JniSupport::startGame, jni_support.cpp).  Neither takes a lock.        *)
(*                                                                         *)
(* What a text says is its length here; the editing itself is in           *)
(* TextInputHandler.  The game is external: it takes over what the event   *)
(* says.                                                                   *)
(***************************************************************************)
EXTENDS Naturals, Sequences

CONSTANTS
  MaxText,        (* bound: length of a text                                 *)
  MaxChanges      (* bound: edits and calls of the game                      *)

Fields == {f \in [text : 0..MaxText, end : 0..MaxText, start : 0..MaxText] :
             f.end <= f.text /\ f.start <= f.text}
Blank == [text |-> 0, end |-> 0, start |-> 0]

VARIABLES
  textInput,      (* the launcher's field: text, cursor, end of selection    *)
  enabled,
  objects,        (* the State objects, and the one con->state is (0: NULL)  *)
  current,
  game,           (* the field as the game has it                            *)
  setting,        (* the game is inside setState                             *)
  loop,           (* [at, state]: the loop, and its copy of con->state       *)
  overlapped,     (* a setState came while an event was under way            *)
  changed         (* edits and calls so far                                  *)

gameVars == <<game, setting>>
vars == <<textInput, enabled, objects, current, gameVars, loop, overlapped, changed>>

Init ==
  /\ textInput = Blank /\ game = Blank /\ enabled = FALSE
  /\ objects = <<>> /\ current = 0
  /\ setting = FALSE /\ overlapped = FALSE
  /\ loop = [at |-> "poll", state |-> 0] /\ changed = 0

Change == changed < MaxChanges /\ changed' = changed + 1
Updated(text) == [text |-> text, end |-> text, start |-> text]

-----------------------------------------------------------------------------
(* The game.  The object is handed over first, the field is updated after.  *)
setState ==
  /\ ~setting /\ Change
  /\ \E f \in Fields : game' = f /\ objects' = Append(objects, f)
  /\ current' = Len(objects')
  /\ setting' = TRUE
  /\ overlapped' = (loop.at = "write" \/ loop.at = "tell")
  /\ UNCHANGED <<textInput, enabled, loop>>

(* The other end of a selection follows the cursor, unless shift is down.   *)
UpdateTextInput ==
  /\ setting /\ setting' = FALSE
  /\ LET f == objects[current]
     IN  \E start \in {f.end, f.text} :
           textInput' = [text |-> f.text, end |-> f.end, start |-> start]
  /\ UNCHANGED <<enabled, objects, current, game, loop, overlapped, changed>>

setSoftKeyboardActive ==
  /\ ~setting /\ Change
  /\ enabled' = ~enabled
  /\ textInput' = Updated(IF enabled \/ current = 0 THEN 0 ELSE objects[current].text)
  /\ UNCHANGED <<objects, current, gameVars, loop, overlapped>>

-----------------------------------------------------------------------------
(* The loop of the main thread.  Keys edit the field while it polls.        *)
Edit ==
  /\ loop.at = "poll" /\ enabled /\ Change
  /\ textInput' \in Fields \ {textInput}
  /\ UNCHANGED <<enabled, objects, current, gameVars, loop, overlapped>>

CompareState ==
  /\ loop.at = "poll" /\ current # 0
  /\ objects[current] # textInput
  /\ loop' = [at |-> "write", state |-> current]
  /\ UNCHANGED <<textInput, enabled, objects, current, gameVars, overlapped, changed>>

(* Mutant: the object is left as the game made it.                          *)
WriteNothing ==
  /\ loop.at = "write" /\ loop' = [loop EXCEPT !.at = "tell"]
  /\ UNCHANGED <<textInput, enabled, objects, current, gameVars, overlapped, changed>>

WriteState ==
  /\ loop.at = "write" /\ loop' = [loop EXCEPT !.at = "tell"]
  /\ objects' = [objects EXCEPT ![loop.state] = textInput]
  /\ UNCHANGED <<textInput, enabled, current, gameVars, overlapped, changed>>

onTextInputEventNative ==
  /\ loop.at = "tell" /\ loop' = [loop EXCEPT !.at = "poll"]
  /\ game' = objects[loop.state]
  /\ overlapped' = (overlapped /\ loop.state # current)
  /\ UNCHANGED <<textInput, enabled, objects, current, setting, changed>>

Loop == CompareState \/ WriteState \/ onTextInputEventNative

Next == setState \/ UpdateTextInput \/ setSoftKeyboardActive \/ Edit \/ Loop

Spec == Init /\ [][Next]_vars

-----------------------------------------------------------------------------
(* The values of the variables.                                             *)
TypeOK ==
  /\ textInput \in Fields /\ game \in Fields /\ enabled \in BOOLEAN
  /\ objects \in Seq(Fields) /\ current = Len(objects)
  /\ setting \in BOOLEAN /\ overlapped \in BOOLEAN
  /\ loop.at \in {"poll", "write", "tell"} /\ loop.state \in 0..current
  /\ changed \in 0..MaxChanges

(* Once neither side changes it, game and launcher end up with the same     *)
(* text, cursor and selection, in whatever order edits, setState and events *)
(* came.  The exception: a setState between the comparison and the event is *)
(* answered with the field as it was before, and nothing tells the game of  *)
(* the difference until the next edit.                                      *)
GameConverges == <>[](current = 0 \/ game = textInput \/ overlapped)
=============================================================================
