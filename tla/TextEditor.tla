----------------------------- MODULE TextEditor -----------------------------
(***************************************************************************)
(* What TextInputHandler promises the game: a text that is never cut       *)
(* inside a character, a caret, and the other end of the selection.  The   *)
(* user edits next to the caret and moves it; the game replaces the text.  *)
(***************************************************************************)
EXTENDS Naturals, Sequences

CONSTANT Whole(_)   (* does a sequence of units consist of whole characters *)

VARIABLES text, caret, anchor,
          writer    (* who changed the field last: the game or the user      *)

vars == <<text, caret, anchor, writer>>

Init == text = <<>> /\ caret = 0 /\ anchor = 0 /\ writer = "game"

Before(t, p) == SubSeq(t, 1, p)
Behind(t, p) == SubSeq(t, p + 1, Len(t))

Between(t, p) == p \in 0..Len(t) /\ Whole(Before(t, p)) /\ Whole(Behind(t, p))

(* The game loads a text; the selection may reach from the caret to its end.*)
Load == writer' = "game" /\ anchor' \in {caret', Len(text')}

(* Something appears left of the caret, or something directly beside it     *)
(* goes; what is farther away stays, and nothing is selected afterwards.    *)
Type       == /\ caret' >= caret
              /\ Before(text', caret) = Before(text, caret)
              /\ Behind(text', caret') = Behind(text, caret)
EraseLeft  == caret' < caret /\ text' = Before(text, caret') \o Behind(text, caret)
EraseRight == /\ caret' = caret
              /\ \E e \in (caret + 1)..Len(text) :
                    text' = Before(text, caret) \o Behind(text, e)

Edit == writer' = "user" /\ (Type \/ EraseLeft \/ EraseRight) /\ anchor' = caret'

(* The caret moves alone, drawing the selection, or takes the anchor along. *)
Move == writer' = "user" /\ anchor' \in {anchor, caret'} /\ UNCHANGED text

Next ==
  /\ Load \/ Edit \/ Move
  /\ Between(text', caret') /\ Between(text', anchor')

Spec == Init /\ [][Next]_vars
=============================================================================
