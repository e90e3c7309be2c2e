---------------------------- MODULE OverlayWindows ----------------------------
(***************************************************************************)
(* The windows mods show in the ImGui overlay (imgui_ui.cpp).  Threads of  *)
(* mods show and close windows by title; ImGuiUIDrawFrame draws them and   *)
(* calls the mods back with the user pointer of the window.  All of it is  *)
(* guarded by activeWindowsLock: the calls wait for it, the frame skips    *)
(* the windows when it is taken.                                           *)
(*                                                                         *)
(* Each show passes another user pointer.  ImGui is external: it decides   *)
(* whether a window is seen, clicked or closed.  A callback that calls     *)
(* back into show or close waits for the lock its own thread holds (the    *)
(* mutex is not recursive): such a frame never ends.                       *)
(***************************************************************************)
EXTENDS Naturals, Sequences, SequencesExt

CONSTANTS
  Mods,        (* threads of mods                                            *)
  Titles,      (* titles of windows                                          *)
  MaxCalls     (* bound: calls of the mods                                   *)

ASSUME WindowsAssumption == MaxCalls \in Nat /\ {"free", "frame"} \cap Mods = {}

VARIABLES
  activeWindows,   (* [title, isModal, modalOpened, user]                    *)
  lock,            (* activeWindowsLock: who holds it                        *)
  call,            (* the call each mod thread is in                         *)
  calls,           (* calls so far, and the last user pointer                *)
  frame,           (* where ImGuiUIDrawFrame is                              *)
  i,               (* the window it draws                                    *)
  calling,         (* the user pointer it calls back                         *)
  retired,         (* pointers whose window was closed or replaced           *)
  drawn            (* pointers whose window was drawn                        *)

modVars   == <<call, calls>>
frameVars == <<frame, i, calling, drawn>>
vars == <<activeWindows, lock, modVars, frameVars, retired>>

Idle == [op |-> "none"]
Users == {activeWindows[k].user : k \in DOMAIN activeWindows}
Find(title) == {k \in DOMAIN activeWindows : activeWindows[k].title = title}

Init ==
  /\ activeWindows = <<>> /\ lock = "free"
  /\ call = [m \in Mods |-> Idle] /\ calls = 0
  /\ frame = "idle" /\ i = 1 /\ calling = 0
  /\ retired = {} /\ drawn = {}

-----------------------------------------------------------------------------
(* Threads of mods.                                                         *)
Call(m, op, title, isModal) ==
  /\ call[m] = Idle /\ calls < MaxCalls
  /\ calls' = calls + 1
  /\ call' = [call EXCEPT ![m] =
       [op |-> op, title |-> title, isModal |-> isModal, user |-> calls + 1]]
  /\ UNCHANGED <<activeWindows, lock, frameVars, retired>>

Lock(m) ==
  /\ call[m] # Idle /\ lock = "free"
  /\ lock' = m
  /\ UNCHANGED <<activeWindows, modVars, frameVars, retired>>

Return(m) ==
  /\ lock = m /\ lock' = "free"
  /\ call' = [call EXCEPT ![m] = Idle]
  /\ UNCHANGED <<calls, frameVars>>

Opened(c) == [title |-> c.title, isModal |-> c.isModal, modalOpened |-> FALSE, user |-> c.user]

(* Mutant: a window that is shown already is shown another time.            *)
ShowWindowAgain(m) ==
  /\ call[m].op = "show" /\ Return(m)
  /\ activeWindows' = Append(activeWindows, Opened(call[m]))
  /\ UNCHANGED retired

(* A window that is shown already gets the new controls; that its modal     *)
(* popup was opened is kept.                                                *)
show_window(m) ==
  /\ call[m].op = "show" /\ Return(m)
  /\ IF Find(call[m].title) = {}
     THEN /\ activeWindows' = Append(activeWindows, Opened(call[m]))
          /\ UNCHANGED retired
     ELSE \E k \in Find(call[m].title) :
            /\ activeWindows' = [activeWindows EXCEPT ![k].isModal = call[m].isModal,
                                                      ![k].user = call[m].user]
            /\ retired' = retired \cup {activeWindows[k].user}

(* onClose is not called.                                                   *)
close_window(m) ==
  /\ call[m].op = "close" /\ Return(m)
  /\ IF Find(call[m].title) = {}
     THEN UNCHANGED <<activeWindows, retired>>
     ELSE \E k \in Find(call[m].title) :
            /\ activeWindows' = RemoveAt(activeWindows, k)
            /\ retired' = retired \cup {activeWindows[k].user}

Mod(m) ==
  \/ \E title \in Titles, isModal \in BOOLEAN : Call(m, "show", title, isModal)
  \/ \E title \in Titles : Call(m, "close", title, FALSE)
  \/ Lock(m) \/ show_window(m) \/ close_window(m)

-----------------------------------------------------------------------------
(* The frame.  A taken lock skips the windows, a step that changes nothing. *)
TryLock ==
  /\ frame = "idle" /\ lock = "free"
  /\ lock' = "frame" /\ frame' = "window" /\ i' = 1
  /\ UNCHANGED <<activeWindows, modVars, calling, retired, drawn>>

WindowsDone ==
  /\ frame = "window" /\ i > Len(activeWindows)
  /\ frame' = "idle" /\ lock' = "free"
  /\ UNCHANGED <<activeWindows, modVars, i, calling, retired, drawn>>

(* Mutant: the last window is left out.                                     *)
BeginWindowButLast ==
  /\ frame = "window" /\ i <= Len(activeWindows)
  /\ activeWindows' = [activeWindows EXCEPT ![i].modalOpened = @ \/ activeWindows[i].isModal]
  /\ drawn' = IF i < Len(activeWindows) THEN drawn \cup {activeWindows[i].user} ELSE drawn
  /\ frame' \in {"controls", "end"}
  /\ UNCHANGED <<lock, modVars, i, calling, retired>>

BeginWindow ==
  /\ frame = "window" /\ i <= Len(activeWindows)
  /\ activeWindows' = [activeWindows EXCEPT ![i].modalOpened = @ \/ activeWindows[i].isModal]
  /\ drawn' = drawn \cup {activeWindows[i].user}
  /\ frame' \in {"controls", "end"}
  /\ UNCHANGED <<lock, modVars, i, calling, retired>>

(* Mutant: the callback runs without the lock.                              *)
ControlChangedUnlocked ==
  /\ frame = "controls"
  /\ frame' = "clicking" /\ calling' = activeWindows[i].user /\ lock' = "free"
  /\ UNCHANGED <<activeWindows, modVars, i, retired, drawn>>

(* A button is clicked, a slider or a text changed: onClick or onChange.    *)
ControlChanged ==
  /\ frame = "controls"
  /\ frame' = "clicking" /\ calling' = activeWindows[i].user
  /\ UNCHANGED <<activeWindows, lock, modVars, i, retired, drawn>>

CallbackReturns ==
  /\ frame = "clicking" /\ frame' = "end"
  /\ UNCHANGED <<activeWindows, lock, modVars, i, calling, retired, drawn>>

NothingChanged ==
  /\ frame = "controls" /\ frame' = "end"
  /\ UNCHANGED <<activeWindows, lock, modVars, i, calling, retired, drawn>>

StaysOpen ==
  /\ frame = "end" /\ frame' = "window" /\ i' = i + 1
  /\ UNCHANGED <<activeWindows, lock, modVars, calling, retired, drawn>>

UserCloses ==
  /\ frame = "end" /\ frame' = "closing" /\ calling' = activeWindows[i].user
  /\ UNCHANGED <<activeWindows, lock, modVars, i, retired, drawn>>

(* Mutant: the window that was closed stays in the list.                    *)
OnCloseReturnsKeeping ==
  /\ frame = "closing" /\ frame' = "window" /\ i' = i + 1
  /\ retired' = retired \cup {calling}
  /\ UNCHANGED <<activeWindows, lock, modVars, calling, drawn>>

(* The window is erased, and the next one is at the same place.             *)
OnCloseReturns ==
  /\ frame = "closing" /\ frame' = "window"
  /\ activeWindows' = RemoveAt(activeWindows, i)
  /\ retired' = retired \cup {calling}
  /\ UNCHANGED <<lock, modVars, i, calling, drawn>>

CallbackReenters ==
  /\ frame \in {"clicking", "closing"} /\ frame' = "waits for itself"
  /\ UNCHANGED <<activeWindows, lock, modVars, i, calling, retired, drawn>>

DrawWindows ==
  \/ TryLock \/ WindowsDone \/ BeginWindow
  \/ ControlChanged \/ CallbackReturns \/ NothingChanged
  \/ StaysOpen \/ UserCloses \/ OnCloseReturns \/ CallbackReenters

Next == (\E m \in Mods : Mod(m)) \/ DrawWindows

Spec == Init /\ [][Next]_vars

-----------------------------------------------------------------------------
(* The values of the variables; the lock is the frame's exactly while it is *)
(* among the windows.                                                       *)
TypeOK ==
  /\ activeWindows \in Seq([title : Titles, isModal : BOOLEAN, modalOpened : BOOLEAN,
                            user : 1..MaxCalls])
  /\ lock \in Mods \cup {"free", "frame"}
  /\ \A m \in Mods : call[m] = Idle \/ call[m].op \in {"show", "close"}
  /\ calls \in 0..MaxCalls /\ i \in 1..(MaxCalls + 1)
  /\ frame \in {"idle", "window", "controls", "clicking", "end", "closing", "waits for itself"}
  /\ (lock = "frame") = (frame # "idle")
  /\ calling \in 0..MaxCalls /\ retired \cup drawn \subseteq 1..MaxCalls

(* A title names at most one window, so close_window closes the one that is *)
(* seen, whoever shows and closes it at the same time.                      *)
TitlesUnique ==
  \A j, k \in DOMAIN activeWindows :
    activeWindows[j].title = activeWindows[k].title => j = k

(* Once close_window has returned, or a show_window that replaced it, or    *)
(* onClose, a user pointer is never called back: the mod may free it.  So   *)
(* onClose comes at most once, and never after close_window.                *)
NoStaleCallback ==
  frame \in {"clicking", "closing", "waits for itself"} => calling \notin retired

(* A window that is shown is drawn, unless it is closed or replaced first,  *)
(* though a frame skips all windows when it finds the lock taken.  Only a   *)
(* callback that waits for the lock of its own thread stops that.           *)
Stopped == frame = "waits for itself"

ShownDrawn == \A u \in 1..MaxCalls : u \in Users ~> u \in drawn \cup retired \/ Stopped
=============================================================================
