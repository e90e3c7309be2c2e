------------------------ MODULE OverlayWindows_proofs ------------------------
(***************************************************************************)
(* A title names one window and no mod is called back with a pointer that  *)
(* was closed or replaced, for any set of mods, titles and number of       *)
(* calls.                                                                  *)
(***************************************************************************)
EXTENDS OverlayWindows, SequenceTheorems, FiniteSetTheorems, TLAPS

USE WindowsAssumption DEF modVars, frameVars

-----------------------------------------------------------------------------
(* The inductive invariant.                                                 *)

Window == [title : Titles, isModal : BOOLEAN, modalOpened : BOOLEAN, user : 1..MaxCalls]
Calls  == [op : {"show", "close"}, title : Titles, isModal : BOOLEAN, user : 1..MaxCalls]

(* TypeOK, with the whole of a call.                                        *)
Typed ==
  /\ activeWindows \in Seq(Window)
  /\ lock \in Mods \cup {"free", "frame"}
  /\ call \in [Mods -> Calls \cup {Idle}]
  /\ calls \in 0..MaxCalls /\ i \in 1..(MaxCalls + 1)
  /\ frame \in {"idle", "window", "controls", "clicking", "end", "closing", "waits for itself"}
  /\ calling \in 0..MaxCalls /\ retired \subseteq 1..MaxCalls /\ drawn \subseteq 1..MaxCalls

(* The frame draws a window of the list, and holds the lock meanwhile: the  *)
(* pointer it calls back is that of the window.                             *)
Drawing ==
  /\ lock = "frame" <=> frame # "idle"
  /\ frame \in {"controls", "clicking", "end", "closing", "waits for itself"} =>
       i \in 1..Len(activeWindows)
  /\ frame \in {"clicking", "closing", "waits for itself"} => calling = activeWindows[i].user

(* Every pointer was passed by one call; it is the pointer of at most one   *)
(* window, and of none once it is retired or before its call is done.       *)
UsersOnce ==
  \A j, k \in 1..Len(activeWindows) : activeWindows[j].user = activeWindows[k].user => j = k

Issued(u) == u \in 1..calls

UsersLive ==
  /\ \A k \in 1..Len(activeWindows) :
       Issued(activeWindows[k].user) /\ activeWindows[k].user \notin retired
  /\ \A u \in retired : Issued(u)

Pending(m, u) == call[m] # Idle /\ call[m].user = u

PendingFresh ==
  \A m \in Mods : call[m] # Idle =>
    /\ Issued(call[m].user) /\ call[m].user \notin retired
    /\ \A k \in 1..Len(activeWindows) : activeWindows[k].user # call[m].user
    /\ \A n \in Mods : Pending(n, call[m].user) => n = m

WindowsInv == Typed /\ Drawing /\ TitlesUnique /\ UsersOnce /\ UsersLive /\ PendingFresh

-----------------------------------------------------------------------------
(* Sequences: one element removed.                                          *)
LEMMA RemoveAtProperties ==
  ASSUME NEW S, NEW s \in Seq(S), NEW k \in 1..Len(s)
  PROVE  /\ RemoveAt(s, k) \in Seq(S)
         /\ Len(RemoveAt(s, k)) = Len(s) - 1
         /\ \A j \in 1..(Len(s) - 1) : RemoveAt(s, k)[j] = IF j < k THEN s[j] ELSE s[j + 1]
<1> DEFINE front == SubSeq(s, 1, k - 1)
           rest  == SubSeq(s, k + 1, Len(s))
<1>1. /\ front \in Seq(S) /\ Len(front) = k - 1
      /\ \A j \in 1..(k - 1) : front[j] = s[j]
  OBVIOUS
<1>2. /\ rest \in Seq(S) /\ Len(rest) = Len(s) - k
      /\ \A j \in 1..(Len(s) - k) : rest[j] = s[k + j]
  OBVIOUS
<1>3. RemoveAt(s, k) = front \o rest
  BY DEF RemoveAt
<1> HIDE DEF front, rest
<1>4. /\ front \o rest \in Seq(S) /\ Len(front \o rest) = Len(s) - 1
      /\ \A j \in 1..(Len(s) - 1) :
           (front \o rest)[j] = IF j <= k - 1 THEN front[j] ELSE rest[j - (k - 1)]
  <2>1. Len(front) + Len(rest) = Len(s) - 1
    BY <1>1, <1>2
  <2>2. /\ front \o rest \in Seq(S) /\ Len(front \o rest) = Len(front) + Len(rest)
        /\ \A j \in 1..(Len(front) + Len(rest)) :
             (front \o rest)[j] = IF j <= Len(front) THEN front[j] ELSE rest[j - Len(front)]
    BY <1>1, <1>2, ConcatProperties
  <2> QED
    BY <1>1, <2>1, <2>2
<1>5. \A j \in 1..(Len(s) - 1) :
        (front \o rest)[j] = IF j < k THEN s[j] ELSE s[j + 1]
  <2> TAKE j \in 1..(Len(s) - 1)
  <2>1. CASE j < k
    BY <1>1, <1>4, <2>1
  <2>2. CASE j >= k
    <3>1. j - (k - 1) \in 1..(Len(s) - k) /\ k + (j - (k - 1)) = j + 1
      BY <2>2
    <3>2. rest[j - (k - 1)] = s[j + 1]
      BY <1>2, <3>1
    <3>3. ~(j <= k - 1) /\ ~(j < k)
      BY <2>2
    <3>4. (front \o rest)[j] = rest[j - (k - 1)]
      BY <1>4, <3>3, Zenon
    <3> QED
      BY <3>2, <3>3, <3>4, Zenon
  <2>3. j < k \/ j >= k
    OBVIOUS
  <2> QED
    BY <2>1, <2>2, <2>3, Zenon
<1> QED
  BY <1>3, <1>4, <1>5

(* A sequence without repetition is not longer than its range allows.       *)
LEMMA DistinctLength ==
  ASSUME NEW s, NEW n \in Nat, NEW c \in Nat,
         \A k \in 1..n : s[k] \in 1..c,
         \A j, k \in 1..n : s[j] = s[k] => j = k
  PROVE  n <= c
<1> DEFINE f == [k \in 1..n |-> s[k]]
<1>1. f \in Injection(1..n, 1..c)
  BY DEF Injection, IsInjective
<1>2. IsFiniteSet(1..n) /\ Cardinality(1..n) = n /\ IsFiniteSet(1..c) /\ Cardinality(1..c) = c
  BY FS_Interval
<1> QED
  BY <1>1, <1>2, FS_Injection

-----------------------------------------------------------------------------
(* The initial state satisfies the invariant.                               *)
LEMMA InitInv == Init => WindowsInv
<1> SUFFICES ASSUME Init PROVE WindowsInv
  OBVIOUS
<1> USE DEF Init
<1>1. Typed
  BY DEF Typed
<1>2. Drawing /\ TitlesUnique /\ UsersOnce /\ UsersLive /\ PendingFresh
  BY DEF Drawing, TitlesUnique, UsersOnce, UsersLive, PendingFresh
<1> QED
  BY <1>1, <1>2 DEF WindowsInv

(* A call passes a pointer no window, no other call and no retired one has. *)
LEMMA CallStep ==
  ASSUME WindowsInv, NEW m \in Mods, NEW op \in {"show", "close"}, NEW title \in Titles,
         NEW isModal \in BOOLEAN, Call(m, op, title, isModal)
  PROVE  WindowsInv'
<1> DEFINE new == [op |-> op, title |-> title, isModal |-> isModal, user |-> calls + 1]
<1>0. calls \in Nat /\ calls + 1 \in 1..MaxCalls
  <2>1. calls \in 0..MaxCalls /\ calls < MaxCalls /\ MaxCalls \in Nat
    BY DEF Call, WindowsInv, Typed
  <2> QED
    BY ONLY <2>1
<1>1. /\ calls' = calls + 1 /\ calls \in Nat /\ calls + 1 \in 1..MaxCalls
      /\ call' = [call EXCEPT ![m] = new] /\ call[m] = Idle
      /\ UNCHANGED <<activeWindows, lock, frame, i, calling, drawn, retired>>
  BY <1>0 DEF Call
<1>2. new \in Calls /\ new.user = calls + 1
  BY <1>1 DEF Calls
<1> HIDE DEF new
<1>3. call' \in [Mods -> Calls \cup {Idle}] /\ call'[m] = new
      /\ \A n \in Mods : n # m => call'[n] = call[n]
  BY <1>1, <1>2 DEF WindowsInv, Typed
<1>4. Typed'
  <2>1. calls' \in 0..MaxCalls
    BY <1>1
  <2> QED
    BY <1>1, <1>3, <2>1 DEF WindowsInv, Typed
<1>5. Drawing' /\ TitlesUnique' /\ UsersOnce'
  BY <1>1 DEF WindowsInv, Drawing, TitlesUnique, UsersOnce
<1>6. UsersLive'
  BY <1>1 DEF WindowsInv, UsersLive, Issued
<1>7. PendingFresh'
  <2> SUFFICES ASSUME NEW n \in Mods, call'[n] # Idle
               PROVE  /\ Issued(call[n].user)' /\ call'[n].user \notin retired
                      /\ \A k \in 1..Len(activeWindows) : activeWindows[k].user # call'[n].user
                      /\ \A o \in Mods : Pending(o, call[n].user)' => o = n
    BY <1>1 DEF PendingFresh
  <2>1. CASE n = m
    <3>1. call'[n].user = calls + 1
      BY <1>2, <1>3, <2>1
    <3>2. \A o \in Mods : o # m => ~(call'[o] # Idle /\ call'[o].user = calls + 1)
      BY <1>1, <1>3 DEF WindowsInv, PendingFresh, Issued
    <3> QED
      BY <1>1, <2>1, <3>1, <3>2 DEF WindowsInv, UsersLive, Issued, Pending
  <2>2. CASE n # m
    <3>1. call'[n] = call[n] /\ call[n] # Idle /\ call[n].user \in 1..calls
      BY <1>3, <2>2 DEF WindowsInv, PendingFresh, Issued
    <3>2. call'[m].user # call[n].user
      BY <1>1, <1>2, <1>3, <3>1
    <3> QED
      BY <1>1, <1>3, <3>1, <3>2 DEF WindowsInv, PendingFresh, Issued, Pending
  <2> QED
    BY <2>1, <2>2
<1> QED
  BY <1>4, <1>5, <1>6, <1>7 DEF WindowsInv

(* A mod takes the lock only when the frame is not among the windows.       *)
LEMMA LockStep ==
  ASSUME WindowsInv, NEW m \in Mods, Lock(m)
  PROVE  WindowsInv'
<1>1. /\ lock = "free" /\ lock' = m /\ lock' # "frame"
      /\ UNCHANGED <<activeWindows, call, calls, frame, i, calling, drawn, retired>>
  BY DEF Lock
<1>2. Typed' /\ Drawing'
  BY <1>1 DEF WindowsInv, Typed, Drawing
<1>3. TitlesUnique' /\ UsersOnce' /\ UsersLive'
  BY <1>1 DEF WindowsInv, TitlesUnique, UsersOnce, UsersLive, Issued
<1>4. PendingFresh'
  BY <1>1 DEF WindowsInv, PendingFresh, Issued, Pending
<1> QED
  BY <1>2, <1>3, <1>4 DEF WindowsInv

(* What show_window and close_window have in common.                        *)
LEMMA ReturnStep ==
  ASSUME WindowsInv, NEW m \in Mods, Return(m), call[m] # Idle
  PROVE  /\ frame = "idle" /\ lock' = "free" /\ call[m] \in Calls
         /\ call' \in [Mods -> Calls \cup {Idle}] /\ call'[m] = Idle
         /\ \A n \in Mods : n # m => call'[n] = call[n]
         /\ UNCHANGED <<calls, frame, i, calling, drawn>>
<1>1. lock = m /\ lock # "frame" /\ frame = "idle"
  BY DEF Return, WindowsInv, Drawing
<1>2. call' = [call EXCEPT ![m] = Idle] /\ call \in [Mods -> Calls \cup {Idle}]
  BY DEF Return, WindowsInv, Typed
<1> QED
  BY <1>1, <1>2 DEF Return

(* A new window is shown, with a pointer that no other window has.          *)
LEMMA AppendStep ==
  ASSUME WindowsInv, NEW m \in Mods, show_window(m), Find(call[m].title) = {}
  PROVE  WindowsInv'
<1> DEFINE w == Opened(call[m])
           n == Len(activeWindows)
<1>1. Return(m) /\ call[m] # Idle /\ activeWindows' = Append(activeWindows, w) /\ retired' = retired
  BY DEF show_window, Idle
<1>2. /\ frame = "idle" /\ lock' = "free" /\ call[m] \in Calls
      /\ call' \in [Mods -> Calls \cup {Idle}] /\ call'[m] = Idle
      /\ \A o \in Mods : o # m => call'[o] = call[o]
      /\ UNCHANGED <<calls, frame, i, calling, drawn>>
  BY <1>1, ReturnStep
<1>3. w \in Window /\ w.title = call[m].title /\ w.user = call[m].user
  BY <1>2 DEF Window, Calls, Opened
<1> HIDE DEF w
<1>4. activeWindows \in Seq(Window) /\ n \in Nat
  <2>1. activeWindows \in Seq(Window)
    BY DEF WindowsInv, Typed
  <2> QED
    BY <2>1, LenProperties
<1>5. /\ activeWindows' \in Seq(Window) /\ Len(activeWindows') = n + 1
      /\ activeWindows'[n + 1] = w
      /\ \A k \in 1..n : activeWindows'[k] = activeWindows[k]
  BY <1>1, <1>3, <1>4, AppendProperties
<1> HIDE DEF n
<1>6. Typed'
  BY <1>1, <1>2, <1>5 DEF WindowsInv, Typed
<1>7. Drawing'
  BY <1>2 DEF Drawing
<1>8. \A k \in 1..n : activeWindows[k].title # w.title /\ activeWindows[k].user # w.user
  BY <1>1, <1>3, <1>4 DEF Find, WindowsInv, PendingFresh, n
<1>9. DOMAIN activeWindows = 1..n /\ DOMAIN activeWindows' = 1..(n + 1) /\ Len(activeWindows) = n
  BY <1>4, <1>5 DEF n
<1>10. \A k \in 1..(n + 1) : k \in 1..n \/ k = n + 1
  BY <1>4
<1>11. TitlesUnique' /\ UsersOnce'
  BY <1>5, <1>8, <1>9, <1>10 DEF WindowsInv, TitlesUnique, UsersOnce
<1>12. UsersLive'
  BY <1>1, <1>2, <1>3, <1>5, <1>9, <1>10 DEF WindowsInv, UsersLive, PendingFresh, Issued
<1>13. PendingFresh'
  <2> SUFFICES ASSUME NEW o \in Mods, call'[o] # Idle
               PROVE  /\ Issued(call[o].user)' /\ call'[o].user \notin retired'
                      /\ \A k \in 1..(n + 1) : activeWindows'[k].user # call'[o].user
                      /\ \A p \in Mods : Pending(p, call[o].user)' => p = o
    BY <1>5 DEF PendingFresh
  <2>1. o # m /\ call'[o] = call[o] /\ call[o] # Idle /\ call[o].user # call[m].user
    BY <1>1, <1>2 DEF WindowsInv, PendingFresh, Pending
  <2>2. \A k \in 1..(n + 1) : activeWindows'[k].user # call'[o].user
    BY <1>3, <1>5, <1>9, <1>10, <2>1 DEF WindowsInv, PendingFresh
  <2> QED
    BY <1>1, <1>2, <2>1, <2>2 DEF WindowsInv, PendingFresh, Issued, Pending
<1> QED
  BY <1>6, <1>7, <1>11, <1>12, <1>13 DEF WindowsInv

(* A window gets the pointer of the call; its own is retired.               *)
LEMMA ReplaceStep ==
  ASSUME WindowsInv, NEW m \in Mods, show_window(m), Find(call[m].title) # {}
  PROVE  WindowsInv'
<1> DEFINE n == Len(activeWindows)
<1>1. Return(m) /\ call[m] # Idle
  BY DEF show_window, Idle
<1>2. /\ frame = "idle" /\ lock' = "free" /\ call[m] \in Calls
      /\ call' \in [Mods -> Calls \cup {Idle}] /\ call'[m] = Idle
      /\ \A o \in Mods : o # m => call'[o] = call[o]
      /\ UNCHANGED <<calls, frame, i, calling, drawn>>
  BY <1>1, ReturnStep
<1>3. PICK k \in Find(call[m].title) :
        /\ activeWindows' = [activeWindows EXCEPT ![k].isModal = call[m].isModal,
                                                  ![k].user = call[m].user]
        /\ retired' = retired \cup {activeWindows[k].user}
  BY DEF show_window
<1>4. activeWindows \in Seq(Window) /\ n \in Nat /\ DOMAIN activeWindows = 1..n /\ k \in 1..n
  <2>1. activeWindows \in Seq(Window)
    BY DEF WindowsInv, Typed
  <2>2. k \in DOMAIN activeWindows
    BY DEF Find
  <2> QED
    BY <2>1, <2>2, LenProperties
<1>5. /\ activeWindows' \in Seq(Window) /\ Len(activeWindows') = n /\ DOMAIN activeWindows' = 1..n
      /\ activeWindows'[k].title = activeWindows[k].title
      /\ activeWindows'[k].user = call[m].user
      /\ \A j \in 1..n : j # k => activeWindows'[j] = activeWindows[j]
  <2> DEFINE w == [activeWindows[k] EXCEPT !.isModal = call[m].isModal, !.user = call[m].user]
  <2>1. activeWindows[k] \in Window
    BY <1>4
  <2>2. /\ w \in Window /\ w.title = activeWindows[k].title /\ w.user = call[m].user
    BY <1>2, <2>1 DEF Window, Calls
  <2>3. activeWindows' = [activeWindows EXCEPT ![k] = w]
    BY <1>3, <1>4, <2>1 DEF Window
  <2> HIDE DEF w
  <2> QED
    BY <1>4, <2>2, <2>3
<1>6. activeWindows[k].user \in 1..MaxCalls
  <2>1. activeWindows[k] \in Window
    BY <1>4
  <2> QED
    BY <2>1 DEF Window
<1> HIDE DEF n
<1>7. Typed'
  BY <1>2, <1>3, <1>5, <1>6 DEF WindowsInv, Typed
<1>8. Drawing'
  BY <1>2 DEF Drawing
<1>9. \A j \in 1..n : activeWindows[j].user # call[m].user
  BY <1>1, <1>4 DEF WindowsInv, PendingFresh, n
<1>10. TitlesUnique' /\ UsersOnce'
  BY <1>4, <1>5, <1>9 DEF WindowsInv, TitlesUnique, UsersOnce, n
<1>11. UsersLive'
  BY <1>1, <1>2, <1>3, <1>4, <1>5, <1>9 DEF WindowsInv, UsersLive, UsersOnce, PendingFresh, Issued, n
<1>12. PendingFresh'
  <2> SUFFICES ASSUME NEW o \in Mods, call'[o] # Idle
               PROVE  /\ Issued(call[o].user)' /\ call'[o].user \notin retired'
                      /\ \A j \in 1..n : activeWindows'[j].user # call'[o].user
                      /\ \A p \in Mods : Pending(p, call[o].user)' => p = o
    BY <1>5 DEF PendingFresh
  <2>1. o # m /\ call'[o] = call[o] /\ call[o] # Idle /\ call[o].user # call[m].user
    BY <1>1, <1>2 DEF WindowsInv, PendingFresh, Pending
  <2>2. /\ \A j \in 1..n : activeWindows'[j].user # call'[o].user
        /\ activeWindows[k].user # call'[o].user
    BY <1>4, <1>5, <2>1 DEF WindowsInv, PendingFresh, n
  <2> QED
    BY <1>2, <1>3, <2>1, <2>2 DEF WindowsInv, PendingFresh, Issued, Pending
<1> QED
  BY <1>7, <1>8, <1>10, <1>11, <1>12 DEF WindowsInv

(* A window leaves the list and its pointer is retired; a call may return.  *)
LEMMA RemovalKeeps ==
  ASSUME WindowsInv, NEW k \in 1..Len(activeWindows),
         activeWindows' = RemoveAt(activeWindows, k),
         retired' = retired \cup {activeWindows[k].user}, calls' = calls,
         \A o \in Mods : call'[o] = call[o] \/ call'[o] = Idle
  PROVE  /\ activeWindows' \in Seq(Window) /\ retired' \subseteq 1..MaxCalls
         /\ TitlesUnique' /\ UsersOnce' /\ UsersLive' /\ PendingFresh'
<1> DEFINE n == Len(activeWindows)
           from(j) == IF j < k THEN j ELSE j + 1
<1>1. activeWindows \in Seq(Window) /\ n \in Nat /\ DOMAIN activeWindows = 1..n
  <2>1. activeWindows \in Seq(Window)
    BY DEF WindowsInv, Typed
  <2> QED
    BY <2>1, LenProperties
<1>2. /\ activeWindows' \in Seq(Window) /\ Len(activeWindows') = n - 1
      /\ \A j \in 1..(n - 1) : activeWindows'[j] = IF j < k THEN activeWindows[j] ELSE activeWindows[j + 1]
  BY <1>1, RemoveAtProperties
<1>3. DOMAIN activeWindows' = 1..(n - 1)
  BY <1>2, LenProperties
<1>4. \A j \in 1..(n - 1) : /\ from(j) \in 1..n /\ from(j) # k
                            /\ activeWindows'[j] = activeWindows[from(j)]
  BY <1>1, <1>2
<1>5. \A j, l \in 1..(n - 1) : from(j) = from(l) => j = l
  BY <1>1
<1>6. activeWindows[k].user \in 1..MaxCalls
  <2>1. activeWindows[k] \in Window
    BY <1>1
  <2> QED
    BY <2>1 DEF Window
<1> HIDE DEF from
<1>7. TitlesUnique'
  BY <1>1, <1>3, <1>4, <1>5 DEF WindowsInv, TitlesUnique
<1>8. UsersOnce'
  BY <1>2, <1>4, <1>5 DEF WindowsInv, UsersOnce
<1>9. UsersLive'
  <2>1. \A j \in 1..(n - 1) : activeWindows'[j].user # activeWindows[k].user
    BY <1>4 DEF WindowsInv, UsersOnce
  <2>2. \A j \in 1..(n - 1) :
          Issued(activeWindows'[j].user) /\ activeWindows'[j].user \notin retired
    BY <1>4 DEF WindowsInv, UsersLive
  <2>3. Issued(activeWindows[k].user) /\ \A u \in retired : Issued(u)
    BY DEF WindowsInv, UsersLive
  <2> QED
    BY <1>2, <2>1, <2>2, <2>3 DEF UsersLive, Issued
<1>10. PendingFresh'
  <2> SUFFICES ASSUME NEW o \in Mods, call'[o] # Idle
               PROVE  /\ Issued(call[o].user)' /\ call'[o].user \notin retired'
                      /\ \A j \in 1..(n - 1) : activeWindows'[j].user # call'[o].user
                      /\ \A p \in Mods : Pending(p, call[o].user)' => p = o
    BY <1>2 DEF PendingFresh
  <2>1. call'[o] = call[o] /\ call[o] # Idle
    OBVIOUS
  <2>2. \A j \in 1..(n - 1) : activeWindows'[j].user # call'[o].user
    BY <1>4, <2>1 DEF WindowsInv, PendingFresh
  <2>3. Issued(call[o].user)' /\ call'[o].user \notin retired'
    BY <2>1 DEF WindowsInv, PendingFresh, Issued
  <2>4. \A p \in Mods : Pending(p, call[o].user)' => p = o
    BY <2>1 DEF WindowsInv, PendingFresh, Pending
  <2> QED
    BY <2>2, <2>3, <2>4
<1> QED
  BY <1>2, <1>6, <1>7, <1>8, <1>9, <1>10 DEF WindowsInv, Typed

(* close_window, of a window that is shown or of none.                      *)
LEMMA CloseStep ==
  ASSUME WindowsInv, NEW m \in Mods, close_window(m)
  PROVE  WindowsInv'
<1>1. Return(m) /\ call[m] # Idle
  BY DEF close_window, Idle
<1>2. /\ frame = "idle" /\ lock' = "free" /\ call[m] \in Calls
      /\ call' \in [Mods -> Calls \cup {Idle}] /\ call'[m] = Idle
      /\ \A o \in Mods : o # m => call'[o] = call[o]
      /\ UNCHANGED <<calls, frame, i, calling, drawn>>
  BY <1>1, ReturnStep
<1>3. Drawing'
  BY <1>2 DEF Drawing
<1>4. CASE Find(call[m].title) = {}
  <2>1. UNCHANGED <<activeWindows, retired>>
    BY <1>4 DEF close_window
  <2>2. Typed'
    BY <1>2, <2>1 DEF WindowsInv, Typed
  <2>3. TitlesUnique' /\ UsersOnce' /\ UsersLive'
    BY <1>2, <2>1 DEF WindowsInv, TitlesUnique, UsersOnce, UsersLive, Issued
  <2>4. PendingFresh'
    BY <1>2, <2>1 DEF WindowsInv, PendingFresh, Issued, Pending
  <2> QED
    BY <1>3, <2>2, <2>3, <2>4 DEF WindowsInv
<1>5. CASE Find(call[m].title) # {}
  <2>1. PICK k \in Find(call[m].title) :
          /\ activeWindows' = RemoveAt(activeWindows, k)
          /\ retired' = retired \cup {activeWindows[k].user}
    BY <1>5 DEF close_window
  <2>2. k \in 1..Len(activeWindows)
    <3>1. activeWindows \in Seq(Window)
      BY DEF WindowsInv, Typed
    <3> QED
      BY <3>1, LenProperties DEF Find
  <2>3. /\ activeWindows' \in Seq(Window) /\ retired' \subseteq 1..MaxCalls
        /\ TitlesUnique' /\ UsersOnce' /\ UsersLive' /\ PendingFresh'
    BY <1>2, <2>1, <2>2, RemovalKeeps
  <2>4. Typed'
    BY <1>2, <2>3 DEF WindowsInv, Typed
  <2> QED
    BY <1>3, <2>3, <2>4 DEF WindowsInv
<1> QED
  BY <1>4, <1>5

(* A step that leaves the list, the calls and the retired pointers alone.   *)
LEMMA ListKept ==
  ASSUME WindowsInv, UNCHANGED <<activeWindows, call, calls, retired>>
  PROVE  TitlesUnique' /\ UsersOnce' /\ UsersLive' /\ PendingFresh'
<1>1. TitlesUnique' /\ UsersOnce' /\ UsersLive'
  BY DEF WindowsInv, TitlesUnique, UsersOnce, UsersLive, Issued
<1>2. PendingFresh'
  BY DEF WindowsInv, PendingFresh, Issued, Pending
<1> QED
  BY <1>1, <1>2

(* The list is never longer than the calls that were made.                  *)
LEMMA ListBounded == WindowsInv => Len(activeWindows) \in 0..MaxCalls
<1> SUFFICES ASSUME WindowsInv PROVE Len(activeWindows) \in 0..MaxCalls
  OBVIOUS
<1>1. Len(activeWindows) \in Nat /\ calls \in Nat /\ calls <= MaxCalls /\ MaxCalls \in Nat
  <2>1. activeWindows \in Seq(Window) /\ calls \in 0..MaxCalls
    BY DEF WindowsInv, Typed
  <2> QED
    BY <2>1, LenProperties
<1> DEFINE user == [k \in 1..Len(activeWindows) |-> activeWindows[k].user]
<1>2. /\ \A k \in 1..Len(activeWindows) : user[k] \in 1..calls
      /\ \A j, k \in 1..Len(activeWindows) : user[j] = user[k] => j = k
  BY DEF WindowsInv, UsersLive, UsersOnce, Issued
<1> HIDE DEF user
<1>3. Len(activeWindows) <= calls
  BY <1>1, <1>2, DistinctLength
<1> QED
  BY <1>1, <1>3

(* The frame takes and releases the lock and goes through the windows.      *)
LEMMA FrameWalks ==
  ASSUME WindowsInv,
         TryLock \/ WindowsDone \/ CallbackReturns \/ NothingChanged \/ StaysOpen \/ CallbackReenters
  PROVE  WindowsInv'
<1>1. UNCHANGED <<activeWindows, call, calls, retired>>
  BY DEF TryLock, WindowsDone, CallbackReturns, NothingChanged, StaysOpen, CallbackReenters
<1>2. CASE TryLock
  BY <1>1, <1>2, ListKept DEF TryLock, WindowsInv, Typed, Drawing
<1>3. CASE WindowsDone
  BY <1>1, <1>3, ListKept DEF WindowsDone, WindowsInv, Typed, Drawing
<1>4. CASE CallbackReturns \/ NothingChanged \/ CallbackReenters
  BY <1>1, <1>4, ListKept DEF CallbackReturns, NothingChanged, CallbackReenters, WindowsInv,
                              Typed, Drawing
<1>5. CASE StaysOpen
  <2>1. i' = i + 1 /\ i \in 1..Len(activeWindows)
    BY <1>5 DEF StaysOpen, WindowsInv, Drawing
  <2>2. i' \in 1..(MaxCalls + 1)
    BY <2>1, ListBounded
  <2> QED
    BY <1>1, <1>5, <2>2, ListKept DEF StaysOpen, WindowsInv, Typed, Drawing
<1> QED
  BY <1>2, <1>3, <1>4, <1>5

(* It calls back with the pointer of the window it draws.                   *)
LEMMA FrameCalls ==
  ASSUME WindowsInv, ControlChanged \/ UserCloses
  PROVE  WindowsInv'
<1>1. /\ UNCHANGED <<activeWindows, lock, call, calls, i, retired, drawn>>
      /\ lock = "frame" /\ frame' \in {"clicking", "closing"} /\ i \in 1..Len(activeWindows)
      /\ calling' = activeWindows[i].user
  BY DEF ControlChanged, UserCloses, WindowsInv, Drawing
<1>2. calling' \in 0..MaxCalls
  <2>1. activeWindows[i] \in Window
    <3>1. activeWindows \in Seq(Window)
      BY DEF WindowsInv, Typed
    <3> QED
      BY <1>1, <3>1
  <2>2. activeWindows[i].user \in 1..MaxCalls
    BY <2>1 DEF Window
  <2> QED
    BY <1>1, <2>2
<1>3. Typed'
  BY <1>1, <1>2 DEF WindowsInv, Typed
<1>4. Drawing'
  BY <1>1 DEF Drawing
<1> QED
  BY <1>1, <1>3, <1>4, ListKept DEF WindowsInv

(* It draws a window and remembers that a modal popup is open.              *)
LEMMA BeginStep ==
  ASSUME WindowsInv, BeginWindow
  PROVE  WindowsInv'
<1> DEFINE n == Len(activeWindows)
<1>1. /\ frame = "window" /\ frame' \in {"controls", "end"} /\ i \in 1..n
      /\ activeWindows \in Seq(Window) /\ n \in Nat /\ DOMAIN activeWindows = 1..n
      /\ activeWindows[i] \in Window
  <2>1. activeWindows \in Seq(Window) /\ i \in 1..(MaxCalls + 1) /\ i <= n
    BY DEF BeginWindow, WindowsInv, Typed
  <2>2. n \in Nat /\ DOMAIN activeWindows = 1..n
    BY <2>1, LenProperties
  <2>3. i \in 1..n
    BY <2>1, <2>2
  <2> QED
    BY <2>1, <2>2, <2>3 DEF BeginWindow
<1>2. /\ activeWindows' \in Seq(Window) /\ Len(activeWindows') = n /\ DOMAIN activeWindows' = 1..n
      /\ \A k \in 1..n : /\ activeWindows'[k].title = activeWindows[k].title
                         /\ activeWindows'[k].user = activeWindows[k].user
  <2> DEFINE w == [activeWindows[i] EXCEPT !.modalOpened = @ \/ activeWindows[i].isModal]
  <2>1. /\ w \in Window /\ w.title = activeWindows[i].title
        /\ w.user = activeWindows[i].user
    BY <1>1 DEF Window
  <2>2. activeWindows' = [activeWindows EXCEPT ![i] = w]
    BY <1>1 DEF BeginWindow, Window
  <2> HIDE DEF w
  <2> QED
    BY <1>1, <2>1, <2>2
<1> HIDE DEF n
<1>3. UNCHANGED <<lock, call, calls, i, calling, retired>>
  BY DEF BeginWindow
<1>4. Typed'
  <2>1. activeWindows[i].user \in 1..MaxCalls
    BY <1>1 DEF Window
  <2>2. drawn' \subseteq 1..MaxCalls
    BY <2>1 DEF BeginWindow, WindowsInv, Typed
  <2> QED
    BY <1>1, <1>2, <1>3, <2>2 DEF WindowsInv, Typed
<1>5. Drawing'
  BY <1>1, <1>2, <1>3 DEF WindowsInv, Drawing
<1>6. TitlesUnique' /\ UsersOnce'
  BY <1>1, <1>2 DEF WindowsInv, TitlesUnique, UsersOnce, n
<1>7. UsersLive'
  BY <1>2, <1>3 DEF WindowsInv, UsersLive, Issued, n
<1>8. PendingFresh'
  BY <1>2, <1>3 DEF WindowsInv, PendingFresh, Issued, Pending, n
<1> QED
  BY <1>4, <1>5, <1>6, <1>7, <1>8 DEF WindowsInv

(* The user closed a window; onClose has returned.                          *)
LEMMA OnCloseStep ==
  ASSUME WindowsInv, OnCloseReturns
  PROVE  WindowsInv'
<1>1. /\ i \in 1..Len(activeWindows) /\ calling = activeWindows[i].user
      /\ UNCHANGED <<lock, call, calls, i, calling, drawn>>
      /\ lock = "frame" /\ frame' = "window"
  BY DEF OnCloseReturns, WindowsInv, Drawing
<1>2. /\ activeWindows' \in Seq(Window) /\ retired' \subseteq 1..MaxCalls
      /\ TitlesUnique' /\ UsersOnce' /\ UsersLive' /\ PendingFresh'
  BY <1>1, RemovalKeeps DEF OnCloseReturns
<1>3. Typed'
  BY <1>1, <1>2 DEF WindowsInv, Typed
<1>4. Drawing'
  BY <1>1 DEF Drawing
<1> QED
  BY <1>2, <1>3, <1>4 DEF WindowsInv

-----------------------------------------------------------------------------
(* The invariant is inductive.                                              *)
LEMMA InvStep == WindowsInv /\ [Next]_vars => WindowsInv'
<1> SUFFICES ASSUME WindowsInv, [Next]_vars PROVE WindowsInv'
  OBVIOUS
<1>1. ASSUME NEW m \in Mods, Mod(m) PROVE WindowsInv'
  BY <1>1, CallStep, LockStep, AppendStep, ReplaceStep, CloseStep DEF Mod
<1>2. CASE DrawWindows
  BY <1>2, FrameWalks, FrameCalls, BeginStep, OnCloseStep DEF DrawWindows
<1>3. CASE UNCHANGED vars
  <2>1. Typed' /\ Drawing'
    BY <1>3 DEF vars, WindowsInv, Typed, Drawing
  <2> QED
    BY <1>3, <2>1, ListKept DEF vars, WindowsInv
<1> QED
  BY <1>1, <1>2, <1>3 DEF Next

(* Every reachable state satisfies the inductive invariant.                 *)
THEOREM Invariance == Spec => []WindowsInv
  BY InitInv, InvStep, PTL DEF Spec

(* Every variable stays in its range; the list is never longer than the     *)
(* calls that were made, so the frame's index stays within its bound.       *)
THEOREM TypeCorrect == Spec => []TypeOK
<1>1. WindowsInv => TypeOK
  BY DEF WindowsInv, Typed, Drawing, TypeOK, Window, Calls
<1> QED
  BY <1>1, Invariance, PTL

(* A title names at most one window.                                        *)
THEOREM OneWindowPerTitle == Spec => []TitlesUnique
<1>1. WindowsInv => TitlesUnique
  BY DEF WindowsInv
<1> QED
  BY <1>1, Invariance, PTL

(* A pointer that was closed or replaced is not called back any more, nor   *)
(* is one that is being called back retired meanwhile.                      *)
THEOREM CallbacksLive == Spec => []NoStaleCallback
<1>1. WindowsInv => NoStaleCallback
  BY DEF WindowsInv, Drawing, UsersLive, NoStaleCallback
<1> QED
  BY <1>1, Invariance, PTL
=============================================================================
