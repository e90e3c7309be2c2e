--------------------------- MODULE GameLifecycle ---------------------------
(***************************************************************************)
(* Start and stop of the game: the start thread runs JniSupport::startGame,*)
(* the process' main thread takes over the thread the game creates for its *)
(* own main loop (ThreadMover) and each requestExitGame creates a detached *)
(* thread running JniSupport::stopGame.  The file RPC server may call into *)
(* JniSupport from its own thread as soon as it is bound.                  *)
(*                                                                         *)
(* The game's side of the life cycle callbacks (android_native_app_glue,   *)
(* linked into the game binary, not in this repository) is modelled from   *)
(* what startGame, stopGame and FakeLooper rely on: a callback writes a    *)
(* command and waits until the game's main thread has processed it.        *)
(***************************************************************************)
EXTENDS Naturals, Sequences

CONSTANTS Stoppers,    (* threads requestExitGame may create, one per call   *)
          EarlyFinish  (* may the game finish before it was given its window *)

ASSUME LifecycleAssumption == EarlyFinish \in BOOLEAN

VARIABLES
  isGameActivity,  (* the library has no ANativeActivity_onCreate            *)
  startThreadId,   (* ThreadMover knows the start thread                     *)
  moved,           (* thread entries handed to main_thread_promise           *)
  spawned,         (* thread entries given to the real pthread_create        *)
  startPc, mainPc, stopPc,
  rpcBound,        (* RpcCallbackServer listens                              *)
  activity,        (* JniSupport::activity is set                            *)
  window,          (* JniSupport::window and ::inputQueue are set            *)
  looperRunning, gameExitVal,
  waiters,         (* threads blocked in gameExitCond.wait                   *)
  textDirty,       (* the text handler differs from the game's text state    *)
  app,             (* glue: none, created, running, destroyed, freed         *)
  cmds,            (* glue: commands written and not yet processed           *)
  activityState, appInput, appWindow, destroyRequested,  (* glue             *)
  fault            (* the invalid access that ended the process, if any      *)

threadVars == <<startPc, mainPc, stopPc>>
moverVars  == <<startThreadId, moved, spawned>>
supportVars == <<activity, window, looperRunning, gameExitVal, waiters>>
glueVars   == <<app, cmds, activityState, appInput, appWindow, destroyRequested>>
vars == <<threadVars, moverVars, supportVars, glueVars,
          isGameActivity, rpcBound, textDirty, fault>>

Entries  == {"appEntry", "worker"}
OneShot  == {<<>>} \cup {<<e>> : e \in Entries}  (* a promise takes one value *)
Commands == {"input", "start", "window", "pause", "stop", "destroy"}
Faults   == {"none", "earlyImport", "nullActivity", "nullHandle", "useAfterFree"}
StartPcs == {"spawned", "startGame", "onCreate", "awaitRunning",
             "onInputQueueCreated", "awaitInput", "onStart", "awaitStart",
             "onNativeWindowCreated", "awaitWindow", "afterStart", "textLoop", "done"}
MainPcs  == {"setup", "executeMainThread", "prepare", "onWindowCreated", "ready",
             "loop", "looperStopped", "shutdown", "exited"}
StopPcs  == {"idle", "onPause", "awaitPause", "onStop", "awaitStop",
             "onDestroy", "awaitDestroyed", "waitLooper", "done"}

Init ==
  /\ isGameActivity \in BOOLEAN
  /\ startThreadId = FALSE /\ moved = <<>> /\ spawned = {}
  /\ startPc = "spawned" /\ mainPc = "setup" /\ stopPc = [s \in Stoppers |-> "idle"]
  /\ rpcBound = FALSE /\ activity = FALSE /\ window = FALSE
  /\ looperRunning = FALSE /\ gameExitVal = FALSE /\ waiters = {}
  /\ textDirty = FALSE
  /\ app = "none" /\ cmds = <<>> /\ activityState = "none"
  /\ appInput = FALSE /\ appWindow = FALSE /\ destroyRequested = FALSE
  /\ fault = "none"

(* No thread takes a step once the process has exited or crashed.          *)
Alive == mainPc # "exited" /\ fault = "none"

-----------------------------------------------------------------------------
(* ThreadMover: the first pthread_create of the start thread is handed to   *)
(* the main thread, every other one creates a thread.                       *)
(* Mutant: without the thread id test.                                      *)
PthreadCreateAnyThread(caller, entry) ==
  IF startThreadId /\ moved = <<>>
  THEN moved' = Append(moved, entry) /\ UNCHANGED spawned
  ELSE spawned' = spawned \cup {entry} /\ UNCHANGED moved

PthreadCreate(caller, entry) ==
  IF caller = "start" /\ startThreadId /\ moved = <<>>
  THEN moved' = Append(moved, entry) /\ UNCHANGED spawned
  ELSE spawned' = spawned \cup {entry} /\ UNCHANGED moved

-----------------------------------------------------------------------------
(* The glue.  A callback locks the android_app, writes a command and waits; *)
(* both are invalid once onDestroy has freed it.                            *)
UseAfterFree ==
  /\ app = "freed"
  /\ fault' = "useAfterFree"
  /\ UNCHANGED <<threadVars, moverVars, supportVars, glueVars,
                 isGameActivity, rpcBound, textDirty>>

WriteCmd(cmd) ==
  /\ app # "freed"
  /\ cmds' = Append(cmds, cmd)
  /\ UNCHANGED <<app, activityState, appInput, appWindow, destroyRequested>>

(* What the waiter of each command waits for.                               *)
Processed(cmd) ==
  CASE cmd = "input"   -> appInput
    [] cmd = "window"  -> appWindow
    [] cmd = "destroy" -> app = "destroyed"
    [] OTHER           -> activityState = cmd

-----------------------------------------------------------------------------
(* The start thread: ThreadMover::storeStartThreadId, then startGame.       *)
StartUnchanged == UNCHANGED <<mainPc, stopPc, isGameActivity, rpcBound, textDirty>>

StoreStartThreadId ==
  /\ startPc = "spawned"
  /\ startThreadId' = TRUE /\ startPc' = "startGame"
  /\ StartUnchanged
  /\ UNCHANGED <<moved, spawned, supportVars, glueVars, fault>>

CreateActivity ==
  /\ startPc = "startGame"
  /\ activity' = TRUE /\ startPc' = "onCreate"
  /\ StartUnchanged
  /\ UNCHANGED <<moverVars, window, looperRunning, gameExitVal, waiters, glueVars, fault>>

(* ANativeActivity_onCreate or initializeNativeCode: the glue creates the   *)
(* game's main thread and blocks until that thread runs.                    *)
OnCreate ==
  /\ startPc = "onCreate"
  /\ PthreadCreate("start", "appEntry")
  /\ app' = "created" /\ startPc' = "awaitRunning"
  /\ StartUnchanged
  /\ UNCHANGED <<startThreadId, supportVars, cmds, activityState, appInput,
                 appWindow, destroyRequested, fault>>

OnCreateReturns ==
  /\ startPc = "awaitRunning" /\ app \in {"running", "destroyed"}
  /\ startPc' = IF isGameActivity THEN "onStart" ELSE "onInputQueueCreated"
  /\ StartUnchanged
  /\ UNCHANGED <<moverVars, supportVars, glueVars, fault>>

StartCall(from, cmd, to) ==
  /\ startPc = from
  /\ WriteCmd(cmd)
  /\ startPc' = to
  /\ StartUnchanged
  /\ UNCHANGED <<moverVars, supportVars>>

StartAwait(from, cmd, to) ==
  /\ startPc = from /\ app # "freed" /\ Processed(cmd)
  /\ startPc' = to
  /\ StartUnchanged
  /\ UNCHANGED <<moverVars, supportVars, glueVars, fault>>

(* startGame passes JniSupport's inputQueue and window on as it finds them. *)
HandleFault == fault' = IF window THEN fault ELSE "nullHandle"

(* Mutants: the window before onStart, the window never passed on.          *)
StartCallbacksSwapped ==
  \/ StartCall("onInputQueueCreated", "input", "awaitInput") /\ HandleFault
  \/ StartAwait("awaitInput", "input", "onNativeWindowCreated")
  \/ StartCall("onNativeWindowCreated", "window", "awaitWindow") /\ HandleFault
  \/ StartAwait("awaitWindow", "window", "onStart")
  \/ StartCall("onStart", "start", "awaitStart") /\ UNCHANGED fault
  \/ StartAwait("awaitStart", "start", "afterStart")

StartCallbacksNoWindow ==
  \/ StartCall("onInputQueueCreated", "input", "awaitInput") /\ HandleFault
  \/ StartAwait("awaitInput", "input", "onStart")
  \/ StartCall("onStart", "start", "awaitStart") /\ UNCHANGED fault
  \/ StartAwait("awaitStart", "start", "afterStart")

StartCallbacks ==
  \/ StartCall("onInputQueueCreated", "input", "awaitInput") /\ HandleFault
  \/ StartAwait("awaitInput", "input", "onStart")
  \/ StartCall("onStart", "start", "awaitStart") /\ UNCHANGED fault
  \/ StartAwait("awaitStart", "start", "onNativeWindowCreated")
  \/ StartCall("onNativeWindowCreated", "window", "awaitWindow") /\ HandleFault
  \/ StartAwait("awaitWindow", "window", "afterStart")

(* The network status and import natives run in the game and may create a   *)
(* thread; then startGame returns or stays in its text input loop.          *)
AfterStart ==
  /\ startPc = "afterStart"
  /\ PthreadCreate("start", "worker")
  /\ startPc' = IF isGameActivity THEN "textLoop" ELSE "done"
  /\ StartUnchanged
  /\ UNCHANGED <<startThreadId, supportVars, glueVars, fault>>

TextLoop ==
  /\ startPc = "textLoop" /\ textDirty /\ app # "freed"
  /\ textDirty' = FALSE
  /\ UNCHANGED <<threadVars, moverVars, supportVars, glueVars,
                 isGameActivity, rpcBound, fault>>

StartUsesApp ==
  \/ startPc \in StartPcs \ {"spawned", "startGame", "onCreate", "afterStart",
                             "textLoop", "done"}
  \/ startPc = "textLoop" /\ textDirty

StartThread ==
  \/ StoreStartThreadId \/ CreateActivity \/ OnCreate \/ OnCreateReturns
  \/ StartCallbacks \/ AfterStart \/ TextLoop
  \/ StartUsesApp /\ UseAfterFree

-----------------------------------------------------------------------------
(* The main thread.                                                         *)
MainGoto(from, to) ==
  /\ mainPc = from /\ mainPc' = to
  /\ UNCHANGED <<startPc, isGameActivity>>

BindRpc ==
  /\ MainGoto("setup", "executeMainThread")
  /\ rpcBound' \in BOOLEAN      (* binding may fail, main goes on *)
  /\ UNCHANGED <<stopPc, moverVars, supportVars, glueVars, textDirty, fault>>

ExecuteMainThread ==
  /\ moved # <<>>
  /\ MainGoto("executeMainThread", "prepare")
  /\ UNCHANGED <<stopPc, moverVars, supportVars, glueVars, rpcBound, textDirty, fault>>

(* A waiter woken by notify_all evaluates its condition again.              *)
SetLooperRunning(running) ==
  /\ looperRunning' = running
  /\ waiters' = IF running THEN waiters ELSE {}
  /\ UNCHANGED <<activity, window, gameExitVal>>

(* Mutant: prepare does not report the window to JniSupport.                *)
PrepareUnreported ==
  /\ MainGoto("prepare", "ready")
  /\ SetLooperRunning(TRUE)
  /\ UNCHANGED <<stopPc, moverVars, glueVars, rpcBound, textDirty, fault>>

(* FakeLooper::prepare, in its two halves.                                  *)
Prepare ==
  /\ MainGoto("prepare", "onWindowCreated")
  /\ SetLooperRunning(TRUE)
  /\ UNCHANGED <<stopPc, moverVars, glueVars, rpcBound, textDirty, fault>>

OnWindowCreated ==
  /\ MainGoto("onWindowCreated", "ready")
  /\ window' = TRUE
  /\ fault' = IF activity THEN fault ELSE "nullActivity"
  /\ UNCHANGED <<stopPc, moverVars, activity, looperRunning, gameExitVal, waiters,
                 glueVars, rpcBound, textDirty>>

SignalRunning ==
  /\ MainGoto("ready", "loop")
  /\ app' = "running"
  /\ UNCHANGED <<stopPc, moverVars, supportVars, cmds, activityState, appInput,
                 appWindow, destroyRequested, rpcBound, textDirty, fault>>

InLoop == mainPc = "loop" /\ ~destroyRequested

ProcessCmd ==
  /\ InLoop /\ cmds # <<>>
  /\ cmds' = Tail(cmds)
  /\ LET cmd == Head(cmds)
     IN  /\ appInput' = (appInput \/ cmd = "input")
         /\ appWindow' = (appWindow \/ cmd = "window")
         /\ destroyRequested' = (cmd = "destroy")
         /\ activityState' = IF cmd \in {"start", "pause", "stop"} THEN cmd
                                                                   ELSE activityState
  /\ UNCHANGED <<threadVars, moverVars, supportVars, app, isGameActivity, rpcBound,
                 textDirty, fault>>

(* ANativeActivity_finish / GameActivity_finish: requestExitGame.           *)
RequestExitGame(s) ==
  /\ InLoop /\ (EarlyFinish \/ appWindow)
  /\ stopPc[s] = "idle"
  /\ gameExitVal' = TRUE /\ waiters' = {}
  /\ stopPc' = [stopPc EXCEPT ![s] = "onPause"]
  /\ UNCHANGED <<startPc, mainPc, moverVars, activity, window, looperRunning, glueVars,
                 isGameActivity, rpcBound, textDirty, fault>>

(* Text typed while the game polls the window.                              *)
KeyboardText ==
  /\ InLoop
  /\ textDirty' = TRUE
  /\ UNCHANGED <<threadVars, moverVars, supportVars, glueVars, isGameActivity,
                 rpcBound, fault>>

GameCreatesThread ==
  /\ InLoop
  /\ PthreadCreate("main", "worker")
  /\ UNCHANGED <<threadVars, startThreadId, supportVars, glueVars, isGameActivity,
                 rpcBound, textDirty, fault>>

(* WindowCallbacks::onClose, called from the window's event poll.           *)
OnClose ==
  /\ InLoop
  /\ MainGoto("loop", "exited")
  /\ UNCHANGED <<stopPc, moverVars, supportVars, glueVars, rpcBound, textDirty, fault>>

(* android_main returns, android_app_destroy signals, the thread function   *)
(* returns into executeMainThread.                                          *)
LeaveGameMain ==
  /\ destroyRequested
  /\ MainGoto("loop", "looperStopped")
  /\ app' = "destroyed"
  /\ UNCHANGED <<stopPc, moverVars, supportVars, cmds, activityState, appInput,
                 appWindow, destroyRequested, rpcBound, textDirty, fault>>

LooperStopped ==
  /\ MainGoto("looperStopped", "shutdown")
  /\ SetLooperRunning(FALSE)
  /\ UNCHANGED <<stopPc, moverVars, glueVars, rpcBound, textDirty, fault>>

ExitProcess ==
  /\ MainGoto("shutdown", "exited")
  /\ UNCHANGED <<stopPc, moverVars, supportVars, glueVars, rpcBound, textDirty, fault>>

MainThread ==
  \/ BindRpc \/ ExecuteMainThread \/ Prepare \/ OnWindowCreated \/ SignalRunning
  \/ ProcessCmd \/ LeaveGameMain \/ LooperStopped \/ ExitProcess

UserOrGame ==
  \/ \E s \in Stoppers : RequestExitGame(s)
  \/ KeyboardText \/ GameCreatesThread \/ OnClose

-----------------------------------------------------------------------------
(* A thread running JniSupport::stopGame.                                   *)
StopUnchanged == UNCHANGED <<startPc, mainPc, moverVars, isGameActivity, rpcBound,
                             textDirty, fault>>

StopCall(s, from, cmd, to) ==
  /\ stopPc[s] = from
  /\ WriteCmd(cmd)
  /\ stopPc' = [stopPc EXCEPT ![s] = to]
  /\ StopUnchanged /\ UNCHANGED supportVars

StopAwait(s, from, cmd, to) ==
  /\ stopPc[s] = from /\ app # "freed" /\ Processed(cmd)
  /\ stopPc' = [stopPc EXCEPT ![s] = to]
  /\ StopUnchanged /\ UNCHANGED <<supportVars, glueVars>>

(* Mutant: stopGame without onDestroy.                                      *)
StopCallbacksNoDestroy(s) ==
  \/ StopCall(s, "onPause", "pause", "awaitPause")
  \/ StopAwait(s, "awaitPause", "pause", "onStop")
  \/ StopCall(s, "onStop", "stop", "awaitStop")
  \/ StopAwait(s, "awaitStop", "stop", "waitLooper")

(* Mutant: stopGame calls onStop once more after onDestroy.                 *)
StopCallbacksAgain(s) ==
  \/ StopCall(s, "onPause", "pause", "awaitPause")
  \/ StopAwait(s, "awaitPause", "pause", "onStop")
  \/ StopCall(s, "onStop", "stop", "awaitStop")
  \/ StopAwait(s, "awaitStop", "stop", "onDestroy")
  \/ StopCall(s, "onDestroy", "destroy", "awaitDestroyed")
  \/ /\ stopPc[s] = "waitLooper" /\ app = "freed"
     /\ stopPc' = [stopPc EXCEPT ![s] = "onStop"]
     /\ StopUnchanged /\ UNCHANGED <<supportVars, glueVars>>

StopCallbacks(s) ==
  \/ StopCall(s, "onPause", "pause", "awaitPause")
  \/ StopAwait(s, "awaitPause", "pause", "onStop")
  \/ StopCall(s, "onStop", "stop", "awaitStop")
  \/ StopAwait(s, "awaitStop", "stop", "onDestroy")
  \/ StopCall(s, "onDestroy", "destroy", "awaitDestroyed")

(* onDestroy returns: the android_app is freed.                             *)
FreeApp(s) ==
  /\ stopPc[s] = "awaitDestroyed" /\ Processed("destroy")
  /\ app' = "freed"
  /\ stopPc' = [stopPc EXCEPT ![s] = "waitLooper"]
  /\ StopUnchanged
  /\ UNCHANGED <<supportVars, cmds, activityState, appInput, appWindow, destroyRequested>>

(* Mutant: a wait without its predicate, ended by any notify_all.           *)
WaitLooperNoPredicate(s) ==
  /\ stopPc[s] = "waitLooper" /\ s \notin waiters
  /\ stopPc' = [stopPc EXCEPT ![s] = "done"]
  /\ StopUnchanged
  /\ UNCHANGED <<supportVars, glueVars>>

(* gameExitCond.wait: blocks while looperRunning, checks again when woken.  *)
WaitLooper(s) ==
  /\ stopPc[s] = "waitLooper" /\ s \notin waiters
  /\ IF looperRunning
     THEN waiters' = waiters \cup {s} /\ UNCHANGED stopPc
     ELSE stopPc' = [stopPc EXCEPT ![s] = "done"] /\ UNCHANGED waiters
  /\ StopUnchanged
  /\ UNCHANGED <<activity, window, looperRunning, gameExitVal, glueVars>>

StopUsesApp(s) == stopPc[s] \notin {"idle", "waitLooper", "done"}

StopThread(s) ==
  \/ StopCallbacks(s) \/ FreeApp(s) \/ WaitLooper(s)
  \/ StopUsesApp(s) /\ UseAfterFree

-----------------------------------------------------------------------------
(* mcpelauncher-client/sendfile on the RPC server's thread: sendUri and     *)
(* importFile dereference activity; the native may create a thread.         *)
RpcImport ==
  /\ rpcBound
  /\ IF activity THEN PthreadCreate("rpc", "worker") /\ UNCHANGED fault
                 ELSE fault' = "earlyImport" /\ UNCHANGED <<moved, spawned>>
  /\ UNCHANGED <<threadVars, startThreadId, supportVars, glueVars, isGameActivity,
                 rpcBound, textDirty>>

Terminated == ~Alive /\ UNCHANGED vars

Next ==
  \/ Alive /\ (StartThread \/ MainThread \/ UserOrGame \/ RpcImport)
  \/ Alive /\ \E s \in Stoppers : StopThread(s)
  \/ Terminated

Spec == Init /\ [][Next]_vars

(* Every thread that can run is eventually scheduled; nothing makes the     *)
(* user, the game or a second launcher process do anything.                 *)
Fairness ==
  /\ WF_vars(Alive /\ StartThread)
  /\ WF_vars(Alive /\ MainThread)
  /\ \A s \in Stoppers : WF_vars(Alive /\ StopThread(s))

FairSpec == Spec /\ Fairness
-----------------------------------------------------------------------------
(* Each variable stays in its range; in particular main_thread_promise is  *)
(* satisfied at most once (a second set_value would throw).                *)
TypeOK ==
  /\ isGameActivity \in BOOLEAN /\ startThreadId \in BOOLEAN
  /\ moved \in OneShot
  /\ spawned \in SUBSET Entries
  /\ startPc \in StartPcs /\ mainPc \in MainPcs /\ stopPc \in [Stoppers -> StopPcs]
  /\ rpcBound \in BOOLEAN /\ activity \in BOOLEAN /\ window \in BOOLEAN
  /\ looperRunning \in BOOLEAN /\ gameExitVal \in BOOLEAN
  /\ waiters \in SUBSET Stoppers /\ textDirty \in BOOLEAN
  /\ app \in {"none", "created", "running", "destroyed", "freed"}
  /\ cmds \in Seq(Commands)
  /\ activityState \in {"none", "start", "pause", "stop"}
  /\ appInput \in BOOLEAN /\ appWindow \in BOOLEAN /\ destroyRequested \in BOOLEAN
  /\ fault \in Faults

(* The "Note on thread safety" of JniSupport::onWindowCreated: the start    *)
(* thread never passes a window or an input queue the looper thread has not *)
(* stored yet, and the looper thread never uses an unset activity.          *)
HandlesPublished == fault \notin {"nullActivity", "nullHandle"}

(* ThreadMover moves exactly the game's main loop: no other thread entry is *)
(* run by the process' main thread and the main loop gets no second thread. *)
OnlyGameMainMoved ==
  /\ mainPc \notin {"setup", "executeMainThread"} => moved = <<"appEntry">>
  /\ "appEntry" \notin spawned

(* stopGame returns only when the looper has stopped, and onDestroy frees   *)
(* the glue's state only after the game's main loop has been left.          *)
StopWaitsForLooper ==
  /\ (\E s \in Stoppers : stopPc[s] = "done") => mainPc \in {"shutdown", "exited"}
  /\ app = "freed" => mainPc \in {"looperStopped", "shutdown", "exited"}

(* The invalid accesses this start and stop sequence is exposed to.  With a *)
(* game that does not finish before it has its window, the life cycle       *)
(* callbacks reach a freed game only if a second stopGame overlaps the      *)
(* first, or the start thread is still inside onNativeWindowCreated or in   *)
(* startGame's text input loop; and an unset activity is used only by an    *)
(* import over RPC that comes before startGame has created it.              *)
OnlyKnownFaults ==
  /\ fault = "useAfterFree" =>
       \/ EarlyFinish
       \/ startPc = "awaitWindow"
       \/ startPc = "textLoop" /\ textDirty
       \/ \E s, t \in Stoppers : s # t /\ stopPc[s] # "idle" /\ stopPc[t] # "idle"
  /\ fault = "earlyImport" => startPc \in {"spawned", "startGame"} /\ rpcBound

(* Once stopped, the game is not started again: the start callbacks of      *)
(* startGame and the stop callbacks of stopGame do not mix.                 *)
NeverRestarted == [][activityState = "stop" => activityState' # "start"]_vars

(* startGame gets the window to the game, unless the process ends before.   *)
WindowDelivered == <>(appWindow \/ ~Alive)

(* Once the game asked to finish, the process ends.                         *)
FinishExits == (\E s \in Stoppers : stopPc[s] # "idle") ~> ~Alive
-----------------------------------------------------------------------------
(* Why these properties hold: the inductive invariant, in three parts.      *)
BeforeCreate == {"spawned", "startGame", "onCreate"}
AfterWindow  == {"awaitWindow", "afterStart", "textLoop", "done"}
MainRan      == {"loop", "looperStopped", "shutdown", "exited"}
MainLeft     == {"looperStopped", "shutdown", "exited"}

(* Hand-over of the game's main loop and of the window and the activity.    *)
HandOver ==
  /\ startPc = "spawned" \/ startThreadId
  /\ moved = IF startPc \in BeforeCreate THEN <<>> ELSE <<"appEntry">>
  /\ startPc \in BeforeCreate => app = "none"
  /\ "appEntry" \notin spawned
  /\ activity <=> startPc \notin {"spawned", "startGame"}
  /\ mainPc \notin {"setup", "executeMainThread"} => moved # <<>>
  /\ mainPc \in MainRan \cup {"ready"} => window
  /\ app \in {"running", "destroyed", "freed"} => mainPc \in MainRan
  /\ startPc \notin BeforeCreate \cup {"awaitRunning"} => window

(* Where a stop thread is, given where the main thread is.                  *)
StopProgress ==
  /\ app \in {"destroyed", "freed"} => mainPc \in MainLeft
  /\ mainPc \in {"onWindowCreated", "ready", "loop", "looperStopped"} => looperRunning
  /\ \A s \in Stoppers : stopPc[s] \in {"waitLooper", "done"} => app = "freed"
  /\ \A s \in Stoppers : stopPc[s] = "done" => mainPc \in {"shutdown", "exited"}

(* Who can have freed the glue's state, and what came before.               *)
FreedBy ==
  /\ app = "freed" => \E s \in Stoppers : stopPc[s] \in {"waitLooper", "done"}
  /\ (\E s \in Stoppers : stopPc[s] # "idle") => EarlyFinish \/ appWindow
  /\ appWindow \/ (\E i \in 1..Len(cmds) : cmds[i] = "window") => startPc \in AfterWindow

LifecycleInv ==
  TypeOK /\ HandOver /\ StopProgress /\ FreedBy /\ HandlesPublished /\ OnlyKnownFaults
=============================================================================
