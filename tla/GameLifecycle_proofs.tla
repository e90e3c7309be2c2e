----------------------- MODULE GameLifecycle_proofs -----------------------
(***************************************************************************)
(* LifecycleInv is inductive, for any set of stop threads and whether or   *)
(* not the game may finish early; the safety properties of GameLifecycle   *)
(* follow from it.  StartOnce, relative to it, places the one start        *)
(* command the glue ever gets before every stop command, when the game     *)
(* does not finish early: a stopped game is not started again.             *)
(***************************************************************************)
EXTENDS GameLifecycle, SequenceTheorems, TLAPS

USE DEF threadVars, moverVars, supportVars, glueVars

(* The initial state satisfies the invariant.                              *)
LEMMA InitInv == Init => LifecycleInv
<1> SUFFICES ASSUME Init PROVE LifecycleInv
  OBVIOUS
<1> USE DEF Init
<1>1. TypeOK
  <2>1. moved \in OneShot /\ cmds \in Seq(Commands)
    BY DEF OneShot
  <2>2. startPc \in StartPcs /\ mainPc \in MainPcs /\ stopPc \in [Stoppers -> StopPcs]
    BY DEF StartPcs, MainPcs, StopPcs
  <2>3. fault \in Faults /\ spawned \in SUBSET Entries /\ waiters \in SUBSET Stoppers
    BY DEF Faults
  <2> QED
    BY <2>1, <2>2, <2>3 DEF TypeOK
<1>2. HandOver
  BY DEF HandOver, BeforeCreate, MainRan
<1>3. StopProgress /\ HandlesPublished /\ OnlyKnownFaults
  BY DEF StopProgress, HandlesPublished, OnlyKnownFaults, MainLeft
<1>4. FreedBy
  BY DEF FreedBy
<1> QED
  BY <1>1, <1>2, <1>3, <1>4 DEF LifecycleInv

(* The start thread keeps every variable in its range; HandOver is needed  *)
(* because the promise may be set only once.                               *)
LEMMA StartType == TypeOK /\ HandOver /\ StartThread => TypeOK'
<1> SUFFICES ASSUME TypeOK, HandOver, StartThread PROVE TypeOK'
  OBVIOUS
<1> USE DEF TypeOK, StartUnchanged
<1>1. CASE StoreStartThreadId
  BY <1>1 DEF StoreStartThreadId, StartPcs
<1>2. CASE CreateActivity
  BY <1>2 DEF CreateActivity, StartPcs
<1>3. CASE OnCreate
  <2>0. Append(<<>>, "appEntry") = <<"appEntry">>
    OBVIOUS
  <2>1. (moved' = moved \/ moved' = <<"appEntry">>) /\ spawned' \in SUBSET Entries
    <3>1. moved = <<>>
      BY <1>3 DEF OnCreate, HandOver, BeforeCreate
    <3> QED
      BY <1>3, <2>0, <3>1 DEF OnCreate, PthreadCreate, Entries
  <2>2. moved' \in OneShot
    BY <2>1 DEF OneShot, Entries
  <2>3. startPc' \in StartPcs
    BY <1>3 DEF OnCreate, StartPcs
  <2> QED
    BY <1>3, <2>1, <2>2, <2>3 DEF OnCreate
<1>4. CASE OnCreateReturns
  BY <1>4 DEF OnCreateReturns, StartPcs
<1>5. CASE StartCallbacks
  <2>1. startPc' \in StartPcs
    BY <1>5 DEF StartCallbacks, StartCall, StartAwait, StartPcs
  <2>2. cmds' \in Seq(Commands)
    BY <1>5 DEF StartCallbacks, StartCall, StartAwait, WriteCmd, Commands
  <2>3. fault' \in Faults
    BY <1>5 DEF StartCallbacks, StartCall, StartAwait, HandleFault, Faults
  <2> QED
    BY <1>5, <2>1, <2>2, <2>3 DEF StartCallbacks, StartCall, StartAwait, WriteCmd
<1>6. CASE AfterStart
  <2>1. (moved' = moved \/ moved' = <<"appEntry">>) /\ spawned' \in SUBSET Entries
    BY <1>6 DEF AfterStart, PthreadCreate, Entries, HandOver, BeforeCreate
  <2>2. moved' \in OneShot
    BY <2>1 DEF OneShot, Entries
  <2>3. startPc' \in StartPcs
    BY <1>6 DEF AfterStart, StartPcs
  <2> QED
    BY <1>6, <2>1, <2>2, <2>3 DEF AfterStart
<1>7. CASE TextLoop
  <2>1. textDirty' \in BOOLEAN
    BY <1>7 DEF TextLoop
  <2> QED
    BY <1>7, <2>1 DEF TextLoop
<1>8. CASE UseAfterFree
  BY <1>8 DEF UseAfterFree, Faults
<1> QED
  BY <1>1, <1>2, <1>3, <1>4, <1>5, <1>6, <1>7, <1>8 DEF StartThread

(* So does the main thread.                                                *)
LEMMA MainType == TypeOK /\ MainThread => TypeOK'
<1> SUFFICES ASSUME TypeOK, MainThread PROVE TypeOK'
  OBVIOUS
<1> USE DEF TypeOK, MainGoto, MainPcs
<1>1. CASE BindRpc
  BY <1>1 DEF BindRpc
<1>2. CASE ExecuteMainThread
  BY <1>2 DEF ExecuteMainThread
<1>3. CASE Prepare
  BY <1>3 DEF Prepare, SetLooperRunning
<1>4. CASE OnWindowCreated
  BY <1>4 DEF OnWindowCreated, Faults
<1>5. CASE SignalRunning
  BY <1>5 DEF SignalRunning
<1>6. CASE ProcessCmd
  <2>1. Head(cmds) \in Commands /\ cmds' \in Seq(Commands)
    BY <1>6 DEF ProcessCmd
  <2> QED
    BY <1>6, <2>1 DEF ProcessCmd
<1>7. CASE LeaveGameMain
  BY <1>7 DEF LeaveGameMain
<1>8. CASE LooperStopped
  <2>1. looperRunning' \in BOOLEAN /\ waiters' \in SUBSET Stoppers
    BY <1>8 DEF LooperStopped, SetLooperRunning
  <2> QED
    BY <1>8, <2>1 DEF LooperStopped, SetLooperRunning
<1>9. CASE ExitProcess
  BY <1>9 DEF ExitProcess
<1> QED
  BY <1>1, <1>2, <1>3, <1>4, <1>5, <1>6, <1>7, <1>8, <1>9 DEF MainThread

(* So do the user, the game and the RPC server.                            *)
LEMMA UserType == TypeOK /\ (UserOrGame \/ RpcImport) => TypeOK'
<1> SUFFICES ASSUME TypeOK, UserOrGame \/ RpcImport PROVE TypeOK'
  OBVIOUS
<1> USE DEF TypeOK
<1>1. ASSUME NEW s \in Stoppers, RequestExitGame(s) PROVE TypeOK'
  BY <1>1 DEF RequestExitGame, StopPcs
<1>2. CASE KeyboardText
  BY <1>2 DEF KeyboardText
<1>3. CASE GameCreatesThread
  <2>1. spawned' \in SUBSET Entries /\ moved' = moved
    BY <1>3 DEF GameCreatesThread, PthreadCreate, Entries
  <2> QED
    BY <1>3, <2>1 DEF GameCreatesThread
<1>4. CASE OnClose
  BY <1>4 DEF OnClose, MainGoto, MainPcs
<1>5. CASE RpcImport /\ activity
  <2>1. spawned' \in SUBSET Entries /\ moved' = moved
    BY <1>5 DEF RpcImport, PthreadCreate, Entries
  <2> QED
    BY <1>5, <2>1 DEF RpcImport
<1>6. CASE RpcImport /\ ~activity
  BY <1>6 DEF RpcImport, Faults
<1> QED
  BY <1>1, <1>2, <1>3, <1>4, <1>5, <1>6 DEF UserOrGame

(* So does a stop thread.                                                  *)
LEMMA StopType ==
  ASSUME TypeOK, NEW s \in Stoppers, StopThread(s) PROVE TypeOK'
<1> USE DEF TypeOK, StopUnchanged
<1>1. CASE StopCallbacks(s)
  <2>1. stopPc' \in [Stoppers -> StopPcs]
    BY <1>1 DEF StopCallbacks, StopCall, StopAwait, StopPcs
  <2>2. cmds' \in Seq(Commands)
    BY <1>1 DEF StopCallbacks, StopCall, StopAwait, WriteCmd, Commands
  <2> QED
    BY <1>1, <2>1, <2>2 DEF StopCallbacks, StopCall, StopAwait, WriteCmd
<1>2. CASE FreeApp(s)
  BY <1>2 DEF FreeApp, StopPcs
<1>3. CASE WaitLooper(s)
  BY <1>3 DEF WaitLooper, StopPcs
<1>4. CASE UseAfterFree
  BY <1>4 DEF UseAfterFree, Faults
<1> QED
  BY <1>1, <1>2, <1>3, <1>4 DEF StopThread

(* So does every step.                                                     *)
LEMMA TypeStep == TypeOK /\ HandOver /\ [Next]_vars => TypeOK'
<1>1. TypeOK /\ UNCHANGED vars => TypeOK'
  BY DEF TypeOK, vars
<1> QED
  BY <1>1, StartType, MainType, UserType, StopType DEF Next, Terminated
-----------------------------------------------------------------------------
(* The hand-over of the main loop, the window and the activity is kept.    *)
LEMMA HandOverStep == TypeOK /\ HandOver /\ Alive /\ [Next]_vars => HandOver'
<1> SUFFICES ASSUME TypeOK, HandOver, Alive, [Next]_vars PROVE HandOver'
  OBVIOUS
<1> USE DEF HandOver, BeforeCreate, MainRan
<1>1. CASE StartThread
  <2> USE DEF StartUnchanged
  <2>1. CASE StoreStartThreadId
    BY <2>1 DEF StoreStartThreadId
  <2>2. CASE CreateActivity
    BY <2>2 DEF CreateActivity
  <2>3. CASE OnCreate
    <3>1. Append(<<>>, "appEntry") = <<"appEntry">> /\ <<"appEntry">> # <<>>
      OBVIOUS
    <3> QED
      BY <2>3, <3>1 DEF OnCreate, PthreadCreate
  <2>4. CASE OnCreateReturns
    BY <2>4 DEF OnCreateReturns
  <2>5. CASE StartCallbacks
    BY <2>5 DEF StartCallbacks, StartCall, StartAwait, WriteCmd
  <2>6. CASE AfterStart
    <3>1. moved' = moved /\ spawned' = spawned \cup {"worker"}
      BY <2>6 DEF AfterStart, PthreadCreate
    <3> QED
      BY <2>6, <3>1 DEF AfterStart
  <2>7. CASE TextLoop \/ UseAfterFree
    BY <2>7 DEF TextLoop, UseAfterFree
  <2> QED
    BY <1>1, <2>1, <2>2, <2>3, <2>4, <2>5, <2>6, <2>7 DEF StartThread
<1>2. CASE MainThread
  <2> USE DEF MainGoto
  <2>1. CASE BindRpc \/ ExecuteMainThread
    BY <2>1 DEF BindRpc, ExecuteMainThread
  <2>2. CASE Prepare \/ OnWindowCreated
    BY <2>2 DEF Prepare, OnWindowCreated, SetLooperRunning
  <2>3. CASE SignalRunning
    BY <2>3 DEF SignalRunning
  <2>4. CASE ProcessCmd
    BY <2>4 DEF ProcessCmd
  <2>5. CASE LeaveGameMain
    BY <2>5 DEF LeaveGameMain
  <2>6. CASE LooperStopped \/ ExitProcess
    BY <2>6 DEF LooperStopped, ExitProcess, SetLooperRunning
  <2> QED
    BY <1>2, <2>1, <2>2, <2>3, <2>4, <2>5, <2>6 DEF MainThread
<1>3. CASE UserOrGame
  <2>1. ASSUME NEW s \in Stoppers, RequestExitGame(s) PROVE HandOver'
    BY <2>1 DEF RequestExitGame
  <2>2. CASE KeyboardText \/ OnClose
    BY <2>2 DEF KeyboardText, OnClose, InLoop, MainGoto
  <2>3. CASE GameCreatesThread
    <3>1. moved' = moved /\ spawned' = spawned \cup {"worker"}
      BY <2>3 DEF GameCreatesThread, PthreadCreate
    <3> QED
      BY <2>3, <3>1 DEF GameCreatesThread
  <2> QED
    BY <1>3, <2>1, <2>2, <2>3 DEF UserOrGame
<1>4. CASE RpcImport
  <2>1. moved' = moved /\ spawned' \in {spawned, spawned \cup {"worker"}}
    BY <1>4 DEF RpcImport, PthreadCreate
  <2> QED
    BY <1>4, <2>1 DEF RpcImport
<1>5. ASSUME NEW s \in Stoppers, StopThread(s) PROVE HandOver'
  <2> USE DEF StopUnchanged
  <2>1. CASE StopCallbacks(s)
    BY <2>1 DEF StopCallbacks, StopCall, StopAwait, WriteCmd
  <2>2. CASE FreeApp(s)
    BY <2>2 DEF FreeApp, Processed
  <2>3. CASE WaitLooper(s) \/ UseAfterFree
    BY <2>3 DEF WaitLooper, UseAfterFree
  <2> QED
    BY <1>5, <2>1, <2>2, <2>3 DEF StopThread
<1>6. CASE UNCHANGED vars
  BY <1>6 DEF vars
<1> QED
  BY <1>1, <1>2, <1>3, <1>4, <1>5, <1>6 DEF Next, Terminated

(* So is what the stop threads rely on.                                    *)
LEMMA StopProgressStep ==
  TypeOK /\ HandOver /\ StopProgress /\ Alive /\ [Next]_vars => StopProgress'
<1> SUFFICES ASSUME TypeOK, HandOver, StopProgress, Alive, [Next]_vars PROVE StopProgress'
  OBVIOUS
<1> USE DEF StopProgress, MainLeft
<1>1. CASE StartThread
  <2>1. UNCHANGED <<mainPc, stopPc, looperRunning>>
    BY <1>1 DEF StartThread, StoreStartThreadId, CreateActivity, OnCreate, OnCreateReturns,
                StartCallbacks, StartCall, StartAwait, AfterStart, TextLoop, UseAfterFree,
                StartUnchanged
  <2>2. app' = app \/ (app = "none" /\ app' = "created")
    BY <1>1 DEF StartThread, StoreStartThreadId, CreateActivity, OnCreate, OnCreateReturns,
                StartCallbacks, StartCall, StartAwait, WriteCmd, AfterStart, TextLoop,
                UseAfterFree, HandOver, BeforeCreate
  <2> QED
    BY <2>1, <2>2
<1>2. CASE MainThread
  <2> USE DEF MainGoto
  <2>1. CASE BindRpc \/ ExecuteMainThread \/ OnWindowCreated
    BY <2>1 DEF BindRpc, ExecuteMainThread, OnWindowCreated
  <2>2. CASE Prepare
    BY <2>2 DEF Prepare, SetLooperRunning
  <2>3. CASE SignalRunning
    BY <2>3 DEF SignalRunning, HandOver, MainRan
  <2>4. CASE ProcessCmd
    BY <2>4 DEF ProcessCmd
  <2>5. CASE LeaveGameMain
    BY <2>5 DEF LeaveGameMain
  <2>6. CASE LooperStopped
    BY <2>6 DEF LooperStopped, SetLooperRunning
  <2>7. CASE ExitProcess
    BY <2>7 DEF ExitProcess
  <2> QED
    BY <1>2, <2>1, <2>2, <2>3, <2>4, <2>5, <2>6, <2>7 DEF MainThread
<1>3. CASE UserOrGame
  <2>1. ASSUME NEW s \in Stoppers, RequestExitGame(s) PROVE StopProgress'
    BY <2>1 DEF RequestExitGame, TypeOK
  <2>2. CASE KeyboardText \/ GameCreatesThread
    BY <2>2 DEF KeyboardText, GameCreatesThread
  <2>3. CASE OnClose
    BY <2>3 DEF OnClose, MainGoto
  <2> QED
    BY <1>3, <2>1, <2>2, <2>3 DEF UserOrGame
<1>4. CASE RpcImport
  BY <1>4 DEF RpcImport
<1>5. ASSUME NEW s \in Stoppers, StopThread(s) PROVE StopProgress'
  <2> USE DEF StopUnchanged, TypeOK
  <2>1. CASE StopCallbacks(s)
    BY <2>1 DEF StopCallbacks, StopCall, StopAwait, WriteCmd
  <2>2. CASE FreeApp(s)
    BY <2>2 DEF FreeApp, Processed
  <2>3. CASE WaitLooper(s)
    BY <2>3 DEF WaitLooper
  <2>4. CASE UseAfterFree
    BY <2>4 DEF UseAfterFree
  <2> QED
    BY <1>5, <2>1, <2>2, <2>3, <2>4 DEF StopThread
<1>6. CASE UNCHANGED vars
  BY <1>6 DEF vars
<1> QED
  BY <1>1, <1>2, <1>3, <1>4, <1>5, <1>6 DEF Next, Terminated

(* Only a step that writes or processes a command, moves a stop thread or  *)
(* frees the glue's state can disturb FreedBy.                             *)
LEMMA FreedByFrame ==
  ASSUME FreedBy, UNCHANGED <<cmds, appWindow, stopPc>>,
         app' = "freed" => app = "freed",
         startPc \in AfterWindow => startPc' \in AfterWindow
  PROVE  FreedBy'
<1>1. (app = "freed" => \E s \in Stoppers : stopPc[s] \in {"waitLooper", "done"})'
  BY DEF FreedBy
<1>2. ((\E s \in Stoppers : stopPc[s] # "idle") => EarlyFinish \/ appWindow)'
  BY DEF FreedBy
<1>3. (appWindow \/ (\E i \in 1..Len(cmds) : cmds[i] = "window") => startPc \in AfterWindow)'
  BY DEF FreedBy
<1> QED
  BY <1>1, <1>2, <1>3 DEF FreedBy

(* And who can have freed the glue's state.                                *)
LEMMA FreedByStep ==
  TypeOK /\ FreedBy /\ Alive /\ [Next]_vars => FreedBy'
<1> SUFFICES ASSUME TypeOK, FreedBy, Alive, [Next]_vars PROVE FreedBy'
  OBVIOUS
<1>1. CASE StartThread
  <2> USE DEF StartUnchanged
  <2>1. CASE StoreStartThreadId \/ CreateActivity \/ OnCreate
    BY <2>1, FreedByFrame DEF StoreStartThreadId, CreateActivity, OnCreate, AfterWindow
  <2>2. CASE OnCreateReturns \/ AfterStart \/ TextLoop \/ UseAfterFree
    BY <2>2, FreedByFrame DEF OnCreateReturns, AfterStart, TextLoop, UseAfterFree, AfterWindow
  <2>3. CASE StartCallbacks
    <3>1. ASSUME NEW from, NEW cmd \in Commands, NEW to, StartCall(from, cmd, to),
                 from \notin AfterWindow, cmd = "window" => to \in AfterWindow
          PROVE  FreedBy'
      <4>1. cmds \in Seq(Commands) /\ cmds' = Append(cmds, cmd)
        BY <3>1 DEF StartCall, WriteCmd, TypeOK
      <4>2. \A i \in 1..Len(cmds') :
              cmds'[i] = cmd \/ (i \in 1..Len(cmds) /\ cmds'[i] = cmds[i])
        BY <4>1
      <4>3. ~appWindow /\ ~(\E i \in 1..Len(cmds) : cmds[i] = "window")
        BY <3>1 DEF StartCall, FreedBy
      <4>4. UNCHANGED <<app, stopPc, appWindow>> /\ startPc' = to
        BY <3>1 DEF StartCall, WriteCmd
      <4>5. (\E i \in 1..Len(cmds') : cmds'[i] = "window") => startPc' \in AfterWindow
        BY <3>1, <4>2, <4>3, <4>4
      <4> QED
        BY <4>3, <4>4, <4>5 DEF FreedBy
    <3>2. ASSUME NEW from, NEW cmd, NEW to, StartAwait(from, cmd, to),
                 from \in AfterWindow => to \in AfterWindow
          PROVE  FreedBy'
      BY <3>2, FreedByFrame DEF StartAwait
    <3>3. CASE StartCall("onInputQueueCreated", "input", "awaitInput")
      BY <3>1, <3>3 DEF Commands, AfterWindow
    <3>4. CASE StartCall("onStart", "start", "awaitStart")
      BY <3>1, <3>4 DEF Commands, AfterWindow
    <3>5. CASE StartCall("onNativeWindowCreated", "window", "awaitWindow")
      BY <3>1, <3>5 DEF Commands, AfterWindow
    <3>6. CASE StartAwait("awaitInput", "input", "onStart")
      BY <3>2, <3>6 DEF AfterWindow
    <3>7. CASE StartAwait("awaitStart", "start", "onNativeWindowCreated")
      BY <3>2, <3>7 DEF AfterWindow
    <3>8. CASE StartAwait("awaitWindow", "window", "afterStart")
      BY <3>2, <3>8 DEF AfterWindow
    <3> QED
      BY <2>3, <3>3, <3>4, <3>5, <3>6, <3>7, <3>8 DEF StartCallbacks
  <2> QED
    BY <1>1, <2>1, <2>2, <2>3 DEF StartThread
<1>2. CASE MainThread
  <2> USE DEF MainGoto
  <2>1. CASE BindRpc \/ ExecuteMainThread \/ Prepare \/ OnWindowCreated
    BY <2>1, FreedByFrame DEF BindRpc, ExecuteMainThread, Prepare, OnWindowCreated
  <2>2. CASE SignalRunning \/ LeaveGameMain \/ LooperStopped \/ ExitProcess
    BY <2>2, FreedByFrame DEF SignalRunning, LeaveGameMain, LooperStopped, ExitProcess
  <2>3. CASE ProcessCmd
    <3>1. cmds \in Seq(Commands) /\ cmds # <<>> /\ cmds' = Tail(cmds)
      BY <2>3 DEF ProcessCmd, TypeOK
    <3>2. \A i \in 1..Len(cmds') : i + 1 \in 1..Len(cmds) /\ cmds'[i] = cmds[i + 1]
      BY <3>1
    <3>3. appWindow' => appWindow \/ cmds[1] = "window"
      <4>1. appWindow' = (appWindow \/ Head(cmds) = "window")
        BY <2>3 DEF ProcessCmd
      <4>2. Head(cmds) = cmds[1]
        BY <3>1
      <4> QED
        BY <4>1, <4>2
    <3>4. 1 \in 1..Len(cmds)
      BY <3>1
    <3>5. appWindow' \/ (\E i \in 1..Len(cmds') : cmds'[i] = "window")
            => appWindow \/ (\E i \in 1..Len(cmds) : cmds[i] = "window")
      BY <3>2, <3>3, <3>4
    <3>6. appWindow => appWindow'
      BY <2>3 DEF ProcessCmd
    <3> QED
      BY <2>3, <3>5, <3>6 DEF ProcessCmd, FreedBy
  <2> QED
    BY <1>2, <2>1, <2>2, <2>3 DEF MainThread
<1>3. CASE UserOrGame
  <2>1. ASSUME NEW s \in Stoppers, RequestExitGame(s) PROVE FreedBy'
    BY <2>1 DEF RequestExitGame, TypeOK, FreedBy
  <2>2. CASE KeyboardText \/ GameCreatesThread \/ OnClose
    BY <2>2, FreedByFrame DEF KeyboardText, GameCreatesThread, OnClose, MainGoto
  <2> QED
    BY <1>3, <2>1, <2>2 DEF UserOrGame
<1>4. CASE RpcImport
  BY <1>4, FreedByFrame DEF RpcImport
<1>5. ASSUME NEW s \in Stoppers, StopThread(s) PROVE FreedBy'
  <2> USE DEF StopUnchanged
  <2>1. ASSUME NEW from \in StopPcs \ {"idle", "waitLooper", "done"},
               NEW cmd \in Commands \ {"window"}, NEW to, StopCall(s, from, cmd, to)
        PROVE  FreedBy'
    <3>1. cmds \in Seq(Commands) /\ cmds' = Append(cmds, cmd)
      BY <2>1 DEF StopCall, WriteCmd, TypeOK
    <3>2. \A i \in 1..Len(cmds') :
            cmds'[i] = cmd \/ (i \in 1..Len(cmds) /\ cmds'[i] = cmds[i])
      BY <3>1
    <3>3. UNCHANGED <<app, appWindow, startPc>> /\ app # "freed"
      BY <2>1 DEF StopCall, WriteCmd, StopUnchanged
    <3>4. stopPc[s] # "idle"
      BY <2>1 DEF StopCall
    <3>5. (\E i \in 1..Len(cmds') : cmds'[i] = "window")
            => \E i \in 1..Len(cmds) : cmds[i] = "window"
      BY <2>1, <3>2
    <3> QED
      BY <3>3, <3>4, <3>5 DEF FreedBy
  <2>2. ASSUME NEW from \in StopPcs \ {"idle", "waitLooper", "done"},
               NEW cmd, NEW to, StopAwait(s, from, cmd, to)
        PROVE  FreedBy'
    BY <2>2 DEF StopAwait, TypeOK, FreedBy
  <2>3. CASE StopCallbacks(s)
    BY <2>1, <2>2, <2>3 DEF StopCallbacks, StopPcs, Commands
  <2>4. CASE FreeApp(s)
    BY <2>4 DEF FreeApp, TypeOK, FreedBy
  <2>5. CASE WaitLooper(s)
    BY <2>5 DEF WaitLooper, TypeOK, FreedBy
  <2>6. CASE UseAfterFree
    BY <2>6, FreedByFrame DEF UseAfterFree
  <2> QED
    BY <1>5, <2>3, <2>4, <2>5, <2>6 DEF StopThread
<1>6. CASE UNCHANGED vars
  BY <1>6, FreedByFrame DEF vars
<1> QED
  BY <1>1, <1>2, <1>3, <1>4, <1>5, <1>6 DEF Next, Terminated

(* No handle is used before it is published, and an access to the freed    *)
(* glue has one of the known causes.                                       *)
LEMMA FaultStep ==
  TypeOK /\ HandOver /\ FreedBy /\ Alive /\ [Next]_vars
    => HandlesPublished' /\ OnlyKnownFaults'
<1> SUFFICES ASSUME TypeOK, HandOver, FreedBy, Alive, [Next]_vars
             PROVE  HandlesPublished' /\ OnlyKnownFaults'
  OBVIOUS
<1>1. fault = "none"
  BY DEF Alive
<1>2. CASE fault' = "none"
  BY <1>2 DEF HandlesPublished, OnlyKnownFaults
<1>3. CASE StartUsesApp /\ UseAfterFree
  <2>1. PICK s \in Stoppers : stopPc[s] \in {"waitLooper", "done"}
    BY <1>3 DEF UseAfterFree, FreedBy
  <2>2. EarlyFinish \/ startPc \in AfterWindow
    BY <2>1 DEF FreedBy
  <2> QED
    BY <1>3, <2>2 DEF UseAfterFree, StartUsesApp, AfterWindow, HandlesPublished,
                      OnlyKnownFaults
<1>4. ASSUME NEW t \in Stoppers, StopUsesApp(t), UseAfterFree
      PROVE  HandlesPublished' /\ OnlyKnownFaults'
  <2>1. PICK s \in Stoppers : stopPc[s] \in {"waitLooper", "done"}
    BY <1>4 DEF UseAfterFree, FreedBy
  <2>2. s # t /\ stopPc[s] # "idle" /\ stopPc[t] # "idle"
    BY <1>4, <2>1 DEF StopUsesApp
  <2> QED
    BY <1>4, <2>2 DEF UseAfterFree, HandlesPublished, OnlyKnownFaults
<1>5. CASE StartCallbacks
  BY <1>1, <1>2, <1>5 DEF StartCallbacks, StartCall, StartAwait, HandleFault, HandOver,
                          BeforeCreate
<1>6. CASE OnWindowCreated
  <2>1. mainPc = "onWindowCreated" /\ moved # <<>>
    BY <1>6 DEF OnWindowCreated, MainGoto, HandOver
  <2>2. activity
    BY <2>1 DEF HandOver, BeforeCreate
  <2> QED
    BY <1>1, <1>2, <1>6, <2>2 DEF OnWindowCreated
<1>7. CASE RpcImport
  BY <1>1, <1>2, <1>7 DEF RpcImport, HandOver, HandlesPublished, OnlyKnownFaults
<1>8. CASE StoreStartThreadId \/ CreateActivity \/ OnCreate \/ OnCreateReturns
           \/ AfterStart \/ TextLoop
  BY <1>1, <1>2, <1>8 DEF StoreStartThreadId, CreateActivity, OnCreate, OnCreateReturns,
                          AfterStart, TextLoop
<1>9. CASE BindRpc \/ ExecuteMainThread \/ Prepare \/ SignalRunning \/ ProcessCmd
           \/ LeaveGameMain \/ LooperStopped \/ ExitProcess
  BY <1>1, <1>2, <1>9 DEF BindRpc, ExecuteMainThread, Prepare, SignalRunning, ProcessCmd,
                          LeaveGameMain, LooperStopped, ExitProcess
<1>10. CASE UserOrGame
  BY <1>1, <1>2, <1>10 DEF UserOrGame, RequestExitGame, KeyboardText, GameCreatesThread,
                           OnClose
<1>11. ASSUME NEW s \in Stoppers, StopCallbacks(s) \/ FreeApp(s) \/ WaitLooper(s)
       PROVE  HandlesPublished' /\ OnlyKnownFaults'
  BY <1>1, <1>2, <1>11 DEF StopCallbacks, StopCall, StopAwait, FreeApp, WaitLooper,
                           StopUnchanged
<1>12. CASE UNCHANGED vars
  BY <1>1, <1>2, <1>12 DEF vars
<1> QED
  BY <1>3, <1>4, <1>5, <1>6, <1>7, <1>8, <1>9, <1>10, <1>11, <1>12
     DEF Next, Terminated, StartThread, MainThread, StopThread

(* The process is gone after a fault or an exit: nothing changes any more. *)
LEMMA DeadStep == LifecycleInv /\ ~Alive /\ [Next]_vars => UNCHANGED vars
  BY DEF Next, Terminated

(* The invariant is inductive.                                             *)
LEMMA InvStep == LifecycleInv /\ [Next]_vars => LifecycleInv'
<1>1. LifecycleInv /\ UNCHANGED vars => LifecycleInv'
  <2> SUFFICES ASSUME LifecycleInv, UNCHANGED vars PROVE LifecycleInv'
    OBVIOUS
  <2>1. TypeOK' /\ HandOver'
    BY DEF LifecycleInv, TypeOK, HandOver, vars
  <2>2. StopProgress' /\ HandlesPublished' /\ OnlyKnownFaults'
    BY DEF LifecycleInv, StopProgress, HandlesPublished, OnlyKnownFaults, vars
  <2>3. FreedBy'
    BY FreedByFrame DEF LifecycleInv, vars
  <2> QED
    BY <2>1, <2>2, <2>3 DEF LifecycleInv
<1> QED
  BY <1>1, DeadStep, TypeStep, HandOverStep, StopProgressStep, FreedByStep, FaultStep
     DEF LifecycleInv

(* Every reachable state satisfies the inductive invariant.                *)
THEOREM Invariance == Spec => []LifecycleInv
  BY InitInv, InvStep, PTL DEF Spec

(* Every variable stays in its range; main_thread_promise takes one value. *)
THEOREM TypeCorrect == Spec => []TypeOK
<1>1. LifecycleInv => TypeOK
  BY DEF LifecycleInv
<1> QED
  BY <1>1, Invariance, PTL

(* The "Note on thread safety" of onWindowCreated holds: no window, queue  *)
(* or activity is used before it is stored.                                *)
THEOREM PublishedBeforeUse == Spec => []HandlesPublished
<1>1. LifecycleInv => HandlesPublished
  BY DEF LifecycleInv
<1> QED
  BY <1>1, Invariance, PTL

(* ThreadMover hands over the game's main loop and nothing else.           *)
THEOREM MovesOnlyGameMain == Spec => []OnlyGameMainMoved
<1>1. LifecycleInv => OnlyGameMainMoved
  BY DEF LifecycleInv, HandOver, OnlyGameMainMoved
<1> QED
  BY <1>1, Invariance, PTL

(* stopGame outlives the looper, onDestroy the game's main loop.           *)
THEOREM StopOutlivesLooper == Spec => []StopWaitsForLooper
<1>1. LifecycleInv => StopWaitsForLooper
  BY DEF LifecycleInv, StopProgress, StopWaitsForLooper, MainLeft
<1> QED
  BY <1>1, Invariance, PTL

(* The invalid accesses are the ones OnlyKnownFaults names.                *)
THEOREM FaultsKnown == Spec => []OnlyKnownFaults
<1>1. LifecycleInv => OnlyKnownFaults
  BY DEF LifecycleInv
<1> QED
  BY <1>1, Invariance, PTL

-----------------------------------------------------------------------------
(* The start command is sent once, and no stop command before the window    *)
(* was handed over, which comes after the start command was obeyed.         *)
Queued(cmd) == \E i \in 1..Len(cmds) : cmds[i] = cmd
Late == AfterWindow \cup {"onNativeWindowCreated"}

StartOnce ==
  /\ startPc \in Late => ~Queued("start")
  /\ startPc \notin Late \cup {"awaitStart"} => ~Queued("start") /\ activityState # "start"
  /\ startPc = "awaitStart" =>
       /\ \A i, j \in 1..Len(cmds) : cmds[i] = "start" /\ cmds[j] = "start" => i = j
       /\ activityState = "start" => ~Queued("start")
  /\ activityState = "stop" \/ Queued("stop") => startPc \in AfterWindow

LEMMA StartOnceInit == Init => StartOnce
<1>1. Len(<<>>) = 0
  BY EmptySeq
<1> QED
  BY <1>1 DEF Init, StartOnce, Queued, Late, AfterWindow

LEMMA StartOnceFrame ==
  ASSUME StartOnce, UNCHANGED <<cmds, activityState>>,
         \/ startPc' = startPc
         \/ startPc \in Late /\ startPc' \in Late
            /\ (startPc \in AfterWindow => startPc' \in AfterWindow)
         \/ startPc \notin Late \cup {"awaitStart"} /\ startPc' \notin Late \cup {"awaitStart"}
         \/ startPc = "awaitStart" /\ startPc' \in Late /\ activityState = "start"
  PROVE  StartOnce'
<1>1. \A cmd : Queued(cmd)' <=> Queued(cmd)
  BY DEF Queued
<1>2. AfterWindow \subseteq Late /\ "awaitStart" \notin Late
  BY DEF Late, AfterWindow
<1>3. (startPc \in Late => ~Queued("start"))'
  BY <1>1, <1>2 DEF StartOnce
<1>4. (startPc \notin Late \cup {"awaitStart"} => ~Queued("start") /\ activityState # "start")'
  BY <1>1, <1>2 DEF StartOnce
<1>5. (startPc = "awaitStart" =>
         /\ \A i, j \in 1..Len(cmds) : cmds[i] = "start" /\ cmds[j] = "start" => i = j
         /\ activityState = "start" => ~Queued("start"))'
  BY <1>1, <1>2 DEF StartOnce
<1>6. (activityState = "stop" \/ Queued("stop") => startPc \in AfterWindow)'
  BY <1>1, <1>2 DEF StartOnce
<1> QED
  BY <1>3, <1>4, <1>5, <1>6 DEF StartOnce

(* A command more in the queue.                                             *)
LEMMA QueuedMore ==
  ASSUME cmds \in Seq(Commands), NEW c \in Commands, cmds' = Append(cmds, c)
  PROVE  /\ \A cmd : Queued(cmd)' <=> (Queued(cmd) \/ cmd = c)
         /\ Len(cmds') = Len(cmds) + 1 /\ cmds'[Len(cmds) + 1] = c
         /\ \A i \in 1..Len(cmds) : cmds'[i] = cmds[i]
<1>1. /\ Len(cmds') = Len(cmds) + 1 /\ cmds'[Len(cmds) + 1] = c /\ Len(cmds) \in Nat
      /\ \A i \in 1..Len(cmds) : cmds'[i] = cmds[i]
  BY AppendProperties
<1>2. ASSUME NEW cmd PROVE Queued(cmd)' <=> (Queued(cmd) \/ cmd = c)
  BY <1>1 DEF Queued
<1> QED
  BY <1>1, <1>2

LEMMA StartCallOnce ==
  ASSUME TypeOK, StartOnce, NEW from, NEW cmd \in Commands, NEW to, StartCall(from, cmd, to),
         \/ from = "onInputQueueCreated" /\ cmd = "input" /\ to = "awaitInput"
         \/ from = "onStart" /\ cmd = "start" /\ to = "awaitStart"
         \/ from = "onNativeWindowCreated" /\ cmd = "window" /\ to = "awaitWindow"
  PROVE  StartOnce'
<1>1. /\ cmds \in Seq(Commands) /\ cmds' = Append(cmds, cmd)
      /\ activityState' = activityState /\ startPc = from /\ startPc' = to
  BY DEF StartCall, WriteCmd, TypeOK
<1>2. /\ \A c : Queued(c)' <=> (Queued(c) \/ c = cmd)
      /\ Len(cmds') = Len(cmds) + 1 /\ cmds'[Len(cmds) + 1] = cmd
      /\ \A i \in 1..Len(cmds) : cmds'[i] = cmds[i]
  BY <1>1, QueuedMore
<1>3. CASE from = "onInputQueueCreated"
  BY <1>1, <1>2, <1>3 DEF StartOnce, Late, AfterWindow
<1>4. CASE from = "onNativeWindowCreated"
  BY <1>1, <1>2, <1>4 DEF StartOnce, Late, AfterWindow
<1>5. CASE from = "onStart"
  <2>1. ~Queued("start") /\ activityState # "start" /\ ~Queued("stop") /\ activityState # "stop"
    BY <1>1, <1>5 DEF StartOnce, Late, AfterWindow
  <2>2. ~Queued("stop")' /\ activityState' \notin {"start", "stop"} /\ startPc' = "awaitStart"
    BY <1>1, <1>2, <1>5, <2>1
  <2>3. ASSUME NEW i \in 1..Len(cmds'), cmds'[i] = "start" PROVE i = Len(cmds) + 1
    <3>1. Len(cmds) \in Nat
      BY <1>1
    <3> SUFFICES ASSUME i # Len(cmds) + 1 PROVE FALSE
      OBVIOUS
    <3>2. i \in 1..Len(cmds)
      BY <1>2, <3>1
    <3>3. cmds[i] = "start"
      BY <1>2, <2>3, <3>2
    <3> QED
      BY <2>1, <3>2, <3>3 DEF Queued
  <2> QED
    BY <2>2, <2>3 DEF StartOnce, Late, AfterWindow
<1> QED
  BY <1>3, <1>4, <1>5

LEMMA StopCallOnce ==
  ASSUME ~EarlyFinish, TypeOK, FreedBy, StartOnce, NEW s \in Stoppers, NEW from, from # "idle",
         NEW cmd \in Commands \ {"start"}, NEW to, StopCall(s, from, cmd, to)
  PROVE  StartOnce'
<1>1. /\ cmds \in Seq(Commands) /\ cmds' = Append(cmds, cmd)
      /\ UNCHANGED <<activityState, startPc>>
  BY DEF StopCall, WriteCmd, StopUnchanged, TypeOK
<1>2. \A c : Queued(c)' <=> (Queued(c) \/ c = cmd)
  BY <1>1, QueuedMore
<1>3. startPc \in AfterWindow
  BY DEF StopCall, FreedBy
<1>4. startPc' \in Late /\ startPc' \in AfterWindow /\ startPc' # "awaitStart"
  BY <1>1, <1>3 DEF Late, AfterWindow
<1>5. ~Queued("start")'
  BY <1>1, <1>2, <1>4 DEF StartOnce
<1> QED
  BY <1>4, <1>5 DEF StartOnce

LEMMA ProcessCmdOnce ==
  ASSUME TypeOK, StartOnce, ProcessCmd
  PROVE  StartOnce' /\ (activityState = "stop" => activityState' # "start")
<1>1. cmds \in Seq(Commands) /\ cmds # <<>> /\ cmds' = Tail(cmds) /\ startPc' = startPc
  BY DEF ProcessCmd, TypeOK, threadVars
<1>2. /\ Len(cmds) \in Nat /\ Len(cmds) > 0 /\ Len(cmds') = Len(cmds) - 1
      /\ \A i \in 1..Len(cmds') : cmds'[i] = cmds[i + 1]
      /\ Head(cmds) = cmds[1]
  BY <1>1, HeadTailProperties
<1>3. \A c : Queued(c)' => Queued(c)
  <2> SUFFICES ASSUME NEW c, NEW i \in 1..Len(cmds'), cmds'[i] = c PROVE Queued(c)
    BY DEF Queued
  <2>1. i + 1 \in 1..Len(cmds) /\ cmds[i + 1] = c
    BY <1>2
  <2> QED
    BY <2>1 DEF Queued
<1>4. Queued(Head(cmds))
  <2>1. 1 \in 1..Len(cmds)
    BY <1>2
  <2> QED
    BY <1>2, <2>1 DEF Queued
<1>5. activityState' \in {activityState, Head(cmds)}
  BY DEF ProcessCmd
<1>6. activityState' = "start" => activityState = "start" \/ Head(cmds) = "start"
  BY <1>5
<1>7. (startPc \in Late => ~Queued("start"))'
  BY <1>1, <1>3 DEF StartOnce
<1>8. (startPc \notin Late \cup {"awaitStart"} => ~Queued("start") /\ activityState # "start")'
  BY <1>1, <1>3, <1>4, <1>6 DEF StartOnce
<1>9. ASSUME startPc' = "awaitStart"
      PROVE  /\ \A i, j \in 1..Len(cmds') : cmds'[i] = "start" /\ cmds'[j] = "start" => i = j
             /\ activityState' = "start" => ~Queued("start")'
  <2>1. /\ \A i, j \in 1..Len(cmds) : cmds[i] = "start" /\ cmds[j] = "start" => i = j
        /\ activityState = "start" => ~Queued("start")
    BY <1>1, <1>9 DEF StartOnce
  <2>2. ASSUME NEW i \in 1..Len(cmds'), NEW j \in 1..Len(cmds'),
               cmds'[i] = "start", cmds'[j] = "start"
        PROVE  i = j
    <3>1. i + 1 \in 1..Len(cmds) /\ j + 1 \in 1..Len(cmds)
      BY <1>2
    <3>2. cmds[i + 1] = "start" /\ cmds[j + 1] = "start"
      BY <1>2, <2>2
    <3>3. i + 1 = j + 1
      BY <2>1, <3>1, <3>2
    <3> QED
      BY <1>2, <3>3
  <2>3. ASSUME activityState' = "start", Queued("start")' PROVE FALSE
    <3>1. PICK i \in 1..Len(cmds') : cmds'[i] = "start"
      BY <2>3 DEF Queued
    <3>2. i + 1 \in 1..Len(cmds) /\ 1 \in 1..Len(cmds) /\ i + 1 # 1 /\ cmds[i + 1] = "start"
      BY <1>2, <3>1
    <3>3. cmds[1] = "start"
      BY <1>2, <1>3, <1>6, <2>1, <2>3
    <3> QED
      BY <2>1, <3>2, <3>3
  <2> QED
    BY <2>2, <2>3
<1>10. (activityState = "stop" \/ Queued("stop") => startPc \in AfterWindow)'
  BY <1>1, <1>3, <1>4, <1>5 DEF StartOnce
<1>11. activityState = "stop" => activityState' # "start"
  <2> SUFFICES ASSUME activityState = "stop", Head(cmds) = "start" PROVE FALSE
    BY <1>6
  <2>1. startPc \in Late /\ Queued("start")
    BY <1>4 DEF StartOnce, Late
  <2> QED
    BY <2>1 DEF StartOnce
<1> QED
  BY <1>7, <1>8, <1>9, <1>10, <1>11 DEF StartOnce

LEMMA StartOnceStep ==
  ASSUME ~EarlyFinish, LifecycleInv, StartOnce, [Next]_vars
  PROVE  StartOnce' /\ (activityState = "stop" => activityState' # "start")
<1> DEFINE Still == activityState' = activityState
<1>0. TypeOK /\ FreedBy
  BY DEF LifecycleInv
<1>1. CASE StartThread
  <2> USE DEF StartUnchanged
  <2>1. Still
    BY <1>1 DEF StartThread, StoreStartThreadId, CreateActivity, OnCreate, OnCreateReturns,
                StartCallbacks, StartCall, StartAwait, AfterStart, TextLoop, UseAfterFree,
                WriteCmd, glueVars
  <2>2. CASE StoreStartThreadId \/ CreateActivity \/ OnCreate \/ OnCreateReturns
    BY <2>2, StartOnceFrame DEF StoreStartThreadId, CreateActivity, OnCreate, OnCreateReturns,
       glueVars, Late, AfterWindow
  <2>3. CASE AfterStart \/ TextLoop \/ UseAfterFree
    BY <2>3, StartOnceFrame DEF AfterStart, TextLoop, UseAfterFree, threadVars, glueVars,
       Late, AfterWindow
  <2>4. CASE StartCallbacks
    <3>0. {"input", "start", "window"} \subseteq Commands
      BY DEF Commands
    <3>1. ASSUME StartCall("onInputQueueCreated", "input", "awaitInput")
          PROVE  StartOnce'
      BY <1>0, <3>0, <3>1, StartCallOnce, Zenon
    <3>2. ASSUME StartCall("onStart", "start", "awaitStart")
          PROVE  StartOnce'
      BY <1>0, <3>0, <3>2, StartCallOnce, Zenon
    <3>3. ASSUME StartCall("onNativeWindowCreated", "window", "awaitWindow")
          PROVE  StartOnce'
      BY <1>0, <3>0, <3>3, StartCallOnce, Zenon
    <3>4. CASE \/ StartAwait("awaitInput", "input", "onStart")
               \/ StartAwait("awaitWindow", "window", "afterStart")
      BY <3>4, StartOnceFrame DEF StartAwait, glueVars, Late, AfterWindow
    <3>5. CASE StartAwait("awaitStart", "start", "onNativeWindowCreated")
      BY <3>5, StartOnceFrame DEF StartAwait, Processed, glueVars, Late, AfterWindow
    <3> QED
      BY <2>1, <2>4, <3>1, <3>2, <3>3, <3>4, <3>5 DEF StartCallbacks
  <2> QED
    BY <1>1, <2>1, <2>2, <2>3, <2>4 DEF StartThread
<1>2. CASE MainThread
  <2> USE DEF MainGoto, glueVars
  <2>1. CASE ProcessCmd
    BY <1>0, <2>1, ProcessCmdOnce
  <2>2. CASE BindRpc \/ ExecuteMainThread \/ Prepare \/ OnWindowCreated
    BY <2>2, StartOnceFrame DEF BindRpc, ExecuteMainThread, Prepare, OnWindowCreated
  <2>3. CASE SignalRunning \/ LeaveGameMain \/ LooperStopped \/ ExitProcess
    BY <2>3, StartOnceFrame DEF SignalRunning, LeaveGameMain, LooperStopped, ExitProcess
  <2> QED
    BY <1>2, <2>1, <2>2, <2>3 DEF MainThread
<1>3. CASE UserOrGame
  BY <1>3, StartOnceFrame DEF UserOrGame, RequestExitGame, KeyboardText, GameCreatesThread,
     OnClose, MainGoto, threadVars, glueVars
<1>4. CASE RpcImport
  BY <1>4, StartOnceFrame DEF RpcImport, threadVars, glueVars
<1>5. ASSUME NEW s \in Stoppers, StopThread(s)
      PROVE  StartOnce' /\ (activityState = "stop" => activityState' # "start")
  <2>1. Still
    BY <1>5 DEF StopThread, StopCallbacks, StopCall, StopAwait, FreeApp, WaitLooper,
                UseAfterFree, WriteCmd, glueVars
  <2>2. ASSUME NEW from \in StopPcs \ {"idle"}, NEW cmd \in Commands \ {"start"}, NEW to,
               StopCall(s, from, cmd, to)
        PROVE  StartOnce'
    BY <1>0, <2>2, StopCallOnce
  <2>3. ASSUME NEW from, NEW cmd, NEW to, StopAwait(s, from, cmd, to) PROVE StartOnce'
    BY <2>3, StartOnceFrame DEF StopAwait, StopUnchanged, glueVars
  <2>4. ASSUME StopCallbacks(s) PROVE StartOnce'
    BY <2>2, <2>3, <2>4 DEF StopCallbacks, StopPcs, Commands
  <2>5. CASE FreeApp(s) \/ WaitLooper(s) \/ UseAfterFree
    BY <2>5, StartOnceFrame DEF FreeApp, WaitLooper, UseAfterFree, StopUnchanged,
       threadVars, glueVars
  <2> QED
    BY <1>5, <2>1, <2>4, <2>5 DEF StopThread
<1>6. CASE UNCHANGED vars
  BY <1>6, StartOnceFrame DEF vars, threadVars, glueVars
<1> QED
  BY <1>1, <1>2, <1>3, <1>4, <1>5, <1>6 DEF Next, Terminated

(* If the game does not finish before it was given its window, a game that  *)
(* was stopped is not started again: the start callbacks of startGame are   *)
(* over when the stop callbacks of stopGame begin.                          *)
THEOREM StoppedForGood ==
  ASSUME ~EarlyFinish
  PROVE  Spec => NeverRestarted
<1>1. Init => StartOnce
  BY StartOnceInit
<1>2. LifecycleInv /\ StartOnce /\ [Next]_vars => StartOnce'
  BY StartOnceStep
<1>3. LifecycleInv /\ StartOnce /\ [Next]_vars
        => [activityState = "stop" => activityState' # "start"]_vars
  BY StartOnceStep
<1> QED
  BY <1>1, <1>2, <1>3, Invariance, PTL DEF Spec, NeverRestarted

=============================================================================
