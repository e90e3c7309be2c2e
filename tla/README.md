# A verification project for mcpelauncher-client

mcpelauncher-client runs the Android build of Minecraft on a desktop: it loads
the game's library, stands in for the parts of Android the game talks to (JNI
classes, looper, input queue, asset manager, audio, EGL), and connects them to
a desktop window. Nearly all of it runs between threads it does not own: the
game's, the window's, those of curl and of mods. There are no tests in the
repository, so what the code promises is read from the code and its comments.

Paths below are relative to `src/src/`. `PROJECT.json` maps every definition to
the lines it stands for and lists the runs, the theorems and the hazards.

## 1. Inventory

| Part | State it keeps | Operations | Talks to | What is hard |
|---|---|---|---|---|
| Start and stop of the game: `jni/jni_support.*`, `thread_mover.*`, end of `main.cpp` | the activity, window and queue handles, `looperRunning`, `gameExitVal`, the promise of ThreadMover | `startGame`, hook of `pthread_create`, `executeMainThread`, `setLooperRunning`, `onWindowCreated`, `requestExitGame`, `stopGame`, import over RPC | the game's glue code (callbacks that block), `FakeLooper`, the file RPC | five kinds of threads, handles published without a lock, a condition variable, use after free |
| Text input: `text_input_handler.*`, `utf8_util.h` | the text, cursor and selection in bytes and in characters | load, type, erase, move the cursor with Shift and Alt | `WindowCallbacks`, `MainActivity`, two callbacks to the game | unsigned offsets in two units that must agree |
| Window events, looper, input queue: `window_callbacks.*`, `fake_looper.*`, `fake_inputqueue.*` | input mode and the time of its last switch, the gamepads, cursor lock, two queues | one handler per kind of event, `pollAll`, `getEvent`, `finishEvent` | the window, the game, the overlay | filtering by mode, one motion event per poll, what the game believes held |
| Overlay, input: `imgui_ui.cpp`, handlers of `window_callbacks.cpp` | `sharedInputState` (atomics and one mutex) | handlers store, each frame samples | the window thread and the render thread | every load and store interleaves |
| Overlay, windows of mods: `imgui_ui.cpp` | `activeWindows` under one mutex | show, close, draw with callbacks | threads of mods, ImGui | callbacks under a lock, erasing while iterating |
| HTTP client: `jni/lib_http_client.*` | method, body, the options left set on the curl handle, stream offset, collected answer | two setters, `doRequestAsync`, two getters, curl's callbacks | the game's Java objects, curl, a detached thread | life time of the request, options of an earlier setter, exceptions on the way to the answer |
| Web sockets: `jni/lib_http_client_websocket.*` | the flag `connected`, the message being put together | `connect` with its thread, `sendMessage`, `disconnect` | the game, curl, the peer | an unguarded flag, chunks and control frames |
| Mod callbacks: `window_callbacks.cpp`, `fake_egl.cpp` | lists of callbacks with a mutex each | register, call | mods | a taken lock skips all callbacks |
| Audio: `fake_audio.*`, `jni/*audio.*` | a stream and its buffer | request start and stop, resize, close, SDL's callback | the game's data callback, SDL | stop, resize and close against a running callback, no lock |
| Settings: `settings.*` | variables, a list of properties, a file | load, save, F11, the menu, moving the HUDs | the window, the file system | the process may end inside a save; two threads change and save; moved HUDs change settings without a save |
| Window size: `window_callbacks.cpp`, `imgui_ui.cpp`, `fake_window.cpp`, `fake_egl.cpp` | the height of the menu bar, twice | draw, poll, resize | window, overlay, game | two sources on two threads, told by two ways |
| Text exchange: `jni/jni_support.cpp`, `jni/main_activity.cpp` | the State object of a GameActivity | `setState`, `setSoftKeyboardActive`, the loop of `startGame` | the game, the text field | compared on one thread, replaced on another |
| Sign-in window: `xal_webview_*` | two pipes and a process | `show` | mcpelauncher-webview | reads one pipe after the other; the url in the output |
| GL and EGL: `gl_core_patch.*`, `fake_egl.*` | a vertex array per program, the buffers bound last | link, use, bind; swap | the driver | stale bindings |
| Xbox Live: `xbox_live_helper.*`, `cll_upload_auth_step.*`, `jni/xbox_live.*` | client of the msa daemon, event manager | sign-in, logging, shutdown | the daemon, the game's login | every step may fail; shutdown against the rest |
| Loading of the game: `main.cpp` | graphics API, libraries, windows, mods, the handle | load, fall back, patch | linker, mod loader, the game | three attempts with other libraries |
| Asset manager: `fake_assetmanager.*` | a memory buffer with an offset | open, read, seek | the game | arithmetic at the ends |
| Everything else (patches, symbols, JNI tables, store, CPU queries, vendored GL loader) | none of its own | run once, or forward | | |

What makes each part correct:

- *Start and stop*: only the game's main loop is moved to the process' main
  thread, once; no handle is used before it is stored; the glue is not freed
  under a running main loop; a request to exit ends the process.
- *Text input*: both units denote the same place, between characters; each edit
  changes whole characters at the cursor; the game is told of each change.
- *Window events*: the game's picture of keys, fingers and pads agrees with the
  user's hands once it has read its queue, as far as the filter lets it.
- *Overlay*: text arrives once and in order, buttons are not lost for good; no
  callback is made with a window that is gone, and shown windows are drawn.
- *HTTP*: the body of the last setter and the answer whole and in order, one
  answer, no use of a destroyed request.
- *Web sockets*: whole messages in order between one onOpen and one onClose.
- *Audio*: the game fills a buffer that is the stream's and large enough, as
  long as it does not resize or close a stream that plays, and a disconnect is
  never reported for a stop the game itself asked for earlier.
- *Settings*: what was set is there at the next start, unless the process ended
  inside a save or while HUDs were moved; the window is fullscreen when the
  setting says so.
- *Window size, text exchange*: after the last change both sides agree.
- *Sign-in*: `show` returns, with a url or nothing; each request is answered
  once, whichever step fails.
- *OpenGL*: the game draws with the buffers it bound last.
- *Loading*: what the game starts with fits the attempt that succeeded.

## 2. The modules

Each `MCx.tla` gives the constants of `x.tla` their small values, and
`MCServices` composes the parts that do not interact. Each `x_proofs.tla` extends
`x.tla` with its inductive invariant, its theorems and their proofs;
`Services_proofs` does so for the parts of `MCServices`. Operators
called "Mutant" in a comment are plausible bugs kept beside the definition they
replace; no specification uses them, and each property of a passing run is
violated by one of them.

**GameLifecycle.** `startPc`, `mainPc` and `stopPc` are the program counters of
the start thread, the main thread and the detached threads of `stopGame`. One
action is one step between two points where another thread can interfere: each
life cycle callback is a call, which writes a command, and a wait, which ends
when the game's main loop has processed it (`StartCallbacks`, `StopCallbacks`).
`WaitLooper` is `gameExitCond.wait`, with `waiters` blocked in it until a
`notify_all`. The game's side of the callbacks, `android_native_app_glue`, is
not in the repository; `WriteCmd`, `ProcessCmd`, `LeaveGameMain` and `FreeApp`
say what `startGame`, `stopGame` and `FakeLooper` rely on, and are marked
external. An invalid access sets `fault` and ends the process. Assumed of the
game: the first `pthread_create` of the start thread is the glue's.

**TextInputHandler**, implementing **TextEditor**. A byte is a letter, a
separator, the lead byte of a character of two, three or four bytes, or a
continuation byte. Every handler is one action, for the code has no lock and no
callback that re-enters it. `TextEditor` is what a text field should be: a text
of whole characters, a caret and an anchor between two of them, and edits next
to the caret. `EditorSpec` is the refinement, with `Whole` instantiated by the
well-formedness of UTF-8. `setKeepLastCharOnce` has no caller, so `keepOnce` is
taken as unset. The two callbacks of `jni_support.cpp` return at once when the
text input of a GameActivity is used: `useGameActivityTextInput`, which
`startGame` sets once the game has registered its `setState`
(`ConnectTextInput`), decides that, and such a game learns of edits through
`TextExchange` only. `sentText` and `sentCaret` are what the callbacks told.

**WindowInput.** `pollAll` lets the window call handlers (`phase = "window"`)
and then returns to the game, which reads one queued event at a time. Beside
the code's variables there are the user's hands (`held...`) and the game's
picture (`game...`). `followed` holds the fingers the overlay follows or was the
last to follow. `settings` is chosen in the initial state: raw input, a
forced mode, and whether the overlay is compiled in. A stick is at rest, moved,
or past the threshold that switches the mode. A pad that was removed comes back
only when its old events have been read.

**OverlayInput.** Two threads: the window's handlers and `ImGuiUIDrawFrame`.
Each atomic of `sharedInputState` is loaded and stored in a step of its own;
what happens under `textInputMutex` is one step. `told...` is what ImGui was
told; a touch presses the left button as the mouse does (`toldLeft`), and each
of the two is compared with its own memory. The looper and the overlay both start and stop the text input of the
window.

**OverlayWindows.** Threads of mods wait for `activeWindowsLock`, the frame
tries it. A user pointer is the number of the call that passed it; `retired`
holds the pointers the mod may free. `CallbackReenters` is a callback that
shows or closes a window: the mutex is not recursive, so that frame never ends.

**HttpClientRequest.** `ref` and `me` are the two owners of the request object,
the game's reference and the thread's `anotherme`. Bodies are chunks numbered by
their place, those of a request also by the call that set them (`calls`; chunks
of call 0 were set by none). `verb`, `fields`, `size` and `input` are the options
the setters leave on the curl handle: a later setter takes none of them back, and
`FromFields`, `FromInput` and `FromStdin` say what curl then reads, in its own
order of preference. HEAD is like GET and other methods like PATCH, which only
name the request. An exception may leave the call of `OnRequestCompleted` or
`OnRequestFailed` before it reaches the game (`AnswerThrows`) or after
(`threw`); the handler answers with a failure in both cases. One that leaves the
handler ends the process and is left out. One `doRequestAsync` per request.

**HttpClientWebSocket**, implementing **WebSocketPromise**. The worker thread,
a game thread sending, one disconnecting, and the peer with its bounded `wire`.
A chunk is one return of `curl_ws_recv`; the last chunk of a message ends the
final frame. `WebSocketPromise` is the order of callbacks: one onFailure, or
onOpen, messages in order, at most one onClose. One `connect` per object.

**FakeAudio.** The game's thread calls stop, start, resize and close; SDL's
calls back. `requestStop` is two steps, for the callback may run between the
clearing of `stream->s` and `SDL_DestroyAudioStream`, which waits for it; so are
resize and close, which change size and buffer one after the other and never
look whether the stream plays. `touched` remembers that the game resized or
closed a stream it had started and not stopped. Assumed of the game: it starts
only a stream it has not started. A buffer is an address, so that a `realloc`
under a running callback is a state.

**Settings.** `save` is four steps (properties, truncation, writing to the
buffer, the flush of the close), on either thread, and `Exit` is possible in
each. Three settings stand for all: `fullscreen` (set after the truncation, and
followed by the window), `scale` (its variable starts with 0, its property with
1) and `hud`, the place of the HUDs, which every frame changes while the user
moves them (`MoveHud`) and which is saved when he stops (`StopMoving`) or with
the next change. `left` is what the process left when it ended.

**WindowSize.** `published` is what the render thread stored, `menubarsize`
what the window thread told. `startSendEvents` reads the first and tells the
game in two steps; a change of the window is queued until the next poll.

**TextExchange.** The loop of `startGame` compares, writes the object and calls
the game in three steps; the game replaces the object (`setState`) at any time.
A text is its length. Editing itself is in `TextInputHandler`.

**XalWebView.** The process writes pieces to two bounded pipes; `show` reads
each once, in order. Output is a sequence of pieces (start of a url, rest of
one, other text), enough for the search and the cutting of the url.

**GLCorePatch.** Beside the patch's two tables the state of OpenGL it relies on:
the array buffer is global, the element buffer belongs to a vertex array.

**XboxLive.** One state per request of the game, silent or through the sign-in
flow, with the daemon's answers as choices; `shutdown` drops the event manager
and the client in two steps, without their mutexes.

**LauncherStart.** `main` from the libraries to the patches, one action per
attempt; the options and what the game needs are chosen in the initial state.

**MCServices** extends `OverlayWindows` and instantiates the eight modules
above. `component`, chosen at the start, says which one runs; the others keep
one initial state. The behaviours are the sum of theirs and not the product,
which is enough because none reads what another writes.

Where modules meet: `WindowInput` has what the overlay wants as a free variable
(`wantCapture`), and `OverlayInput` has what ImGui wants as a free choice, so
each covers whatever the other does. `KeyboardText` of `GameLifecycle` stands
for any change `TextInputHandler` makes; `pollAll` of `WindowInput` runs in what
`GameLifecycle` calls the main loop.

## 3. Runs

| Run | Shows | Bounds, and why they are enough |
|---|---|---|
| `lifecycle` | the safety and liveness of start and stop | two stop threads: the hazard is that two overlap; a third adds no new pair |
| `text` | offsets agree, the game follows, `EditorSpec` | texts up to 5 bytes with characters of 1, 2 and 3 bytes typed and 4 loaded; selections, words and both kinds of edge occur |
| `text_wrap` (violated) | finding 1 | the same, with Alt+backspace on wide characters |
| `input` | sticks, buttons, cursor, what stays pressed, in four settings | one key, two fingers (one the overlay follows, one it does not), one pad, two events per poll, queues of three: a dropped and a queued event in one poll, and an event overtaken by another |
| `overlay_input` | typed text, buttons and text input, safety and liveness | five events of the user against endless frames; a handler has at most three steps |
| `overlay_touch_release` (violated) | finding 3 | three events |
| `services` | the nine parts of `MCServices`, safety and liveness | see below |
| `settings_reset` (violated) | finding 5 | the settings alone |
| `http_request` | bodies, answers | two setters, each of either kind and with or without a body, so that the second meets what the first left; bodies of three chunks, so that pieces of different sizes occur |
| `http_request_cancel` (violated) | finding 4 | the same; the game drops the request at any time |
| `websocket` | messages, callback order, disconnect | two messages of up to three chunks, three items in flight |
| `websocket_pong` (violated) | finding 2 | the same, with a PONG inside a message |

The bounds of `services`, part by part. Windows: two threads, two titles, three
calls, so one window is shown, replaced and closed while a second is drawn.
Audio: two sizes, so that the buffer grows, and two addresses, so that it
moves. Window size:
three heights, three changes, so that bar and window both change between a
reading and its use. Text: lengths 0 and 1 with cursor and selection, three
changes: an edit, a `setState` into the loop and one after it. Sign-in window:
pipes of three pieces and five writes, so that each pipe can be full and the
output can hold text, a url and text. OpenGL: two programs, two buffers, three
links, so that a program is linked again. Sign-in: two requests and a shutdown.
Settings and loading need no bound: the states are finite.

Bounds are constants named `Max...` (or sizes of pipes) and guard the
environment only: the user, the mods, the peer, the game. `input` has no bound
on how often a device changes, only on how much is queued. Deadlock is checked
except in `services` (a callback that waits for its own lock stops everything,
and mods, sign-ins and the loading come to their end) and in the HTTP and web
socket runs (a request or a connection ends).

Each module states its types as `TypeOK`, and each of these is a theorem;
`services` also checks all of its nine as `TypesOK`.

### Fairness

- `GameLifecycle`: weak fairness of the start thread, the main thread and each
  stop thread, as the scheduler gives. Nothing makes the user close the window,
  the game finish or a second launcher send a file. A wait on the condition
  variable is enabled again only by a `notify_all`.
- `OverlayInput`: frames go on and a handler that began comes to its end.
- `MCServices`: each part's threads go on. Windows: frames go on, a thread
  holding the lock returns, and strong fairness of taking the lock, which the
  frame releases after each pass; no mutex in use starves a waiter for ever.
  Window size: frames and polls. Text: a `setState` that began ends, the loop
  goes on. Sign-in window: `show` goes on and the process ends, for the user
  closes its window, unless it is blocked on a full pipe. Sign-in: a request
  that was made goes on, since the daemon and the game's login answer.
- `HttpClientRequest`: the request thread runs. That curl returns is not assumed,
  for the code sets no time limit; `Answered` is about the way to curl and the
  way from its return to the answer.
- `HttpClientWebSocket`: the worker runs, and a call of the game that began
  ends. The peer owes nothing: `DisconnectCloses` holds when it is silent.

### What the violated runs show

1. `text_wrap`: Alt+backspace stores a byte offset as the character offset
   (`text_input_handler.cpp:71`). Behind a character of several bytes it is too
   large, a backspace at the beginning passes the guard, and the unsigned start
   of the erased range wraps, in spite of the comments "unsigned int!".
2. `websocket_pong`: a PONG between two fragments ends the message under the
   comment "full message assembled" and empties the buffer.
3. `overlay_touch_release`: `onTouchEnd` sets `touchId` to -1 and the frame
   looks at the button state only for ids from 0, so ImGui is never told of the
   release: the left button, which touch and mouse share, stays down until the
   next click of the mouse. `ButtonsFollow` is the half that holds: what is not
   the mouse's is what the last touch made of it.
4. `http_request_cancel`: the thread drops its reference and tests
   `me.expired()`; nothing keeps the request alive after the test.
5. `settings_reset`: with `--reset-settings`, "Save the default Settings",
   `main` saves without loading. `save` copies the zero-initialised variables
   over the defaults of the properties: scale 0 and no vsync.

Limits of the passing runs, each at its hazard in `PROJECT.json`: `SticksFresh`
holds for one gamepad (with two, one flag serves both, and the second pad's
motion may have no event of its own); `NothingStuck` is about raw input (the
default filter can drop a release whose press was delivered);
`NeverRestarted` and `FinishExits` need a game that has its window before it
finishes (`EarlyFinish = FALSE`); an `early` disconnect, before `sendOpened` has
set the flag, is overwritten by it; and a touch that starts while the frame
clears `touchUpdated` (`imgui_ui.cpp:557`) is not told to ImGui until it moves.

The properties of `services` and of `http_request` name their exceptions, and
these are what the code does:

- two toggles of fullscreen that overlap leave window and setting apart until
  the next one, and an end of the process inside a save loses all settings;
- HUDs that are still being moved when the window is closed may lose their
  places, and nothing else is lost;
- `requestStop` can report a disconnect while it is in progress, and a resize or
  a close of a stream that plays frees or moves the buffer under the callback;
- a second setter of a request leaves `POSTFIELDS` or the stream of the first on
  the curl handle, whose memory may be gone, and a POST or a PUT without a body
  may make curl read standard input;
- a call of the game that threw is answered once more, with a failure;
- a `setState` between comparison and event leaves game and launcher with
  different texts until the next edit;
- text before the url makes `substr` cut too late, as it is given the end as a
  count, and a process that fills the pipe of its errors first blocks with
  `show` for ever;
- after `glLinkProgram` the new vertex array stays bound, and a deleted buffer
  is bound again by the next `glUseProgram`;
- a shutdown lets threads use a client or an event manager that is gone;
- `--mods` directories are not tried again after the fallback to OpenGL ES,
  unlike `mods/`;
- a mod's callback that shows or closes a window waits for its own lock.

## 4. Proofs

Every safety invariant that a passing run checks is also a theorem, for every
value of the constants that the assumptions allow: any number of threads, mods,
gamepads, fingers, requests and programs, texts, bodies and queues of any
length. `[]TypeOK` is a theorem of each module, and so are one action property
and the two refinements. The statement of every theorem in words is beside it.

None of the properties is inductive alone, and each module of proofs defines
the strengthening it needs: the lemmas are then one per action (or group of
actions), and under each one step per part of the invariant it can disturb.
TLC finds each strengthening to hold on the instance of the module's run (that
of the web socket with messages of two chunks, and with and without a PONG
inside a message).

**GameLifecycle_proofs.** `HandlesPublished`, for one, says nothing of why the
start thread finds a window. `LifecycleInv` adds

- `HandOver`: where the start thread is decides what was moved and stored; the
  glue makes it wait for the main loop, which stores the window first;
- `StopProgress`: a stop thread waits for the looper only with the glue freed,
  and the glue is freed only behind the main loop;
- `FreedBy`: who freed the glue, and that a game asked to finish only after it
  had its window, or early. This is what narrows the causes of a use after free.

`StartOnce`, proved relative to it, gives the action property `NeverRestarted`:
one start command is queued, it is obeyed before the window is handed over, and
no stop command comes earlier.

**TextInputHandler_proofs.** In a text of whole characters an *edge* is an
offset before a character or behind the last. `Place(s, p, u)` says that byte
offset `p` is an edge and `u` the number of characters in front of it, which is
what the code keeps twice. `StartsAreLeads` shows that the walks of `UTF8Util`
visit exactly the edges, `BackToEdge` and `EdgeOfCount` that the two units
determine each other, `Inserting` and `Erasing` that an edit between two edges
leaves whole characters and shifts the counts by the right amount, and
`MovesToPlace` that each movement leads from place to place. `TextInv` says that
the text is whole, that cursor and anchor are places, and that no erased range
ever wrapped. The refinement `EditorSpec` follows action by action.
`GameFollows` needs none of this: for a game told by the callbacks, each handler
that changes the text or the cursor ends in the callback.

**WindowInput_proofs.** The game sees the past: what it believes once it has
read its queue is the last word the queue has on a key, button or finger, and
what it believes now if there is none (`LastWord`). `InputInv` says that this
is what is held (`KeysTold`, and `FingersTold` for fingers not `followed`) or recorded (`ButtonsTold`). Sticks
are different, since events of theirs carry no value and one flag
(`needsQueueGamepadInput`) serves all pads: `Requeue` ties the flag to an event
in the queue, `SticksFew` allows one per poll, and `SticksTold` follows for one
gamepad. For several gamepads `ButtonsReleased` says what remains true of
`NothingStuck`.

**OverlayInput_proofs.** `TextDelivered` is stable by itself once the types
hold; the types of the shared values need `Publishing`, how far the handler of
a finger has come.

**OverlayWindows_proofs.** A pointer belongs to one call, hence to one window
or to one pending call, and is retired only when it is neither (`UsersOnce`,
`UsersLive`, `PendingFresh`); `Drawing` ties the pointer the frame calls back to
the window it draws while it holds the lock.

**HttpClientRequest_proofs.** `Given` says what the setters have left on the
handle, and `Sending` that what was sent is a beginning of the body curl reads
(`BodyContinues`: a piece continues it). `Collected` says where the chunks of the
answer are at each moment, `Answering` how far a request is and what that says
of its answer, and `Counted` that a second answer is always that of a thread
that caught what the first call threw.

**HttpClientWebSocket_proofs.** The items on the wire lead from one place in
what the peer sends to the next (`Path`); the buffer holds the chunks up to the
place where the wire begins (`Assembling`). Refinement of `WebSocketPromise`
needs only that a message handed over is the next one (`InTurn`, `Assembled`),
so it holds with a PONG inside a message too; that it is whole does not.

**Services_proofs.** A step of `MCServices` is a step of one part or leaves that
part alone (`PartSteps`); `ServicesInv` is the conjunction of nine invariants.
`FileInv` is the longest: what the thread that is alone has done of its change
and of its save (`FileAlone`), so that a file which is neither empty nor busy
says what the variables say, but for HUDs that are being moved (`Says`).
`AudioInv` bounds when SDL calls back and says that a resize or a close that
meets a playing stream is a touch, `GLInv` bounds the numbers of vertex arrays,
`XboxInv` says who took a client away, `WebViewInv` where the url comes from,
and `LauncherInv` what each attempt of `main` leaves.
`UrlOnly` needs the search for the prefix to find the first one, for output of
any length.

### Assumptions and hypotheses

Assumptions on the constants, which TLC evaluates on every run: flags are
Booleans and bounds natural numbers (`LifecycleAssumption`, `RequestAssumption`,
`WebSocketAssumption`, `OverlayAssumption`, and the like in the others).
`WindowsAssumption` keeps the two names of the free lock and of the frame out of
the set of mods, and `InputAssumption` keeps `NoPad` out of the set of gamepads
and `Settings` among the possible ones. `ServicesAssumption` asks that a read of
a pipe takes at least one piece and that 0 and 1, the two initial scales, are
scales. `TextAssumption` says that texts fit a `size_t`, and that the length of
a text that is edited is so far from its end that sums of offsets do not wrap.

Hypotheses of single theorems, each the exception that a violated run or a limit
in section 3 is about:

| Hypothesis | Needed for | Without it |
|---|---|---|
| `~EarlyFinish` | `NeverRestarted` | a game that finishes before it has its window can get the start command after the stop command |
| `TextsWhole`: keyboard and game send whole characters | the text but for `GameFollows` | a text cut inside a character has no edges to move between |
| `~WideAlt`: Alt+backspace meets characters of one byte | the same | finding 1 |
| `OnePad`: one gamepad | `SticksFresh`, `NothingStuck` | one flag serves the sticks of all |
| `~PongsInside` | `DeliveredWhole` | finding 2 |

### Only model-checked

All liveness, which is out of the prover's reach under fairness:
`WindowDelivered`, `FinishExits`, `TextArrives`, `ButtonsFollow`,
`TextInputEnds`, `Answered`, `DisconnectCloses`, `ShownDrawn`,
`GameHeightFollows`, `GameConverges`, `ShowReturns` and `SignInEnds`. What the
recursive walks of `UTF8Util` return is proved without the induction theorems
of the library, by the least offset at which two functions with the same
recursion could differ.

## 5. Not modelled

The list with reasons is in `PROJECT.json`. In short: parts that only forward or
draw; patches that write bytes once before the game starts (`XboxShutdownPatch`
has threads, but nothing installs it); the asset manager, whose two clamps a
unit test reaches; libraries that are not in the repository. Three quarters of
the source lines are the generated OpenGL loader (`glad.c`, `glad/glad.h`) and
have no behaviour of the launcher's. Handlers of `WindowCallbacks` and
`TextInputHandler` are atomic in the models, though the game may load text on
another thread: tearing of a `std::string` has no useful model. HTTP headers,
scroll wheel, positions, clipboard, mouse buttons and motion for the game, and
callbacks of mods on input and on the swap of buffers are left out: the state
space of `WindowInput` has no room for more devices, and a callback of a mod is
run or skipped under one lock, like the windows of `OverlayWindows`.

## 6. Plan

Done: the modules of section 2, the runs of section 3 and the proofs of section
4. Left, in this order:

1. Safety that liveness rests on: in `XalWebView` that `show` blocks only while
   the process does, in `TextExchange` that game and launcher agree whenever
   nothing is between comparison and event, in `WindowSize` that a height not
   told is queued or pending. The liveness itself stays with TLC.
2. `OverlayInput`: which button ImGui was told, relative to what the frame
   loaded last, for any number of events.
3. `GameLifecycle`: the window is given to the game once.
