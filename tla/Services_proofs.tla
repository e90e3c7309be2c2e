--------------------------- MODULE Services_proofs ---------------------------
(***************************************************************************)
(* The safety properties of the parts composed in MCServices, for every    *)
(* value of the constants.  A step of the composition is one of every part *)
(* or leaves it alone (PartSteps), and each part has an inductive          *)
(* invariant; that of the windows is in OverlayWindows_proofs.             *)
(***************************************************************************)
EXTENDS MCServices, OverlayWindows_proofs, WellFoundedInduction, SequenceTheorems, TLAPS

USE ServicesAssumption DEF audioVars, sizeVars, fileVars, textVars, viewVars, glVars, xboxVars, launcherVars

-----------------------------------------------------------------------------
(* Audio: fake_audio.cpp.                                                   *)

(* The stream of SDL plays until the stop that ends it has returned, and    *)
(* calls back only meanwhile; a callback that runs found a buffer, and a    *)
(* resize or a close under it is a touch.                                   *)
AudioInv ==
  /\ Audio!TypeOK /\ StreamKept
  /\ playing => s \/ requested = "stop"
  /\ requested = "start" => s /\ ~playing
  /\ requested = "stop" => ~s
  /\ requested \in {"resize", "close"} => touched \/ ~s
  /\ callback.at # "outside" => playing /\ (touched \/ audioBuffer # Audio!NULL)

(* It holds at the start of the stream.                                     *)
LEMMA AudioInit == Audio!Init => AudioInv
<1> SUFFICES ASSUME Audio!Init PROVE AudioInv
  OBVIOUS
<1>1. Audio!TypeOK
  <2>1. MaxSize \in Nat /\ audioBufferSize \in 1..MaxSize
    BY DEF Audio!Init
  <2>2. 0 \in 0..MaxSize /\ audioBufferSize \in 0..MaxSize
    BY ONLY <2>1
  <2>3. callback \in [at : {"outside", "size", "data", "error"}, amount : 0..MaxSize, buffer : 0..2]
    BY <2>2 DEF Audio!Init, Audio!Outside, Audio!NULL
  <2>4. /\ s \in BOOLEAN /\ playing \in BOOLEAN /\ refuses \in BOOLEAN
        /\ requested \in {"none", "resize", "close", "start", "stop"} /\ touched \in BOOLEAN
    BY DEF Audio!Init
  <2>5. audioBuffer \in 0..2
    BY DEF Audio!Init
  <2> QED
    BY <2>2, <2>3, <2>4, <2>5 DEF Audio!TypeOK
<1> QED
  BY <1>1 DEF Audio!Init, AudioInv, StreamKept, Audio!StreamKept, Audio!BufferKept,
              Audio!ErrorExplained, Audio!Outside

(* The game's calls meet no callback that runs, except the stop that waits, *)
(* unless they touch a stream that plays.                                   *)
LEMMA AudioGame == AudioInv /\ Audio!Game => AudioInv'
<1> SUFFICES ASSUME AudioInv, Audio!Game PROVE AudioInv'
  OBVIOUS
<1> USE DEF AudioInv, StreamKept, Audio!StreamKept, Audio!BufferKept, Audio!ErrorExplained,
            Audio!TypeOK, Audio!bufferVars
<1>1. CASE Audio!setBufferSizeInFrames
  BY <1>1 DEF Audio!setBufferSizeInFrames, Audio!NULL
<1>2. CASE Audio!Resize
  BY <1>2 DEF Audio!Resize, Audio!Reallocate, Audio!NULL
<1>3. CASE Audio!close
  BY <1>3 DEF Audio!close, Audio!NULL
<1>4. CASE Audio!ClearSize
  BY <1>4 DEF Audio!ClearSize, Audio!NULL
<1>5. CASE Audio!requestStart
  BY <1>5 DEF Audio!requestStart
<1>6. CASE Audio!Resume
  BY <1>6 DEF Audio!Resume
<1>7. CASE Audio!requestStop
  BY <1>7 DEF Audio!requestStop
<1>8. CASE Audio!Destroy
  BY <1>8 DEF Audio!Destroy
<1> QED
  BY <1>1, <1>2, <1>3, <1>4, <1>5, <1>6, <1>7, <1>8 DEF Audio!Game

(* The callback of SDL keeps the buffer it gave to the game.                *)
LEMMA AudioSdl == AudioInv /\ (Audio!Sdl \/ Audio!DeviceGone) => AudioInv'
<1> SUFFICES ASSUME AudioInv, Audio!Sdl \/ Audio!DeviceGone PROVE AudioInv'
  OBVIOUS
<1> USE DEF AudioInv, StreamKept, Audio!StreamKept, Audio!BufferKept, Audio!ErrorExplained,
            Audio!TypeOK, Audio!bufferVars
<1>1. CASE Audio!CallBack
  BY <1>1 DEF Audio!CallBack, Audio!NULL
<1>2. CASE Audio!Grow
  <2>1. /\ callback.at = "size" /\ playing /\ (touched \/ audioBuffer # 0)
        /\ callback.amount \in 0..MaxSize /\ audioBufferSize \in 0..MaxSize
    BY <1>2 DEF Audio!Grow, Audio!NULL
  <2>2. /\ audioBuffer' \in 0..2 /\ (touched \/ audioBuffer' # 0)
        /\ audioBufferSize' \in 0..MaxSize
        /\ callback.amount <= audioBufferSize'
    BY <1>2, <2>1 DEF Audio!Grow, Audio!Reallocate
  <2>3. /\ callback' \in [at : {"outside", "size", "data", "error"}, amount : 0..MaxSize, buffer : 0..2]
        /\ callback'.at = "data" /\ callback'.buffer = audioBuffer'
        /\ callback'.amount = callback.amount
    BY <1>2, <2>1, <2>2 DEF Audio!Grow
  <2> QED
    BY <1>2, <2>1, <2>2, <2>3 DEF Audio!Grow, Audio!NULL
<1>3. CASE Audio!Put
  BY <1>3 DEF Audio!Put, Audio!Outside, Audio!NULL
<1>4. CASE Audio!ErrorCallback
  BY <1>4 DEF Audio!ErrorCallback, Audio!Outside, Audio!NULL
<1>5. CASE Audio!DeviceGone
  BY <1>5 DEF Audio!DeviceGone
<1> QED
  BY <1>1, <1>2, <1>3, <1>4, <1>5 DEF Audio!Sdl

LEMMA AudioStep == AudioInv /\ [Audio!Next]_audioVars => AudioInv'
<1>1. AudioInv /\ UNCHANGED audioVars => AudioInv'
  BY DEF AudioInv, StreamKept, Audio!StreamKept, Audio!BufferKept, Audio!ErrorExplained,
         Audio!TypeOK
<1> QED
  BY <1>1, AudioGame, AudioSdl DEF Audio!Next

-----------------------------------------------------------------------------
(* OpenGL: gl_core_patch.cpp.                                               *)

(* DrawsAsBound is inductive: a deletion unbinds no buffer that the patch   *)
(* remembers without marking it, and only the vertex array that is bound.   *)
(* Vertex arrays are numbered as they come.                                 *)
GLInv ==
  /\ GL!TypeOK /\ DrawsAsBound
  /\ \A p \in Programs : vaoMap[p] <= generated

LEMMA GLInit == GL!Init => GLInv
<1> SUFFICES ASSUME GL!Init PROVE GLInv
  OBVIOUS
<1> USE DEF GL!Init
<1>1. vaoMap \in [Programs -> 0..MaxLinks] /\ elementsOf \in [0..MaxLinks -> Buffers \cup {GL!NoBuffer}]
  OBVIOUS
<1>2. vertexArray \in 0..generated /\ generated \in 0..MaxLinks
  OBVIOUS
<1>3. /\ buffers \in [GL!Targets -> Buffers \cup {GL!NoBuffer}]
      /\ arrayBuffer \in Buffers \cup {GL!NoBuffer} /\ deleted \subseteq GL!Targets
      /\ program \in Programs \cup {"none"}
  OBVIOUS
<1>4. linked \in BOOLEAN
  OBVIOUS
<1>5. DrawsAsBound
  BY DEF DrawsAsBound, GL!DrawsAsBound
<1>6. \A p \in Programs : vaoMap[p] <= generated
  OBVIOUS
<1> QED
  BY <1>1, <1>2, <1>3, <1>4, <1>5, <1>6 DEF GLInv, GL!TypeOK

(* A link: DrawsAsBound claims nothing until the next glUseProgram.         *)
LEMMA GLLink ==
  ASSUME GLInv, NEW p \in Programs, GL!glLinkProgram(p) PROVE GLInv'
<1>1. /\ generated \in Nat /\ generated + 1 \in 0..MaxLinks /\ generated' = generated + 1
      /\ vertexArray' \in 0..generated' /\ linked' = TRUE
  <2>1. generated \in 0..MaxLinks /\ generated < MaxLinks /\ MaxLinks \in Nat
    BY DEF GLInv, GL!TypeOK, GL!glLinkProgram
  <2>2. generated' = generated + 1 /\ vertexArray' = generated' /\ linked' = TRUE
    BY DEF GL!glLinkProgram
  <2> QED
    BY ONLY <2>1, <2>2
<1>2. /\ vaoMap' \in [Programs -> 0..MaxLinks]
      /\ \A q \in Programs : vaoMap'[q] = (IF q = p THEN generated + 1 ELSE vaoMap[q])
  BY <1>1 DEF GLInv, GL!TypeOK, GL!glLinkProgram
<1>3. \A q \in Programs : vaoMap'[q] <= generated'
  BY <1>1, <1>2 DEF GLInv, GL!TypeOK
<1>4. GL!TypeOK'
  <2>1. UNCHANGED <<buffers, program, arrayBuffer, elementsOf, deleted>>
    BY DEF GL!glLinkProgram
  <2>2. generated' \in 0..MaxLinks
    BY <1>1
  <2>3. linked' \in BOOLEAN
    BY <1>1
  <2> QED
    BY <1>1, <1>2, <2>1, <2>2, <2>3 DEF GLInv, GL!TypeOK
<1>5. DrawsAsBound'
  BY <1>1 DEF DrawsAsBound, GL!DrawsAsBound
<1> QED
  BY <1>3, <1>4, <1>5 DEF GLInv

(* glUseProgram binds the buffers again, in the vertex array it bound.      *)
LEMMA GLUse ==
  ASSUME GLInv, NEW p \in Programs, GL!glUseProgram(p) PROVE GLInv'
<1>1. /\ vaoMap[p] \in 0..MaxLinks /\ vaoMap[p] <= generated /\ generated \in 0..MaxLinks
      /\ vertexArray' = vaoMap[p] /\ program' = p
      /\ UNCHANGED <<vaoMap, buffers, generated, deleted>>
  BY DEF GLInv, GL!TypeOK, GL!glUseProgram
<1>2. vertexArray' \in 0..generated'
  BY <1>1
<1>3. /\ buffers["array"] \in Buffers \cup {GL!NoBuffer}
      /\ buffers["elements"] \in Buffers \cup {GL!NoBuffer}
  BY DEF GLInv, GL!TypeOK, GL!Targets
<1>4. /\ elementsOf' \in [0..MaxLinks -> Buffers \cup {GL!NoBuffer}]
      /\ elementsOf'[vertexArray'] = buffers["elements"] /\ arrayBuffer' = buffers["array"]
      /\ linked' = FALSE
  BY <1>1, <1>3 DEF GLInv, GL!TypeOK, GL!glUseProgram
<1>5. GL!TypeOK'
  <2>1. linked' \in BOOLEAN
    BY <1>4
  <2> QED
    BY <1>1, <1>2, <1>3, <1>4, <2>1 DEF GLInv, GL!TypeOK
<1>6. DrawsAsBound'
  BY <1>1, <1>4 DEF DrawsAsBound, GL!DrawsAsBound
<1> QED
  BY <1>1, <1>5, <1>6 DEF GLInv

(* The game binds a buffer: the patch and OpenGL agree on it.               *)
LEMMA GLBind ==
  ASSUME GLInv, NEW t \in GL!Targets, NEW b \in Buffers, GL!glBindBuffer(t, b) PROVE GLInv'
<1>1. /\ vertexArray \in 0..MaxLinks
      /\ UNCHANGED <<vaoMap, program, vertexArray, generated, linked>>
  BY DEF GLInv, GL!TypeOK, GL!glBindBuffer
<1>2. /\ buffers' \in [GL!Targets -> Buffers \cup {GL!NoBuffer}]
      /\ \A u \in GL!Targets : buffers'[u] = (IF u = t THEN b ELSE buffers[u])
      /\ deleted' = deleted \ {t}
  BY DEF GLInv, GL!TypeOK, GL!glBindBuffer
<1>3. CASE t = "array"
  <2>1. arrayBuffer' = b /\ elementsOf' = elementsOf
    BY <1>3 DEF GL!glBindBuffer, GL!Bind
  <2>2. GL!TypeOK'
    BY <1>1, <1>2, <2>1 DEF GLInv, GL!TypeOK
  <2>3. DrawsAsBound'
    BY <1>1, <1>2, <1>3, <2>1 DEF GLInv, DrawsAsBound, GL!DrawsAsBound, GL!Targets
  <2> QED
    BY <1>1, <2>2, <2>3 DEF GLInv
<1>4. CASE t = "elements"
  <2>1. /\ arrayBuffer' = arrayBuffer /\ elementsOf'[vertexArray] = b
        /\ elementsOf' \in [0..MaxLinks -> Buffers \cup {GL!NoBuffer}]
    BY <1>1, <1>4 DEF GLInv, GL!TypeOK, GL!glBindBuffer, GL!Bind
  <2>2. GL!TypeOK'
    BY <1>1, <1>2, <2>1 DEF GLInv, GL!TypeOK
  <2>3. DrawsAsBound'
    BY <1>1, <1>2, <1>4, <2>1 DEF GLInv, DrawsAsBound, GL!DrawsAsBound, GL!Targets
  <2> QED
    BY <1>1, <2>2, <2>3 DEF GLInv
<1> QED
  BY <1>3, <1>4 DEF GL!Targets

(* The game deletes a buffer, and OpenGL unbinds it.                        *)
LEMMA GLDelete ==
  ASSUME GLInv, NEW b \in Buffers, GL!glDeleteBuffers(b) PROVE GLInv'
<1>1. /\ vertexArray \in 0..MaxLinks
      /\ UNCHANGED <<vaoMap, buffers, program, vertexArray, generated, linked>>
      /\ deleted' = deleted \cup {t \in GL!Targets : buffers[t] = b}
  BY DEF GLInv, GL!TypeOK, GL!glDeleteBuffers
<1>2. arrayBuffer' = IF arrayBuffer = b THEN GL!NoBuffer ELSE arrayBuffer
  BY DEF GL!glDeleteBuffers
<1>3. /\ elementsOf' \in [0..MaxLinks -> Buffers \cup {GL!NoBuffer}]
      /\ elementsOf'[vertexArray] =
           IF elementsOf[vertexArray] = b THEN GL!NoBuffer ELSE elementsOf[vertexArray]
  BY <1>1 DEF GLInv, GL!TypeOK, GL!glDeleteBuffers
<1>4. GL!TypeOK'
  BY <1>1, <1>2, <1>3 DEF GLInv, GL!TypeOK
<1>5. DrawsAsBound'
  BY <1>1, <1>2, <1>3 DEF GLInv, DrawsAsBound, GL!DrawsAsBound, GL!Targets
<1> QED
  BY <1>1, <1>4, <1>5 DEF GLInv

LEMMA GLStep == GLInv /\ [GL!Next]_glVars => GLInv'
<1> SUFFICES ASSUME GLInv, [GL!Next]_glVars PROVE GLInv'
  OBVIOUS
<1>1. CASE GL!UseNoProgram
  BY <1>1 DEF GL!UseNoProgram, GLInv, GL!TypeOK, DrawsAsBound, GL!DrawsAsBound
<1>2. CASE UNCHANGED glVars
  BY <1>2 DEF GLInv, GL!TypeOK, DrawsAsBound, GL!DrawsAsBound
<1> QED
  BY <1>1, <1>2, GLLink, GLUse, GLBind, GLDelete DEF GL!Next

-----------------------------------------------------------------------------
(* Xbox Live: xbox_live_helper.cpp and jni/xbox_live.cpp.                   *)

(* A call to the client is made with a client that was up when the request  *)
(* tested it, and only a shutdown takes a client or an event manager away.  *)
XboxInv ==
  /\ Xbox!TypeOK /\ OneAnswer
  /\ client = "gone" => shutdown = "client"
  /\ cll = "gone" => shutdown # "no"
  /\ logger = "add" => cll # "none"
  /\ \A r \in Requests : request[r] \in {"pick", "ask"} => client \in {"up", "gone"}

LEMMA XboxInit == Xbox!Init => XboxInv
<1> SUFFICES ASSUME Xbox!Init PROVE XboxInv
  OBVIOUS
<1>1. Xbox!TypeOK
  <2>1. fault \in BOOLEAN
    BY DEF Xbox!Init
  <2> QED
    BY <2>1 DEF Xbox!Init, Xbox!TypeOK
<1> QED
  BY <1>1 DEF Xbox!Init, XboxInv, OneAnswer, Xbox!OneAnswer

(* One step of a request: it moves only itself, and is answered when it     *)
(* ends.                                                                    *)
LEMMA XboxRequest ==
  ASSUME XboxInv, NEW r \in Requests, Xbox!Step(r) PROVE XboxInv'
<1> USE DEF Xbox!Goto, Xbox!Answer, Xbox!Answered
<1>1. \E w \in {"pick", "picking", "picked", "ask", "asking", "login", "events", "done", "lost"} :
        /\ request' = [request EXCEPT ![r] = w]
        /\ request[r] # "done"
        /\ answers' = IF w = "done" THEN [answers EXCEPT ![r] = answers[r] + 1] ELSE answers
        /\ w \in {"pick", "ask"} => client' = "up"
  BY DEF Xbox!Step, Xbox!Begin, Xbox!Call, Xbox!PickAccount, Xbox!RequestToken, Xbox!onLogin,
         Xbox!LoginEnds
<1>2. /\ UNCHANGED <<cll, logger, flow, shutdown>>
      /\ client' \in {"none", "up", "failed", "gone"}
      /\ client' # client => client = "none" /\ client' \in {"up", "failed"}
  BY DEF Xbox!Step, Xbox!Begin, Xbox!Call, Xbox!PickAccount, Xbox!RequestToken, Xbox!onLogin,
         Xbox!LoginEnds, Xbox!Connect, Xbox!cllVars, XboxInv, Xbox!TypeOK
<1>3. fault' \in BOOLEAN /\ (fault' => fault \/ client = "gone")
  <2>1. CASE Xbox!Call(r)
    <3>1. client \in {"up", "gone"} /\ fault \in BOOLEAN
      BY <2>1 DEF Xbox!Call, XboxInv, Xbox!TypeOK
    <3>2. CASE client = "up"
      BY <2>1, <3>1, <3>2 DEF Xbox!Call
    <3>3. CASE client = "gone"
      BY <2>1, <3>3 DEF Xbox!Call
    <3> QED
      BY <3>1, <3>2, <3>3
  <2>2. CASE ~Xbox!Call(r)
    <3>1. fault' = fault
      BY <2>2 DEF Xbox!Step, Xbox!Begin, Xbox!PickAccount, Xbox!RequestToken, Xbox!onLogin,
                  Xbox!LoginEnds
    <3> QED
      BY <3>1 DEF XboxInv, Xbox!TypeOK
  <2> QED
    BY <2>1, <2>2
<1>4. \A q \in Requests : answers'[q] = IF request'[q] = "done" THEN 1 ELSE 0
  BY <1>1 DEF XboxInv, Xbox!TypeOK, OneAnswer, Xbox!OneAnswer
<1>5. Xbox!TypeOK'
  <2>1. answers' \in [Requests -> 0..2]
    <3>1. answers' = [q \in Requests |-> answers'[q]]
      BY <1>1 DEF XboxInv, Xbox!TypeOK
    <3> QED
      BY <1>4, <3>1
  <2>2. request' \in [Requests -> {"none", "pick", "picking", "picked", "ask", "asking", "login",
                                   "events", "done", "lost"}]
    BY <1>1 DEF XboxInv, Xbox!TypeOK
  <2> QED
    BY <1>2, <1>3, <2>1, <2>2 DEF XboxInv, Xbox!TypeOK
<1>6. \A q \in Requests : request'[q] \in {"pick", "ask"} => client' \in {"up", "gone"}
  BY <1>1, <1>2 DEF XboxInv, Xbox!TypeOK
<1> QED
  BY <1>2, <1>3, <1>4, <1>5, <1>6 DEF XboxInv, OneAnswer, Xbox!OneAnswer

LEMMA XboxStep == XboxInv /\ [Xbox!Next]_xboxVars => XboxInv'
<1> SUFFICES ASSUME XboxInv, [Xbox!Next]_xboxVars PROVE XboxInv'
  OBVIOUS
<1> USE DEF XboxInv, Xbox!TypeOK, OneAnswer, Xbox!OneAnswer, Xbox!cllVars
<1>1. CASE Xbox!initCll
  BY <1>1 DEF Xbox!initCll
<1>2. CASE Xbox!AddEvent
  BY <1>2 DEF Xbox!AddEvent
<1>3. CASE Xbox!ResetCll
  BY <1>3 DEF Xbox!ResetCll
<1>4. CASE Xbox!ResetClient
  BY <1>4 DEF Xbox!ResetClient
<1>5. CASE UNCHANGED xboxVars
  BY <1>5
<1> HIDE DEF XboxInv
<1> QED
  BY <1>1, <1>2, <1>3, <1>4, <1>5, XboxRequest DEF Xbox!Next

-----------------------------------------------------------------------------
(* The start of the game: main.cpp.                                         *)

LauncherAt == {"libraries", "preinit", "game", "again", "fmod", "mods", "patches", "started",
               "returned 1", "returned 51"}

(* The graphics library follows the api until the patch decides on it, and  *)
(* one window was made exactly with the real one.                           *)
LauncherGraphics ==
  /\ at = "libraries" => /\ libGLESv2 = "none" /\ windows = 0
                         /\ graphicsApi = IF options.forceEgl THEN "OPENGL_ES2" ELSE "OPENGL"
  /\ at # "libraries" => /\ libGLESv2 \in {"stub", "real"}
                         /\ windows = IF libGLESv2 = "real" THEN 1 ELSE 0
                         /\ options.forceEgl => libGLESv2 = "real"
  /\ at \notin {"libraries", "started"} =>
       graphicsApi = IF libGLESv2 = "stub" THEN "OPENGL" ELSE "OPENGL_ES2"
  /\ at = "started" => (graphicsApi = "OPENGL" <=> enabled) /\ (enabled => libGLESv2 = "stub")

(* The game was loaded with what it needs.                                  *)
LauncherGame ==
  /\ handle /\ theGame.needsGles => libGLESv2 = "real"
  /\ at \in {"libraries", "preinit", "game"} => ~handle
  /\ at \in {"mods", "patches", "started"} => handle

(* The mods that came before it saw the graphics library of their attempt.  *)
LauncherMods ==
  /\ at \in {"libraries", "preinit"} \/ options.freeOnly => preinit = {}
  /\ ~(at \in {"libraries", "preinit"} \/ options.freeOnly) =>
       \A d \in Launcher!Dirs :
         d = "mods" \/ options.forceEgl \/ libGLESv2 = "stub" =>
           [from |-> d, libGLESv2 |-> libGLESv2] \in preinit
  /\ at \in {"patches", "started"} => /\ options.freeOnly => theGame.isFree
                                      /\ mods = Launcher!LoadMods(Launcher!Dirs)

LauncherTyped ==
  /\ at \in LauncherAt
  /\ graphicsApi \in {"OPENGL", "OPENGL_ES2"} /\ libGLESv2 \in {"none", "stub", "real"}
  /\ windows \in 0..2
  /\ preinit \subseteq [from : Launcher!Dirs, libGLESv2 : {"stub", "real"}]
  /\ mods \subseteq Launcher!Dirs
LauncherFlags == libfmod \in BOOLEAN /\ handle \in BOOLEAN /\ enabled \in BOOLEAN

LauncherInv == LauncherTyped /\ LauncherFlags /\ LauncherGraphics /\ LauncherGame /\ LauncherMods

LEMMA LauncherGoals == LauncherInv => Launcher!TypeOK /\ StartFits
<1> SUFFICES ASSUME LauncherInv PROVE Launcher!TypeOK /\ StartFits
  OBVIOUS
<1>1. Launcher!TypeOK
  BY DEF LauncherInv, LauncherTyped, LauncherFlags, LauncherAt, Launcher!TypeOK
<1>2. ASSUME at = "started"
      PROVE  /\ handle /\ (theGame.needsGles => libGLESv2 = "real")
             /\ (graphicsApi = "OPENGL") = enabled
             /\ enabled => libGLESv2 = "stub"
             /\ windows = (IF libGLESv2 = "real" THEN 1 ELSE 0)
  BY <1>2 DEF LauncherInv, LauncherFlags, LauncherGraphics, LauncherGame
<1>3. ASSUME at = "started"
      PROVE  IF options.freeOnly THEN theGame.isFree /\ preinit = {} /\ mods = {}
             ELSE \A d \in Launcher!Dirs :
                    d \in mods /\ (d = "mods" \/ options.forceEgl \/ libGLESv2 = "stub" =>
                      [from |-> d, libGLESv2 |-> libGLESv2] \in preinit)
  BY <1>3 DEF LauncherInv, LauncherMods, Launcher!LoadMods
<1> QED
  BY <1>1, <1>2, <1>3 DEF StartFits, Launcher!StartFits

LEMMA LauncherInit == Launcher!Init => LauncherInv
<1> SUFFICES ASSUME Launcher!Init PROVE LauncherInv
  OBVIOUS
<1>1. LauncherTyped
  BY DEF Launcher!Init, LauncherTyped, LauncherAt
<1>2. LauncherFlags
  BY DEF Launcher!Init, LauncherFlags
<1>3. LauncherGraphics /\ LauncherGame /\ LauncherMods
  BY DEF Launcher!Init, LauncherGraphics, LauncherGame, LauncherMods
<1> QED
  BY <1>1, <1>2, <1>3 DEF LauncherInv

LEMMA LauncherStep == LauncherInv /\ [Launcher!Next]_launcherVars => LauncherInv'
<1> SUFFICES ASSUME LauncherInv, [Launcher!Next]_launcherVars PROVE LauncherInv'
  OBVIOUS
<1> USE DEF LauncherInv, LauncherAt, Launcher!inputs
<1>1. CASE Launcher!LoadLibraries
  <2>1. LauncherFlags'
    BY <1>1 DEF Launcher!LoadLibraries, LauncherFlags
  <2>2. LauncherTyped'
    BY <1>1 DEF Launcher!LoadLibraries, Launcher!SetupGLES2, LauncherTyped, LauncherGraphics
  <2>3. LauncherGraphics'
    BY <1>1 DEF Launcher!LoadLibraries, Launcher!SetupGLES2, LauncherTyped, LauncherGraphics
  <2>4. LauncherGame' /\ LauncherMods'
    BY <1>1 DEF Launcher!LoadLibraries, LauncherGame, LauncherMods
  <2> QED
    BY <2>1, <2>2, <2>3, <2>4
<1>2. CASE Launcher!LoadPreinitMods
  <2> USE <1>2 DEF Launcher!LoadPreinitMods, Launcher!LoadMods
  <2>1. LauncherFlags'
    BY DEF LauncherFlags
  <2>2. LauncherTyped'
    BY DEF LauncherTyped, LauncherGraphics
  <2>3. LauncherGraphics' /\ LauncherGame'
    BY DEF LauncherGraphics, LauncherGame
  <2>4. LauncherMods'
    BY DEF LauncherMods
  <2> QED
    BY <2>1, <2>2, <2>3, <2>4
<1>3. CASE Launcher!LoadGame
  <2> USE <1>3 DEF Launcher!LoadGame
  <2>1. handle' \in BOOLEAN /\ (handle' => ~theGame.needsGles \/ libGLESv2 = "real")
    BY DEF Launcher!loadMinecraftLib
  <2>2. LauncherFlags'
    BY <2>1 DEF LauncherFlags
  <2>3. LauncherTyped' /\ LauncherGraphics'
    BY DEF LauncherTyped, LauncherGraphics
  <2>4. LauncherGame' /\ LauncherMods'
    BY <2>1 DEF LauncherGame, LauncherMods
  <2> QED
    BY <2>2, <2>3, <2>4
<1>4. CASE Launcher!FallBack
  <2>1. CASE ~handle /\ graphicsApi = "OPENGL"
    <3>1. /\ at = "again" /\ at' = "fmod" /\ UNCHANGED <<options, theGame, mods, enabled, libfmod>>
          /\ graphicsApi' = "OPENGL_ES2" /\ windows' = windows + 1 /\ libGLESv2' = "real"
          /\ preinit' = preinit \cup [from : Launcher!LoadMods({"mods"}), libGLESv2 : {"real"}]
      BY <1>4, <2>1 DEF Launcher!FallBack, Launcher!SetupGLES2
    <3>2. handle' \in BOOLEAN
      BY <1>4, <2>1 DEF Launcher!FallBack, Launcher!loadMinecraftLib
    <3>3. libGLESv2 = "stub" /\ windows = 0 /\ ~options.forceEgl
      BY <2>1, <3>1 DEF LauncherGraphics
    <3>4. LauncherFlags'
      BY <3>1, <3>2 DEF LauncherFlags
    <3>5. LauncherTyped'
      BY <3>1, <3>3 DEF LauncherTyped, Launcher!LoadMods, Launcher!Dirs
    <3>6. LauncherGraphics' /\ LauncherGame'
      BY <3>1, <3>3 DEF LauncherGraphics, LauncherGame
    <3>7. LauncherMods'
      BY <3>1, <3>3 DEF LauncherMods, Launcher!LoadMods, Launcher!Dirs
    <3> QED
      BY <3>4, <3>5, <3>6, <3>7
  <2>2. CASE ~(~handle /\ graphicsApi = "OPENGL")
    <3>1. /\ at = "again" /\ at' = "fmod"
          /\ UNCHANGED <<options, theGame, mods, enabled, libfmod, graphicsApi, libGLESv2, windows,
                         preinit, handle>>
      BY <1>4, <2>2 DEF Launcher!FallBack
    <3> QED
      BY <3>1 DEF LauncherTyped, LauncherFlags, LauncherGraphics, LauncherGame, LauncherMods
  <2> QED
    BY <2>1, <2>2
<1>5. CASE Launcher!UnloadFmod
  <2>1. /\ UNCHANGED <<options, theGame, graphicsApi, libGLESv2, windows, preinit, mods, enabled>>
        /\ at = "fmod" /\ at' = IF handle' THEN "mods" ELSE "returned 51"
    BY <1>5 DEF Launcher!UnloadFmod
  <2>2. handle' \in BOOLEAN /\ libfmod' \in BOOLEAN
    BY <1>5 DEF Launcher!UnloadFmod, Launcher!loadMinecraftLib, LauncherFlags
  <2>3. handle' => ~theGame.needsGles \/ libGLESv2 = "real"
    BY <1>5 DEF Launcher!UnloadFmod, Launcher!loadMinecraftLib, LauncherGame
  <2>4. LauncherFlags'
    BY <2>1, <2>2 DEF LauncherFlags
  <2>5. LauncherTyped' /\ LauncherGraphics'
    BY <2>1 DEF LauncherTyped, LauncherGraphics
  <2>6. LauncherGame' /\ LauncherMods'
    BY <2>1, <2>3 DEF LauncherGame, LauncherMods
  <2> QED
    BY <2>4, <2>5, <2>6
<1>6. CASE Launcher!LoadModsAfter
  <2> USE <1>6 DEF Launcher!LoadModsAfter
  <2>1. LauncherFlags' /\ LauncherTyped'
    BY DEF LauncherFlags, LauncherTyped, Launcher!LoadMods
  <2>2. LauncherGraphics' /\ LauncherGame'
    BY DEF LauncherGraphics, LauncherGame
  <2>3. LauncherMods'
    BY DEF LauncherMods, Launcher!LoadMods
  <2> QED
    BY <2>1, <2>2, <2>3
<1>7. CASE Launcher!InstallPatches
  <2>1. /\ UNCHANGED <<options, theGame, libGLESv2, libfmod, windows, handle, preinit, mods>>
        /\ at = "patches" /\ at' = "started"
        /\ enabled' \in BOOLEAN /\ (enabled' => graphicsApi = "OPENGL")
        /\ graphicsApi' = IF enabled' THEN "OPENGL" ELSE "OPENGL_ES2"
    BY <1>7 DEF Launcher!InstallPatches
  <2>2. LauncherFlags'
    BY <2>1 DEF LauncherFlags
  <2>3. LauncherTyped' /\ LauncherGraphics'
    BY <2>1 DEF LauncherTyped, LauncherGraphics
  <2>4. LauncherGame' /\ LauncherMods'
    BY <2>1 DEF LauncherGame, LauncherMods, Launcher!LoadMods
  <2> QED
    BY <2>2, <2>3, <2>4
<1>8. CASE UNCHANGED launcherVars
  BY <1>8 DEF LauncherTyped, LauncherFlags, LauncherGraphics, LauncherGame, LauncherMods,
              Launcher!LoadMods
<1> QED
  BY <1>1, <1>2, <1>3, <1>4, <1>5, <1>6, <1>7, <1>8 DEF Launcher!Next

-----------------------------------------------------------------------------
(* The settings: settings.cpp.                                              *)

FilePlaces == {"idle", "test", "assign", "flip", "save", "truncate", "write", "close"}
FileSteps == [at : FilePlaces, fullscreen : BOOLEAN, text : SUBSET File!Values]
FileTyped ==
  /\ mem \in File!Values /\ list \in File!Values
  /\ phase \in {"off", "up", "open"}
  /\ pc \in [File!Threads -> FileSteps]
  /\ pc["window"].at # "flip" /\ pc["render"].at \notin {"test", "assign"}
FileFlags ==
  /\ windowFullscreen \in BOOLEAN /\ reset \in BOOLEAN /\ overlapped \in BOOLEAN
  /\ moving \in BOOLEAN
  /\ left \in [mem : File!Values, busy : BOOLEAN, moving : BOOLEAN]

(* A file is empty or holds one text, and so does what will be written.     *)
FileWhole ==
  /\ file = {} \/ \E v \in File!Values : file = {v}
  /\ \A t \in File!Threads : pc[t].at = "close" => \E v \in File!Values : pc[t].text = {v}

(* Who may be busy: nobody before the start, the window thread that resets  *)
(* the settings, and one thread alone unless two overlapped.                *)
FileThreads ==
  /\ \A t \in File!Threads : pc[t].at = "idle" => pc[t] = File!Idle
  /\ phase = "off" => File!Quiet /\ ~overlapped
  /\ phase = "up" => /\ pc["render"] = File!Idle /\ ~overlapped
                     /\ pc["window"].at \notin {"test", "assign"}
  /\ ~overlapped => pc["window"] = File!Idle \/ pc["render"] = File!Idle

(* What the thread that is alone has done of its change and of its save.    *)
FileAlone(t) ==
  /\ pc[t].at = "test" => (pc[t].fullscreen <=> ~mem.fullscreen)
  /\ pc[t].at = "assign" => (pc[t].fullscreen <=> windowFullscreen)
  /\ pc[t].at = "flip" => (windowFullscreen <=> ~mem.fullscreen)
  /\ phase = "open" /\ pc[t].at \in {"save", "truncate", "write", "close"} =>
       (windowFullscreen <=> mem.fullscreen)
  /\ pc[t].at = "truncate" => list.scale = mem.scale /\ (moving \/ list.hud = mem.hud)
  /\ pc[t].at = "write" => File!Same(list, mem, moving)
  /\ pc[t].at = "close" => \E v \in File!Values : pc[t].text = {v} /\ File!Same(v, mem, moving)

(* The next start will read v, from the file or, without one, from what the *)
(* properties say by themselves, except maybe for the place of the HUDs.    *)
Says(v, exceptHud) ==
  \E w \in File!Values : /\ file = {w} \/ (file = {} /\ w = File!Defaults)
                        /\ File!Same(w, v, exceptHud)

FileAgrees ==
  /\ phase # "off" /\ ~overlapped => \A t \in File!Threads : FileAlone(t)
  /\ phase # "off" /\ ~overlapped /\ File!Quiet => Says(mem, moving)
  /\ phase = "off" => left.busy \/ Says(left.mem, left.moving)

FileInv ==
  /\ FileTyped /\ FileFlags /\ FileWhole /\ FileThreads /\ FileAgrees
  /\ SettingsKept /\ FullscreenAgrees

LEMMA FileGoals == FileInv => File!TypeOK
<1> SUFFICES ASSUME FileInv PROVE File!TypeOK
  OBVIOUS
<1>1. /\ mem \in File!Values /\ list \in File!Values /\ file \subseteq File!Values
      /\ phase \in {"off", "up", "open"} /\ left \in [mem : File!Values, busy : BOOLEAN, moving : BOOLEAN]
  BY DEF FileInv, FileTyped, FileFlags, FileWhole
<1>2. \A t \in File!Threads :
        /\ pc[t].at \in {"idle", "test", "assign", "flip", "save", "truncate", "write", "close"}
        /\ pc[t].text \subseteq File!Values
  BY DEF FileInv, FileTyped, FilePlaces, FileSteps
<1>3. \A t \in File!Threads : pc[t].fullscreen \in BOOLEAN
  BY DEF FileInv, FileTyped, FileSteps
<1>4. windowFullscreen \in BOOLEAN /\ reset \in BOOLEAN /\ overlapped \in BOOLEAN /\ moving \in BOOLEAN
  BY DEF FileInv, FileFlags
<1> QED
  BY <1>1, <1>2, <1>3, <1>4 DEF File!TypeOK

(* The texts the program starts with are values of the settings.            *)
LEMMA FileValues ==
  /\ File!Statics \in File!Values /\ File!Defaults \in File!Values
  /\ File!Idle \in FileSteps
<1>1. 0 \in Scales /\ 1 \in Scales
  OBVIOUS
<1>2. File!Statics \in File!Values /\ File!Defaults \in File!Values
  BY <1>1 DEF File!Statics, File!Defaults, File!Values, File!Places
<1>3. File!Idle \in FileSteps
  BY DEF File!Idle, FilePlaces, FileSteps
<1> QED
  BY <1>2, <1>3

LEMMA FileInit == File!Init => FileInv
<1> SUFFICES ASSUME File!Init PROVE FileInv
  OBVIOUS
<1>1. FileTyped
  BY FileValues DEF File!Init, FileTyped, File!Idle, File!Threads
<1>2. FileFlags
  <2>1. /\ left = [mem |-> File!Defaults, busy |-> FALSE, moving |-> FALSE]
        /\ File!Defaults \in File!Values
    BY FileValues DEF File!Init
  <2>2. left \in [mem : File!Values, busy : BOOLEAN, moving : BOOLEAN]
    BY <2>1
  <2> QED
    BY <2>2 DEF File!Init, FileFlags
<1>3. FileWhole /\ FileThreads
  BY DEF File!Init, FileWhole, FileThreads, File!Idle, File!Quiet, File!Threads
<1>4. FileAgrees
  <2>1. File!Defaults \in File!Values /\ file = {} /\ left.mem = File!Defaults /\ phase = "off"
    BY FileValues DEF File!Init
  <2>2. Says(left.mem, left.moving)
    BY <2>1 DEF Says, File!Same
  <2> QED
    BY <2>1, <2>2 DEF FileAgrees
<1>5. SettingsKept /\ FullscreenAgrees
  BY DEF File!Init, SettingsKept, FullscreenAgrees, File!SettingsKept, File!FullscreenAgrees
<1> QED
  BY <1>1, <1>2, <1>3, <1>4, <1>5 DEF FileInv

(* A thread goes on, and the other one stays where it is.                   *)
LEMMA FileMove ==
  ASSUME FileTyped, NEW t \in File!Threads, NEW n \in FileSteps, pc' = [pc EXCEPT ![t] = n]
  PROVE  /\ pc' \in [File!Threads -> FileSteps]
         /\ pc'[t] = n /\ \A u \in File!Threads : u # t => pc'[u] = pc[u]
BY DEF FileTyped

LEMMA FileGoto ==
  ASSUME FileTyped, NEW t \in File!Threads, NEW to \in FilePlaces, File!Goto(t, to)
  PROVE  /\ pc' \in [File!Threads -> FileSteps]
         /\ pc'[t].at = to /\ (pc'[t].fullscreen <=> pc[t].fullscreen) /\ pc'[t].text = pc[t].text
         /\ \A u \in File!Threads : u # t => pc'[u] = pc[u]
<1> DEFINE n == [at |-> to, fullscreen |-> pc[t].fullscreen, text |-> pc[t].text]
<1>1. n \in FileSteps
  <2>1. pc[t].text \in SUBSET File!Values
    BY DEF FileTyped, FileSteps
  <2>2. pc[t].fullscreen \in BOOLEAN
    BY DEF FileTyped, FileSteps
  <2> QED
    BY <2>1, <2>2 DEF FileSteps
<1>2. pc' = [pc EXCEPT ![t] = n]
  <2>1. [pc[t] EXCEPT !.at = to] = n
    BY DEF FileTyped, FileSteps
  <2> QED
    BY <2>1 DEF File!Goto
<1> HIDE DEF n
<1>3. /\ pc' \in [File!Threads -> FileSteps]
      /\ pc'[t] = n /\ \A u \in File!Threads : u # t => pc'[u] = pc[u]
  BY <1>1, <1>2, FileMove
<1> QED
  BY <1>3 DEF n

(* The start of the process, its end, and the opening of the window.        *)
LEMMA FileLoad ==
  ASSUME FileInv, File!load PROVE FileInv'
<1> USE DEF FileInv, File!load
<1>1. mem' \in File!Values /\ list' \in File!Values /\ phase' = "up" /\ pc' = pc
  BY FileValues DEF FileTyped, FileWhole
<1>2. FileTyped'
  BY <1>1 DEF FileTyped
<1>3. FileFlags'
  BY DEF FileFlags
<1>4. FileWhole' /\ FileThreads'
  BY DEF FileWhole, FileThreads, File!Quiet, File!Idle, File!Threads
<1>5. /\ file = {} => mem' = File!Defaults
      /\ \A w \in File!Values : file = {w} => mem' = w
  OBVIOUS
<1>6. FileAgrees'
  <2>1. Says(mem, moving)'
    BY <1>1, <1>5 DEF FileWhole, Says, File!Same
  <2>2. \A t \in File!Threads : FileAlone(t)'
    BY DEF FileThreads, FileAlone, File!Quiet, File!Idle
  <2> QED
    BY <1>1, <2>1, <2>2 DEF FileAgrees
<1>7. SettingsKept' /\ FullscreenAgrees'
  <2>1. left.busy \/ File!Same(mem', left.mem, left.moving)
    BY <1>5 DEF FileAgrees, Says
  <2> QED
    BY <1>1, <2>1 DEF SettingsKept, FullscreenAgrees, File!SettingsKept, File!FullscreenAgrees
<1> QED
  BY <1>2, <1>3, <1>4, <1>6, <1>7

LEMMA FileReset ==
  ASSUME FileInv, File!ResetSettings PROVE FileInv'
<1> USE DEF FileInv, File!ResetSettings
<1>1. /\ pc' \in [File!Threads -> FileSteps] /\ pc'["window"].at = "save"
      /\ pc'["render"] = pc["render"] /\ pc["render"] = File!Idle
  BY FileGoto DEF File!Threads, FilePlaces, FileThreads, File!Quiet
<1>2. FileTyped'
  BY <1>1, FileValues DEF FileTyped, FilePlaces
<1>3. FileFlags'
  BY DEF FileFlags
<1>4. FileWhole' /\ FileThreads'
  BY <1>1 DEF FileWhole, FileThreads, File!Quiet, File!Idle, File!Threads
<1>5. FileAgrees'
  BY <1>1 DEF FileAgrees, FileAlone, Says, File!Quiet, File!Idle, File!Threads
<1>6. SettingsKept' /\ FullscreenAgrees'
  BY DEF SettingsKept, FullscreenAgrees, File!SettingsKept, File!FullscreenAgrees
<1> QED
  BY <1>2, <1>3, <1>4, <1>5, <1>6

LEMMA FileForgotten ==
  /\ File!Forgotten \in [mem : File!Values, busy : BOOLEAN, moving : BOOLEAN]
  /\ File!Forgotten.busy
BY FileValues DEF File!Forgotten

LEMMA FileOpen ==
  ASSUME FileInv, File!OpenWindow PROVE FileInv'
<1> USE DEF FileInv, File!OpenWindow, File!settingsVars
<1>1. FileTyped'
  BY DEF FileTyped
<1>2. FileFlags'
  <2>1. mem.fullscreen \in BOOLEAN
    BY DEF FileTyped, File!Values
  <2>2. left' \in [mem : File!Values, busy : BOOLEAN, moving : BOOLEAN]
    BY FileForgotten
  <2> QED
    BY <2>1, <2>2 DEF FileFlags
<1>3. FileWhole' /\ FileThreads'
  BY DEF FileWhole, FileThreads, File!Quiet
<1>4. FileAgrees'
  BY DEF FileThreads, FileAgrees, FileAlone, Says, File!Quiet, File!Idle, File!Threads
<1>5. SettingsKept' /\ FullscreenAgrees'
  BY DEF SettingsKept, FullscreenAgrees, File!SettingsKept, File!FullscreenAgrees
<1> QED
  BY <1>1, <1>2, <1>3, <1>4, <1>5

LEMMA FileExit ==
  ASSUME FileInv, File!Exit PROVE FileInv'
<1> USE DEF FileInv, File!Exit, File!settingsVars
<1>1. /\ pc' \in [File!Threads -> FileSteps]
      /\ pc'["window"] = File!Idle /\ pc'["render"] = File!Idle
  BY FileValues DEF File!Threads
<1>2. FileTyped'
  BY <1>1 DEF FileTyped, File!Idle
<1>3. FileFlags'
  <2>1. [mem |-> mem, busy |-> FALSE, moving |-> moving]
          \in [mem : File!Values, busy : BOOLEAN, moving : BOOLEAN]
    BY DEF FileTyped, FileFlags
  <2>2. left' \in [mem : File!Values, busy : BOOLEAN, moving : BOOLEAN]
    BY <2>1, FileForgotten
  <2> QED
    BY <2>2 DEF FileFlags
<1>4. FileWhole' /\ FileThreads'
  BY <1>1 DEF FileWhole, FileThreads, File!Quiet, File!Idle, File!Threads
<1>5. FileAgrees'
  <2>1. \/ left'.busy
        \/ File!Quiet /\ ~overlapped /\ left'.mem = mem /\ left'.moving = moving
    BY FileForgotten
  <2>2. left'.busy \/ Says(left'.mem, left'.moving)
    BY <2>1 DEF FileAgrees
  <2> QED
    BY <2>2 DEF FileAgrees, Says
<1>6. SettingsKept' /\ FullscreenAgrees'
  BY DEF SettingsKept, FullscreenAgrees, File!SettingsKept, File!FullscreenAgrees
<1> QED
  BY <1>2, <1>3, <1>4, <1>5, <1>6

(* A change begins: alone if the other thread is idle, and then the window  *)
(* agrees with the setting, or the change toggles both.                     *)
LEMMA FileBegin ==
  ASSUME FileInv, NEW t \in File!Threads, NEW to \in FilePlaces \ {"idle"},
         NEW toggles \in BOOLEAN, File!Begin(t, to, toggles)
  PROVE  /\ phase = "open" /\ reset' = FALSE /\ overlapped' \in BOOLEAN
         /\ pc' \in [File!Threads -> FileSteps]
         /\ pc'[t].at = to /\ (pc'[t].fullscreen <=> ~mem.fullscreen)
         /\ \A u \in File!Threads : u # t => pc'[u] = pc[u]
         /\ ~overlapped' => File!Quiet /\ (toggles \/ ~overlapped)
<1> DEFINE b == ~mem.fullscreen
           n == [at |-> to, fullscreen |-> b, text |-> {}]
           p == [pc EXCEPT ![t].at = to]
<1>1. b \in BOOLEAN
  BY Zenon
<1>2. pc' = [p EXCEPT ![t].fullscreen = b]
  BY Zenon DEF File!Begin
<1>3. b <=> ~mem.fullscreen
  OBVIOUS
<1> HIDE DEF b
<1>4. n \in FileSteps
  BY <1>1 DEF FileSteps
<1>5. p \in [File!Threads -> FileSteps] /\ p = [pc EXCEPT ![t] = p[t]]
      /\ p[t] = [at |-> to, fullscreen |-> FALSE, text |-> {}]
  <2> DEFINE m == [pc[t] EXCEPT !.at = to]
  <2>1. m = [at |-> to, fullscreen |-> FALSE, text |-> {}]
    <3>1. pc[t] = [at |-> "idle", fullscreen |-> FALSE, text |-> {}]
      BY DEF File!Begin, File!Idle
    <3>2. [pc[t] EXCEPT !.at = to] = [at |-> to, fullscreen |-> pc[t].fullscreen, text |-> pc[t].text]
      BY DEF FileInv, FileTyped, FileSteps
    <3> QED
      BY <3>1, <3>2
  <2>2. m \in FileSteps
    BY <2>1 DEF FileSteps
  <2>3. p = [pc EXCEPT ![t] = m] /\ pc \in [File!Threads -> FileSteps]
    BY DEF FileInv, FileTyped
  <2> HIDE DEF m, p
  <2> QED
    BY <2>1, <2>2, <2>3
<1> HIDE DEF p
<1>6. [p[t] EXCEPT !.fullscreen = b] = n
  BY <1>5
<1>7. pc' = [pc EXCEPT ![t] = n]
  BY <1>2, <1>5, <1>6
<1> HIDE DEF n
<1>8. /\ pc' \in [File!Threads -> FileSteps]
      /\ pc'[t] = n /\ \A u \in File!Threads : u # t => pc'[u] = pc[u]
  BY <1>4, <1>7, FileMove DEF FileInv
<1>9. phase = "open" /\ reset' = FALSE
  BY DEF File!Begin
<1>10. overlapped' <=> ~File!Quiet \/ (overlapped /\ ~toggles)
  BY DEF File!Begin
<1>11. overlapped' \in BOOLEAN
  <2>1. overlapped' = (~File!Quiet \/ (overlapped /\ ~toggles))
    BY DEF File!Begin
  <2> QED
    BY <2>1, Zenon
<1>12. pc'[t].at = to /\ (pc'[t].fullscreen <=> ~mem.fullscreen)
  BY <1>1, <1>3, <1>8 DEF n
<1> QED
  BY <1>8, <1>9, <1>10, <1>11, <1>12

LEMMA FilePress ==
  ASSUME FileInv, File!PressF11 PROVE FileInv'
<1>1. /\ phase = "open" /\ reset' = FALSE /\ overlapped' \in BOOLEAN
      /\ pc' \in [File!Threads -> FileSteps]
      /\ pc'["window"].at = "test" /\ (pc'["window"].fullscreen <=> ~mem.fullscreen)
      /\ pc'["render"] = pc["render"]
      /\ ~overlapped' => pc["render"] = File!Idle
  BY FileBegin DEF File!PressF11, File!Threads, FilePlaces, File!Quiet
<1>2. UNCHANGED <<mem, list, file, windowFullscreen, moving, phase, left>>
  BY DEF File!PressF11, File!settingsVars
<1>3. FileTyped' /\ FileFlags'
  BY <1>1, <1>2 DEF FileInv, FileTyped, FileFlags
<1>4. FileWhole' /\ FileThreads'
  BY <1>1, <1>2 DEF FileInv, FileWhole, FileThreads, File!Quiet, File!Idle, File!Threads
<1>5. FileAgrees'
  BY <1>1, <1>2 DEF FileInv, FileAgrees, FileAlone, Says, File!Quiet, File!Idle, File!Threads
<1>6. SettingsKept' /\ FullscreenAgrees'
  BY <1>1, <1>2 DEF SettingsKept, FullscreenAgrees, File!SettingsKept, File!FullscreenAgrees,
                    File!Quiet, File!Idle, File!Threads
<1> QED
  BY <1>3, <1>4, <1>5, <1>6 DEF FileInv

LEMMA FileToggle ==
  ASSUME FileInv, File!ToggleFullscreen PROVE FileInv'
<1>1. /\ phase = "open" /\ reset' = FALSE /\ overlapped' \in BOOLEAN
      /\ pc' \in [File!Threads -> FileSteps]
      /\ pc'["render"].at = "flip" /\ pc'["window"] = pc["window"]
      /\ ~overlapped' => pc["window"] = File!Idle
  BY FileBegin DEF File!ToggleFullscreen, File!Threads, FilePlaces, File!Quiet
<1>2. UNCHANGED <<mem, list, file, moving, phase, left>> /\ windowFullscreen' \in BOOLEAN
  <2>1. UNCHANGED <<mem, list, file, moving, phase, left>> /\ windowFullscreen' = ~mem.fullscreen
    BY DEF File!ToggleFullscreen, File!settingsVars
  <2> QED
    BY <2>1
<1>3. FileTyped' /\ FileFlags'
  BY <1>1, <1>2 DEF FileInv, FileTyped, FileFlags
<1>4. FileWhole' /\ FileThreads'
  BY <1>1, <1>2 DEF FileInv, FileWhole, FileThreads, File!Quiet, File!Idle, File!Threads
<1>5. windowFullscreen' <=> ~mem.fullscreen
  BY Zenon DEF File!ToggleFullscreen
<1>6. FileAgrees'
  BY <1>1, <1>2, <1>5 DEF FileInv, FileAgrees, FileAlone, Says, File!Quiet, File!Idle, File!Threads
<1>7. SettingsKept' /\ FullscreenAgrees'
  BY <1>1, <1>2 DEF SettingsKept, FullscreenAgrees, File!SettingsKept, File!FullscreenAgrees,
                    File!Quiet, File!Idle, File!Threads
<1> QED
  BY <1>3, <1>4, <1>6, <1>7 DEF FileInv

LEMMA FileScale ==
  ASSUME FileInv, File!ChooseScale PROVE FileInv'
<1>1. /\ phase = "open" /\ reset' = FALSE /\ overlapped' \in BOOLEAN
      /\ pc' \in [File!Threads -> FileSteps]
      /\ pc'["render"].at = "save" /\ pc'["window"] = pc["window"]
      /\ ~overlapped' => File!Quiet /\ ~overlapped
  BY FileBegin DEF File!ChooseScale, File!Threads, FilePlaces
<1>2. /\ UNCHANGED <<list, file, windowFullscreen, moving, phase, left>>
      /\ mem' \in File!Values /\ (mem'.fullscreen <=> mem.fullscreen)
  BY DEF File!ChooseScale, FileInv, FileTyped, File!Values
<1>3. FileTyped' /\ FileFlags'
  BY <1>1, <1>2 DEF FileInv, FileTyped, FileFlags
<1>4. FileWhole' /\ FileThreads'
  BY <1>1, <1>2 DEF FileInv, FileWhole, FileThreads, File!Quiet, File!Idle, File!Threads
<1>5. ~overlapped' => pc'["window"] = File!Idle /\ (windowFullscreen' <=> mem'.fullscreen)
  BY <1>1, <1>2 DEF FileInv, FullscreenAgrees, File!FullscreenAgrees, File!Quiet, File!Threads
<1>6. FileAgrees'
  BY <1>1, <1>2, <1>5 DEF FileAgrees, FileAlone, Says, File!Quiet, File!Idle, File!Threads
<1>7. SettingsKept' /\ FullscreenAgrees'
  BY <1>1, <1>2 DEF SettingsKept, FullscreenAgrees, File!SettingsKept, File!FullscreenAgrees,
                    File!Quiet, File!Idle, File!Threads
<1> QED
  BY <1>3, <1>4, <1>6, <1>7 DEF FileInv

(* The HUDs are moved: only their place changes, and while they move        *)
(* nothing is claimed of it; then a save begins.                            *)
LEMMA FileStartMoving ==
  ASSUME FileInv, File!StartMoving PROVE FileInv'
<1>1. /\ UNCHANGED <<mem, list, file, windowFullscreen, phase, pc, reset, overlapped, left>>
      /\ ~moving /\ moving' = TRUE /\ phase = "open"
  BY DEF File!StartMoving, File!settingsVars
<1>2. FileTyped' /\ FileFlags' /\ FileWhole' /\ FileThreads'
  BY <1>1 DEF FileInv, FileTyped, FileFlags, FileWhole, FileThreads, File!Quiet
<1>3. FileAgrees'
  <2>1. \A t \in File!Threads : FileAlone(t) => FileAlone(t)'
    BY <1>1 DEF FileAlone, File!Same
  <2>2. Says(mem, moving) => Says(mem, moving)'
    BY <1>1 DEF Says, File!Same
  <2> QED
    BY <1>1, <2>1, <2>2 DEF FileInv, FileAgrees, File!Quiet
<1>4. SettingsKept' /\ FullscreenAgrees'
  BY <1>1 DEF FileInv, SettingsKept, FullscreenAgrees, File!SettingsKept, File!FullscreenAgrees,
              File!Quiet
<1> QED
  BY <1>2, <1>3, <1>4 DEF FileInv

LEMMA FileMoveHud ==
  ASSUME FileInv, File!MoveHud PROVE FileInv'
<1>1. /\ UNCHANGED <<list, file, windowFullscreen, moving, phase, pc, reset, overlapped, left>>
      /\ moving /\ phase = "open"
  BY DEF File!MoveHud
<1>2. /\ mem' \in File!Values
      /\ mem'.fullscreen = mem.fullscreen /\ mem'.scale = mem.scale
  BY DEF File!MoveHud, FileInv, FileTyped, File!Values
<1>3. FileTyped' /\ FileFlags' /\ FileWhole' /\ FileThreads'
  BY <1>1, <1>2 DEF FileInv, FileTyped, FileFlags, FileWhole, FileThreads, File!Quiet
<1>4. FileAgrees'
  <2>1. \A t \in File!Threads : FileAlone(t) => FileAlone(t)'
    BY <1>1, <1>2 DEF FileAlone, File!Same
  <2>2. Says(mem, moving) => Says(mem, moving)'
    BY <1>1, <1>2 DEF Says, File!Same
  <2> QED
    BY <1>1, <2>1, <2>2 DEF FileInv, FileAgrees, File!Quiet
<1>5. SettingsKept' /\ FullscreenAgrees'
  BY <1>1, <1>2 DEF FileInv, SettingsKept, FullscreenAgrees, File!SettingsKept,
                    File!FullscreenAgrees, File!Quiet
<1> QED
  BY <1>3, <1>4, <1>5 DEF FileInv

LEMMA FileStopMoving ==
  ASSUME FileInv, File!StopMoving PROVE FileInv'
<1>1. /\ phase = "open" /\ reset' = FALSE /\ overlapped' \in BOOLEAN
      /\ pc' \in [File!Threads -> FileSteps]
      /\ pc'["render"].at = "save" /\ pc'["window"] = pc["window"]
      /\ ~overlapped' => File!Quiet /\ ~overlapped
  BY FileBegin DEF File!StopMoving, File!Threads, FilePlaces
<1>2. UNCHANGED <<mem, list, file, windowFullscreen, phase, left>> /\ moving' = FALSE
  BY DEF File!StopMoving, File!settingsVars
<1>3. FileTyped' /\ FileFlags'
  BY <1>1, <1>2 DEF FileInv, FileTyped, FileFlags
<1>4. FileWhole' /\ FileThreads'
  BY <1>1, <1>2 DEF FileInv, FileWhole, FileThreads, File!Quiet, File!Idle, File!Threads
<1>5. ~overlapped' => pc'["window"] = File!Idle /\ (windowFullscreen' <=> mem'.fullscreen)
  BY <1>1, <1>2 DEF FileInv, FullscreenAgrees, File!FullscreenAgrees, File!Quiet, File!Threads
<1>6. FileAgrees'
  BY <1>1, <1>2, <1>5 DEF FileAgrees, FileAlone, Says, File!Quiet, File!Idle, File!Threads
<1>7. SettingsKept' /\ FullscreenAgrees'
  BY <1>1, <1>2 DEF SettingsKept, FullscreenAgrees, File!SettingsKept, File!FullscreenAgrees,
                    File!Quiet, File!Idle, File!Threads
<1> QED
  BY <1>3, <1>4, <1>6, <1>7 DEF FileInv

(* F11: the window changes before the setting.                              *)
LEMMA FileSetFullscreen ==
  ASSUME FileInv, File!setFullscreen PROVE FileInv'
<1>1. /\ pc["window"].at = "test" /\ phase = "open"
      /\ UNCHANGED <<mem, list, file, moving, phase, reset, overlapped, left>>
  BY DEF File!setFullscreen, File!settingsVars, FileInv, FileTyped, FileThreads, File!Quiet,
         File!Idle, File!Threads
<1>2. CASE mem.fullscreen # pc["window"].fullscreen
  <2>1. /\ pc' \in [File!Threads -> FileSteps] /\ pc'["window"].at = "assign"
        /\ (pc'["window"].fullscreen <=> pc["window"].fullscreen)
        /\ pc'["render"] = pc["render"]
    BY <1>2, FileGoto DEF FileInv, File!setFullscreen, File!Threads, FilePlaces
  <2>2. windowFullscreen' = pc["window"].fullscreen /\ windowFullscreen' \in BOOLEAN
    BY <1>2 DEF FileInv, FileTyped, File!setFullscreen, File!Threads, FileSteps
  <2>3. FileTyped' /\ FileFlags'
    BY <1>1, <2>1, <2>2 DEF FileInv, FileTyped, FileFlags
  <2>4. FileWhole' /\ FileThreads'
    BY <1>1, <2>1 DEF FileInv, FileWhole, FileThreads, File!Quiet, File!Idle, File!Threads
  <2>5. FileAgrees'
    BY <1>1, <2>1, <2>2 DEF FileInv, FileAgrees, FileAlone, FileThreads, File!Quiet, File!Idle,
                            File!Threads
  <2>6. SettingsKept' /\ FullscreenAgrees'
    BY <1>1, <2>1 DEF SettingsKept, FullscreenAgrees, File!SettingsKept, File!FullscreenAgrees,
                      File!Quiet, File!Idle, File!Threads
  <2> QED
    BY <2>3, <2>4, <2>5, <2>6 DEF FileInv
<1>3. CASE mem.fullscreen = pc["window"].fullscreen
  <2>1. /\ pc' \in [File!Threads -> FileSteps] /\ pc'["window"] = File!Idle
        /\ pc'["render"] = pc["render"]
    BY <1>3, FileMove, FileValues DEF FileInv, File!setFullscreen, File!Threads
  <2>2. UNCHANGED windowFullscreen
    BY <1>3 DEF File!setFullscreen
  <2>3. overlapped                            (* another change came between *)
    BY <1>1, <1>3 DEF FileInv, FileAgrees, FileAlone, File!Threads
  <2>4. FileTyped' /\ FileFlags'
    BY <1>1, <2>1, <2>2 DEF FileInv, FileTyped, FileFlags, File!Idle
  <2>5. FileWhole' /\ FileThreads'
    BY <1>1, <2>1, <2>3 DEF FileInv, FileWhole, FileThreads, File!Quiet, File!Idle, File!Threads
  <2>6. FileAgrees' /\ SettingsKept' /\ FullscreenAgrees'
    BY <1>1, <2>3 DEF FileAgrees, SettingsKept, FullscreenAgrees, File!SettingsKept,
                      File!FullscreenAgrees
  <2> QED
    BY <2>4, <2>5, <2>6 DEF FileInv
<1> QED
  BY <1>2, <1>3

LEMMA FileAssign ==
  ASSUME FileInv, File!AssignFullscreen PROVE FileInv'
<1>1. /\ pc["window"].at = "assign"
      /\ UNCHANGED <<list, file, windowFullscreen, moving, phase, reset, overlapped, left>>
  BY DEF File!AssignFullscreen
<1>2. /\ pc' \in [File!Threads -> FileSteps] /\ pc'["window"].at = "save"
      /\ pc'["render"] = pc["render"]
  BY FileGoto DEF FileInv, File!AssignFullscreen, File!Threads, FilePlaces
<1>3. mem' \in File!Values /\ (mem'.fullscreen <=> pc["window"].fullscreen)
  BY DEF FileInv, FileTyped, File!AssignFullscreen, File!Values, File!Threads, FileSteps
<1>4. phase = "open"
  BY <1>1 DEF FileInv, FileTyped, FileThreads, File!Quiet, File!Idle, File!Threads
<1>5. FileTyped' /\ FileFlags'
  BY <1>1, <1>2, <1>3 DEF FileInv, FileTyped, FileFlags
<1>6. FileWhole' /\ FileThreads'
  BY <1>1, <1>2 DEF FileInv, FileWhole, FileThreads, File!Quiet, File!Idle, File!Threads
<1>7. FileAgrees'
  BY <1>1, <1>2, <1>3, <1>4 DEF FileInv, FileAgrees, FileAlone, FileThreads, File!Quiet, File!Idle,
                                File!Threads
<1>8. SettingsKept' /\ FullscreenAgrees'
  BY <1>1, <1>2, <1>4 DEF SettingsKept, FullscreenAgrees, File!SettingsKept,
                          File!FullscreenAgrees, File!Quiet, File!Idle, File!Threads
<1> QED
  BY <1>5, <1>6, <1>7, <1>8 DEF FileInv

(* The menu: the window changed first, too.                                 *)
LEMMA FileFlip ==
  ASSUME FileInv, File!FlipFullscreen PROVE FileInv'
<1>1. /\ pc["render"].at = "flip"
      /\ UNCHANGED <<list, file, windowFullscreen, moving, phase, reset, overlapped, left>>
  BY DEF File!FlipFullscreen
<1>2. /\ pc' \in [File!Threads -> FileSteps] /\ pc'["render"].at = "save"
      /\ pc'["window"] = pc["window"]
  BY FileGoto DEF FileInv, File!FlipFullscreen, File!Threads, FilePlaces
<1>3. mem' \in File!Values /\ (mem'.fullscreen <=> ~mem.fullscreen)
  BY DEF FileInv, FileTyped, File!FlipFullscreen, File!Values
<1>4. phase = "open"
  BY <1>1 DEF FileInv, FileTyped, FileThreads, File!Quiet, File!Idle, File!Threads
<1>5. FileTyped' /\ FileFlags'
  BY <1>1, <1>2, <1>3 DEF FileInv, FileTyped, FileFlags
<1>6. FileWhole' /\ FileThreads'
  BY <1>1, <1>2, <1>4 DEF FileInv, FileWhole, FileThreads, File!Quiet, File!Idle, File!Threads
<1>7. FileAgrees'
  BY <1>1, <1>2, <1>3, <1>4 DEF FileInv, FileAgrees, FileAlone, FileThreads, File!Quiet, File!Idle,
                                File!Threads
<1>8. SettingsKept' /\ FullscreenAgrees'
  BY <1>1, <1>2, <1>4 DEF SettingsKept, FullscreenAgrees, File!SettingsKept,
                          File!FullscreenAgrees, File!Quiet, File!Idle, File!Threads
<1> QED
  BY <1>5, <1>6, <1>7, <1>8 DEF FileInv

(* A save that runs alone brings the setting into the list and the file.    *)
LEMMA FileSave ==
  ASSUME FileInv, NEW t \in File!Threads, File!save(t) PROVE FileInv'
<1>1. /\ pc[t].at \in {"save", "truncate", "write", "close"}
      /\ UNCHANGED <<mem, windowFullscreen, moving, phase, reset, overlapped, left>>
  BY DEF File!save, File!SetProperties, File!Truncate, File!Write, File!Close, File!settingsVars
<1>2. phase # "off" /\ (~overlapped => \A u \in File!Threads : u # t => pc[u] = File!Idle)
  BY <1>1 DEF FileInv, FileThreads, File!Quiet, File!Idle, File!Threads
<1>3. FileFlags' /\ SettingsKept'
  BY <1>1 DEF FileInv, FileFlags, SettingsKept, File!SettingsKept
<1>4. CASE File!SetProperties(t)
  <2>1. /\ pc[t].at = "save" /\ UNCHANGED file
        /\ pc' \in [File!Threads -> FileSteps] /\ pc'[t].at = "truncate"
        /\ \A u \in File!Threads : u # t => pc'[u] = pc[u]
    BY <1>4, FileGoto DEF FileInv, File!SetProperties, FilePlaces
  <2>2. list' \in File!Values /\ list'.scale = mem.scale /\ list'.hud = mem.hud
    BY <1>4 DEF FileInv, FileTyped, File!SetProperties, File!Values
  <2>3. FileTyped'
    BY <1>1, <2>1, <2>2 DEF FileInv, FileTyped, File!Threads
  <2>4. FileWhole' /\ FileThreads'
    BY <1>1, <1>2, <2>1 DEF FileInv, FileWhole, FileThreads, File!Quiet, File!Idle, File!Threads
  <2>5. FileAgrees' /\ FullscreenAgrees'
    BY <1>1, <1>2, <2>1, <2>2 DEF FileInv, FileAgrees, FileAlone, FullscreenAgrees,
                                  File!FullscreenAgrees, File!Quiet, File!Idle, File!Threads
  <2> QED
    BY <1>3, <2>3, <2>4, <2>5 DEF FileInv
<1>5. CASE File!Truncate(t)
  <2>1. /\ pc[t].at = "truncate" /\ file' = {}
        /\ pc' \in [File!Threads -> FileSteps] /\ pc'[t].at = "write"
        /\ \A u \in File!Threads : u # t => pc'[u] = pc[u]
    BY <1>5, FileGoto DEF FileInv, File!Truncate, FilePlaces
  <2>2. /\ list' \in File!Values /\ (list'.fullscreen <=> mem.fullscreen)
        /\ list'.scale = list.scale /\ list'.hud = list.hud
    BY <1>5 DEF FileInv, FileTyped, File!Truncate, File!Values
  <2>3. ~overlapped => File!Same(list', mem, moving)
    BY <1>1, <1>2, <2>1, <2>2 DEF FileInv, FileAgrees, FileAlone, File!Same
  <2>4. FileTyped'
    BY <1>1, <2>1, <2>2 DEF FileInv, FileTyped, File!Threads
  <2>5. FileWhole' /\ FileThreads'
    BY <1>1, <1>2, <2>1 DEF FileInv, FileWhole, FileThreads, File!Quiet, File!Idle, File!Threads
  <2>6. FileAgrees' /\ FullscreenAgrees'
    BY <1>1, <1>2, <2>1, <2>3 DEF FileInv, FileAgrees, FileAlone, FullscreenAgrees,
                                  File!FullscreenAgrees, File!Quiet, File!Idle, File!Threads
  <2> QED
    BY <1>3, <2>4, <2>5, <2>6 DEF FileInv
<1>6. CASE File!Write(t)
  <2>1. list \in File!Values /\ pc[t].at = "write" /\ UNCHANGED <<list, file>>
    BY <1>6 DEF FileInv, FileTyped, File!Write, File!settingsVars
  <2>2. /\ pc' \in [File!Threads -> FileSteps] /\ pc'[t].at = "close" /\ pc'[t].text = {list}
        /\ \A u \in File!Threads : u # t => pc'[u] = pc[u]
    <3> DEFINE m == [pc[t] EXCEPT !.at = "close"]
               p == [pc EXCEPT ![t].at = "close"]
    <3>1. m = [at |-> "close", fullscreen |-> pc[t].fullscreen, text |-> pc[t].text]
      BY DEF FileInv, FileTyped, FileSteps
    <3>2. m \in FileSteps /\ {list} \in SUBSET File!Values
      <4>1. pc[t].fullscreen \in BOOLEAN
        BY DEF FileInv, FileTyped, FileSteps
      <4>2. pc[t].text \in SUBSET File!Values
        BY DEF FileInv, FileTyped, FileSteps
      <4> QED
        BY <2>1, <3>1, <4>1, <4>2 DEF FileSteps, FilePlaces
    <3>3. p = [pc EXCEPT ![t] = m] /\ pc \in [File!Threads -> FileSteps]
      BY DEF FileInv, FileTyped
    <3>4. m.at = "close"
      BY <3>1
    <3> HIDE DEF m
    <3>5. /\ p \in [File!Threads -> FileSteps] /\ p[t] = m
          /\ \A u \in File!Threads : u # t => p[u] = pc[u]
      BY <3>2, <3>3
    <3>6. pc' = [p EXCEPT ![t].text = {list}]
      BY <1>6 DEF File!Write
    <3> HIDE DEF p
    <3> DEFINE n == [m EXCEPT !.text = {list}]
    <3>7. n \in FileSteps /\ n.at = "close" /\ n.text = {list}
      BY <3>2, <3>4 DEF FileSteps
    <3>8. pc' = [p EXCEPT ![t] = n]
      BY <3>5, <3>6
    <3> HIDE DEF n
    <3> QED
      BY <3>5, <3>7, <3>8
  <2>3. FileTyped'
    BY <1>1, <2>1, <2>2 DEF FileInv, FileTyped, File!Threads
  <2>4. FileWhole' /\ FileThreads'
    BY <1>1, <1>2, <2>1, <2>2 DEF FileInv, FileWhole, FileThreads, File!Quiet, File!Idle, File!Threads
  <2>5. FileAgrees' /\ FullscreenAgrees'
    BY <1>1, <1>2, <2>1, <2>2 DEF FileInv, FileAgrees, FileAlone, FullscreenAgrees,
                                  File!FullscreenAgrees, File!Quiet, File!Idle, File!Threads
  <2> QED
    BY <1>3, <2>3, <2>4, <2>5 DEF FileInv
<1>7. CASE File!Close(t)
  <2>1. /\ pc[t].at = "close" /\ UNCHANGED list /\ file' = pc[t].text
        /\ pc' \in [File!Threads -> FileSteps] /\ pc'[t] = File!Idle
        /\ \A u \in File!Threads : u # t => pc'[u] = pc[u]
    BY <1>7, FileMove, FileValues DEF FileInv, File!Close
  <2>2. FileTyped'
    BY <1>1, <2>1 DEF FileInv, FileTyped, File!Threads, File!Idle
  <2>3. FileWhole' /\ FileThreads'
    BY <1>1, <1>2, <2>1 DEF FileInv, FileWhole, FileThreads, File!Quiet, File!Idle, File!Threads
  <2>4. FileAgrees'
    BY <1>1, <1>2, <2>1 DEF FileInv, FileAgrees, FileAlone, Says, File!Quiet, File!Idle, File!Threads
  <2>5. FullscreenAgrees'
    <3>1. windowFullscreen \in BOOLEAN /\ mem.fullscreen \in BOOLEAN
      BY DEF FileInv, FileTyped, FileFlags, File!Values
    <3>2. phase = "open" /\ ~overlapped => (windowFullscreen <=> mem.fullscreen)
      BY <2>1 DEF FileInv, FileAgrees, FileAlone
    <3> QED
      BY <1>1, <3>1, <3>2 DEF FullscreenAgrees, File!FullscreenAgrees
  <2> QED
    BY <1>3, <2>2, <2>3, <2>4, <2>5 DEF FileInv
<1> QED
  BY <1>4, <1>5, <1>6, <1>7 DEF File!save

LEMMA FileStep == FileInv /\ [File!Next]_fileVars => FileInv'
<1>1. FileInv /\ UNCHANGED fileVars => FileInv'
  BY DEF FileInv, FileTyped, FileFlags, FileWhole, FileThreads, FileAgrees, FileAlone, Says,
         SettingsKept, FullscreenAgrees, File!SettingsKept, File!FullscreenAgrees, File!Quiet
<1> QED
  BY <1>1, FileLoad, FileReset, FileOpen, FileExit, FilePress, FileSetFullscreen, FileAssign,
     FileToggle, FileFlip, FileScale, FileStartMoving, FileMoveHud, FileStopMoving, FileSave
     DEF File!Next

-----------------------------------------------------------------------------
(* The web view of the sign-in: xal_webview_qt.cpp.                         *)

(* The least member of a set of numbers.                                    *)
LEMMA MinIsLeast ==
  ASSUME NEW S \in SUBSET Nat, S # {}
  PROVE  WebView!Min(S) \in S /\ \A k \in S : WebView!Min(S) <= k
<1>1. PICK m \in S : \A k \in S : ~(<<k, m>> \in OpToRel(<, Nat))
  BY NatLessThanWellFounded, WFMin
<1>2. ASSUME NEW k \in S PROVE m <= k
  <2>1. OpToRel(<, Nat) = {ss \in Nat \X Nat : ss[1] < ss[2]}
    BY Zenon DEF OpToRel
  <2>2. ~(<<k, m>> \in {ss \in Nat \X Nat : ss[1] < ss[2]})
    BY <1>1, <2>1, Zenon
  <2>3. ~(k < m)
    BY <2>2
  <2> QED
    BY <2>3
<1> QED
  BY <1>2 DEF WebView!Min

(* A place that is found holds such a piece, and no piece before it, from   *)
(* the start of the search on, is one.                                      *)
LEMMA FindFirstProperties ==
  ASSUME NEW r \in Seq(WebView!Pieces), NEW pieces, NEW from \in Nat
  PROVE  LET f == WebView!FindFirst(r, pieces, from)
         IN  /\ f \in Nat
             /\ f # WebView!Npos => f \in from..(Len(r) - 1) /\ r[f + 1] \in pieces
             /\ \A k \in (from + 1)..Len(r) : k <= f => r[k] \notin pieces
<1> DEFINE places == {k \in from..(Len(r) - 1) : r[k + 1] \in pieces} \cup {WebView!Npos}
<1>1. places \in SUBSET Nat /\ WebView!Npos \in places
  BY DEF WebView!Npos
<1>2. WebView!FindFirst(r, pieces, from) = WebView!Min(places)
  BY DEF WebView!FindFirst
<1>3. WebView!Min(places) \in places /\ \A k \in places : WebView!Min(places) <= k
  BY ONLY <1>1, MinIsLeast
<1> DEFINE f == WebView!Min(places)
<1>4. f \in Nat
  BY <1>1, <1>3
<1>5. ASSUME f # WebView!Npos PROVE f \in from..(Len(r) - 1) /\ r[f + 1] \in pieces
  BY <1>3, <1>5
<1>6. ASSUME NEW k \in (from + 1)..Len(r), k <= f PROVE r[k] \notin pieces
  <2>1. k - 1 \in from..(Len(r) - 1) /\ (k - 1) + 1 = k /\ ~(f <= k - 1)
    BY <1>4, <1>6
  <2>2. k - 1 \notin places
    BY <1>3, <2>1
  <2> QED
    BY <2>1, <2>2
<1> HIDE DEF f
<1> QED
  BY <1>2, <1>4, <1>5, <1>6 DEF f

(* What show cuts out starts with the prefix, and holds nothing that is no  *)
(* part of a url when the url comes first.                                  *)
LEMMA UrlProperties ==
  ASSUME NEW r \in Seq(WebView!Pieces)
  PROVE  LET u == WebView!Url(r)
         IN  /\ u \in Seq(WebView!Pieces)
             /\ u # <<>> => /\ u[1] = "prefix"
                            /\ r[1] = "prefix" => \A k \in 1..Len(u) : u[k] # "other"
<1> DEFINE iurl == WebView!FindFirst(r, {"prefix"}, 0)
           eurl == WebView!FindFirst(r, {"other"}, iurl)
           last == WebView!Min({iurl + eurl, Len(r)})
           u == SubSeq(r, iurl + 1, last)
<1>1. /\ iurl \in Nat
      /\ iurl # WebView!Npos => iurl \in 0..(Len(r) - 1) /\ r[iurl + 1] = "prefix"
      /\ \A k \in 1..Len(r) : k <= iurl => r[k] # "prefix"
  BY FindFirstProperties
<1>2. /\ eurl \in Nat
      /\ \A k \in (iurl + 1)..Len(r) : k <= eurl => r[k] # "other"
  BY <1>1, FindFirstProperties
<1>3. Len(r) \in Nat
  OBVIOUS
<1> HIDE DEF iurl, eurl
<1>4. last \in Nat /\ last <= iurl + eurl /\ last <= Len(r)
  <2>1. {iurl + eurl, Len(r)} \in SUBSET Nat /\ {iurl + eurl, Len(r)} # {}
    BY <1>1, <1>2, <1>3
  <2> HIDE DEF last
  <2> QED
    BY <1>1, <1>2, <1>3, <2>1, MinIsLeast DEF last
<1>5. WebView!Url(r) = IF iurl = WebView!Npos THEN <<>> ELSE u
  BY DEF WebView!Url, WebView!Substr, iurl, eurl
<1> HIDE DEF last
<1>6. /\ u \in Seq(WebView!Pieces)
      /\ Len(u) = IF iurl + 1 <= last THEN last - iurl ELSE 0
      /\ \A k \in 1..(last - iurl) : u[k] = r[iurl + k]
  <2>1. \A k \in (iurl + 1)..last : r[k] \in WebView!Pieces
    BY <1>1, <1>3, <1>4
  <2> HIDE DEF u
  <2> QED
    BY <1>1, <1>4, <2>1, SubSeqProperties DEF u
<1> HIDE DEF u
<1>7. CASE iurl = WebView!Npos
  BY <1>5, <1>7
<1>8. CASE iurl # WebView!Npos
  <2>1. ASSUME u # <<>> PROVE u[1] = "prefix"
    <3>1. iurl + 1 <= last
      BY <1>1, <1>4, <1>6, <2>1, EmptySeq
    <3> QED
      BY <1>1, <1>4, <1>6, <1>8, <3>1
  <2>2. ASSUME r[1] = "prefix", NEW k \in 1..Len(u) PROVE u[k] # "other"
    <3>1. iurl = 0
      BY <1>1, <1>3, <1>8, <2>2
    <3>2. k \in 1..last
      BY <1>4, <1>6, <2>2, <3>1
    <3> QED
      BY <1>2, <1>3, <1>4, <1>6, <3>1, <3>2
  <2> QED
    BY <1>5, <1>6, <1>8, <2>1, <2>2
<1> QED
  BY <1>7, <1>8

WebViewInv ==
  /\ WebView!TypeOK
  /\ parent = "returned" => url = <<>> \/ url = WebView!Url(result)

LEMMA WebViewGoals == WebViewInv => UrlOnly
<1> SUFFICES ASSUME WebViewInv, parent = "returned", url # <<>>
             PROVE  url[1] = "prefix" /\ ("other" \in WebView!ToSet(url) => result[1] # "prefix")
  BY DEF UrlOnly, WebView!UrlOnly
<1>1. result \in Seq(WebView!Pieces) /\ url = WebView!Url(result) /\ url \in Seq(WebView!Pieces)
  BY DEF WebViewInv, WebView!TypeOK
<1>2. /\ url[1] = "prefix"
      /\ result[1] = "prefix" => \A k \in 1..Len(url) : url[k] # "other"
  BY <1>1, UrlProperties
<1>3. "other" \in WebView!ToSet(url) => \E k \in 1..Len(url) : url[k] = "other"
  BY <1>1 DEF WebView!ToSet
<1> QED
  BY <1>2, <1>3

LEMMA WebViewInit == WebView!Init => WebViewInv
<1> SUFFICES ASSUME WebView!Init PROVE WebViewInv
  OBVIOUS
<1>1. <<>> \in Seq(WebView!Pieces) /\ Len(<<>>) = 0
  BY EmptySeq
<1> QED
  BY <1>1 DEF WebView!Init, WebViewInv, WebView!TypeOK

LEMMA WebViewStep == WebViewInv /\ [WebView!Next]_viewVars => WebViewInv'
<1> SUFFICES ASSUME WebViewInv, [WebView!Next]_viewVars PROVE WebViewInv'
  OBVIOUS
<1> USE DEF WebViewInv, WebView!TypeOK
<1>1. CASE WebView!WriteOut
  <2>1. /\ out' \in Seq(WebView!Pieces) /\ Len(out') = Len(out) + 1
        /\ Len(out) \in Nat /\ Len(out) < PipeSize
    BY <1>1, LenProperties, AppendProperties DEF WebView!WriteOut
  <2>2. Len(out') <= PipeSize
    BY <2>1
  <2>3. writes' \in 0..MaxWrites
    BY <1>1 DEF WebView!WriteOut
  <2>4. UNCHANGED <<err, child, parent, result, url>>
    BY <1>1 DEF WebView!WriteOut
  <2> QED
    BY <2>1, <2>2, <2>3, <2>4
<1>2. CASE WebView!WriteErr
  BY <1>2 DEF WebView!WriteErr
<1>3. CASE WebView!Killed \/ WebView!Exit
  BY <1>3 DEF WebView!Killed, WebView!Exit
<1>4. CASE WebView!ReadStdout
  <2> DEFINE n == WebView!Min({ReadSize, Len(out)})
  <2>1. Len(out) \in Nat /\ {ReadSize, Len(out)} \in SUBSET Nat /\ {ReadSize, Len(out)} # {}
    OBVIOUS
  <2> HIDE DEF n
  <2>2. n \in Nat /\ n <= ReadSize /\ n <= Len(out)
    BY <2>1, MinIsLeast DEF n
  <2>3. result' = SubSeq(out, 1, n) /\ out' = SubSeq(out, n + 1, Len(out))
    BY <1>4 DEF WebView!ReadStdout, n
  <2>4. result' \in Seq(WebView!Pieces) /\ Len(result') <= ReadSize
    <3>1. \A k \in 1..n : out[k] \in WebView!Pieces
      BY <2>1, <2>2
    <3>2. /\ SubSeq(out, 1, n) \in Seq(WebView!Pieces)
          /\ Len(SubSeq(out, 1, n)) = IF 1 <= n THEN n - 1 + 1 ELSE 0
      BY <2>2, <3>1, SubSeqProperties
    <3> QED
      BY <2>2, <2>3, <3>2
  <2>5. out' \in Seq(WebView!Pieces) /\ Len(out') <= PipeSize
    <3>1. \A k \in (n + 1)..Len(out) : out[k] \in WebView!Pieces
      BY <2>1, <2>2
    <3>2. /\ SubSeq(out, n + 1, Len(out)) \in Seq(WebView!Pieces)
          /\ Len(SubSeq(out, n + 1, Len(out))) =
               IF n + 1 <= Len(out) THEN Len(out) - (n + 1) + 1 ELSE 0
      BY <2>1, <2>2, <3>1, SubSeqProperties
    <3> QED
      BY <2>1, <2>2, <2>3, <3>2
  <2>6. parent' = "stderr" /\ UNCHANGED <<err, child, writes, url>>
    BY <1>4 DEF WebView!ReadStdout, WebView!childVars
  <2> QED
    BY <2>4, <2>5, <2>6
<1>5. CASE WebView!ReadStderr
  BY <1>5 DEF WebView!ReadStderr, WebView!childVars
<1>6. CASE WebView!show
  <2>1. /\ parent' = "returned" /\ url' = IF child = "failed" THEN <<>> ELSE WebView!Url(result)
        /\ UNCHANGED <<out, err, child, writes, result>>
    BY <1>6 DEF WebView!show, WebView!childVars
  <2>2. WebView!Url(result) \in Seq(WebView!Pieces) /\ <<>> \in Seq(WebView!Pieces)
    BY UrlProperties
  <2> QED
    BY <2>1, <2>2
<1>7. CASE UNCHANGED viewVars
  BY <1>7
<1> HIDE DEF WebViewInv
<1> QED
  BY <1>1, <1>2, <1>3, <1>4, <1>5, <1>6, <1>7 DEF WebView!Next, WebView!Launcher

-----------------------------------------------------------------------------
(* The size of the window, imgui_ui.cpp and window_callbacks.cpp, and the   *)
(* text of the game, main_activity.cpp and jni_support.cpp: their types.    *)
(* What they promise is about the end of the changes.                       *)

LEMMA SizeInit == Size!Init => Size!TypeOK
<1> SUFFICES ASSUME Size!Init PROVE Size!TypeOK
  OBVIOUS
<1>1. height \in Nat /\ height \in Heights
  BY DEF Size!Init
<1>2. gameHeight = height - 0
  BY <1>1 DEF Size!Init
<1>3. shown \in BOOLEAN
  BY DEF Size!Init
<1> QED
  BY <1>1, <1>2, <1>3 DEF Size!Init, Size!TypeOK

LEMMA SizeStep == Size!TypeOK /\ [Size!Next]_sizeVars => Size!TypeOK'
<1> SUFFICES ASSUME Size!TypeOK, [Size!Next]_sizeVars PROVE Size!TypeOK'
  OBVIOUS
<1> USE DEF Size!TypeOK
<1>1. CASE Size!Resize
  BY <1>1 DEF Size!Resize, Size!Change
<1>2. CASE Size!ToggleMenubar
  BY <1>2 DEF Size!ToggleMenubar, Size!Change
<1>3. CASE Size!DrawFrame
  BY <1>3 DEF Size!DrawFrame
<1>4. CASE Size!startSendEvents
  BY <1>4 DEF Size!startSendEvents
<1>5. CASE Size!TellMenubar
  BY <1>5 DEF Size!TellMenubar
<1>6. CASE Size!onWindowSizeCallback
  BY <1>6 DEF Size!onWindowSizeCallback
<1>7. CASE UNCHANGED sizeVars
  BY <1>7
<1> HIDE DEF Size!TypeOK
<1> QED
  BY <1>1, <1>2, <1>3, <1>4, <1>5, <1>6, <1>7, Zenon DEF Size!Next, Size!Poll

(* The loop and a setState that is under way have an object.                *)
TextInv ==
  /\ Text!TypeOK
  /\ loop.at # "poll" => loop.state # 0
  /\ setting => current # 0

LEMMA TextInit == Text!Init => TextInv
<1> SUFFICES ASSUME Text!Init PROVE TextInv
  OBVIOUS
<1>1. Text!Blank \in Text!Fields
  BY DEF Text!Blank, Text!Fields
<1>2. objects \in Seq(Text!Fields) /\ Len(objects) = 0
  BY EmptySeq DEF Text!Init
<1>3. fieldEnabled \in BOOLEAN /\ setting \in BOOLEAN /\ crossed \in BOOLEAN
  BY DEF Text!Init
<1> QED
  BY <1>1, <1>2, <1>3 DEF Text!Init, TextInv, Text!TypeOK

LEMMA TextStep == TextInv /\ [Text!Next]_textVars => TextInv'
<1> SUFFICES ASSUME TextInv, [Text!Next]_textVars PROVE TextInv'
  OBVIOUS
<1> USE DEF TextInv, Text!TypeOK, Text!gameVars
<1>0. Len(objects) \in Nat /\ \A k \in 1..Len(objects) : objects[k] \in Text!Fields
  BY LenProperties, ElementOfSeq
<1>1. CASE Text!setState
  <2>1. PICK f \in Text!Fields : game' = f /\ objects' = Append(objects, f)
    BY <1>1 DEF Text!setState
  <2>2. objects' \in Seq(Text!Fields) /\ Len(objects') = Len(objects) + 1 /\ current' = Len(objects')
    BY <1>1, <2>1, AppendProperties DEF Text!setState
  <2>3. changed' \in 0..MaxChanges /\ UNCHANGED <<textInput, loop>>
    BY <1>1 DEF Text!setState, Text!Change
  <2>4. setting' \in BOOLEAN /\ crossed' \in BOOLEAN /\ fieldEnabled' \in BOOLEAN
    BY <1>1 DEF Text!setState
  <2>5. loop.state \in 0..current' /\ current' # 0
    BY <1>0, <2>2
  <2> QED
    BY <2>1, <2>2, <2>3, <2>4, <2>5
<1>2. CASE Text!UpdateTextInput
  <2>1. objects[current] \in Text!Fields
    BY <1>0, <1>2 DEF Text!UpdateTextInput
  <2>2. textInput' \in Text!Fields
    BY <1>2, <2>1 DEF Text!UpdateTextInput, Text!Fields
  <2>3. /\ UNCHANGED <<fieldEnabled, objects, current, game, loop, crossed, changed>>
        /\ setting' = FALSE
    BY <1>2 DEF Text!UpdateTextInput
  <2> QED
    BY <2>2, <2>3
<1>3. CASE Text!setSoftKeyboardActive
  <2>1. \A text \in 0..MaxText : Text!Updated(text) \in Text!Fields
    BY DEF Text!Updated, Text!Fields
  <2>2. current # 0 => objects[current].text \in 0..MaxText
    <3>1. current # 0 => objects[current] \in Text!Fields
      BY <1>0
    <3> QED
      BY <3>1 DEF Text!Fields
  <2>3. textInput' \in Text!Fields
    BY <1>3, <2>1, <2>2 DEF Text!setSoftKeyboardActive
  <2>4. changed' \in 0..MaxChanges /\ UNCHANGED <<objects, current, game, setting, loop, crossed>>
    BY <1>3 DEF Text!setSoftKeyboardActive, Text!Change
  <2>5. fieldEnabled' \in BOOLEAN
    BY <1>3 DEF Text!setSoftKeyboardActive
  <2> QED
    BY <2>3, <2>4, <2>5
<1>4. CASE Text!Edit
  BY <1>4 DEF Text!Edit, Text!Change
<1>5. CASE Text!CompareState
  BY <1>0, <1>5 DEF Text!CompareState
<1>6. CASE Text!WriteState
  <2>1. /\ objects' \in Seq(Text!Fields) /\ Len(objects') = Len(objects)
    BY <1>0, <1>6, ExceptSeq DEF Text!WriteState
  <2>2. loop'.at = "tell" /\ loop'.state = loop.state /\ loop.state # 0
    BY <1>6 DEF Text!WriteState
  <2>3. UNCHANGED <<textInput, fieldEnabled, current, game, setting, crossed, changed>>
    BY <1>6 DEF Text!WriteState
  <2> QED
    BY <2>1, <2>2, <2>3
<1>7. CASE Text!onTextInputEventNative
  <2>1. game' \in Text!Fields
    BY <1>0, <1>7 DEF Text!onTextInputEventNative
  <2>2. loop'.at = "poll" /\ loop'.state = loop.state
    BY <1>7 DEF Text!onTextInputEventNative
  <2>3. UNCHANGED <<textInput, fieldEnabled, objects, current, setting, changed>>
    BY <1>7 DEF Text!onTextInputEventNative
  <2>4. crossed' \in BOOLEAN
    BY <1>7 DEF Text!onTextInputEventNative
  <2> QED
    BY <2>1, <2>2, <2>3, <2>4
<1>8. CASE UNCHANGED textVars
  BY <1>8
<1> QED
  BY <1>1, <1>2, <1>3, <1>4, <1>5, <1>6, <1>7, <1>8 DEF Text!Next, Text!Loop

-----------------------------------------------------------------------------
(* The composition.                                                         *)

(* A step of the composition is one of every part, or leaves it alone.      *)
LEMMA PartSteps ==
  [ServicesNext]_servicesVars =>
    /\ component' = component
    /\ [Next]_vars /\ [Audio!Next]_audioVars /\ [Size!Next]_sizeVars /\ [File!Next]_fileVars
    /\ [Text!Next]_textVars /\ [WebView!Next]_viewVars /\ [GL!Next]_glVars
    /\ [Xbox!Next]_xboxVars /\ [Launcher!Next]_launcherVars
<1> SUFFICES ASSUME [ServicesNext]_servicesVars
             PROVE  /\ component' = component
                    /\ [Next]_vars /\ [Audio!Next]_audioVars /\ [Size!Next]_sizeVars
                    /\ [File!Next]_fileVars /\ [Text!Next]_textVars /\ [WebView!Next]_viewVars
                    /\ [GL!Next]_glVars /\ [Xbox!Next]_xboxVars /\ [Launcher!Next]_launcherVars
  OBVIOUS
<1>1. CASE UNCHANGED servicesVars
  BY <1>1 DEF servicesVars, vars
<1>2. CASE ServicesNext
  <2>1. Others
    BY <1>2 DEF ServicesNext
  <2> QED
    BY <1>2, <2>1 DEF ServicesNext, Others, Runs
<1> QED
  BY <1>1, <1>2

(* The invariants of the parts together: no part reads another's state.     *)
ServicesInv ==
  /\ component \in Components
  /\ WindowsInv /\ AudioInv /\ Size!TypeOK /\ FileInv /\ TextInv
  /\ WebViewInv /\ GLInv /\ XboxInv /\ LauncherInv

THEOREM ServicesInvariance == ServicesSpec => []ServicesInv
<1>1. ServicesInit => ServicesInv
  BY InitInv, AudioInit, SizeInit, FileInit, TextInit, WebViewInit, GLInit, XboxInit, LauncherInit
     DEF ServicesInit, ServicesInv
<1>2. ServicesInv /\ [ServicesNext]_servicesVars => ServicesInv'
  BY PartSteps, InvStep, AudioStep, SizeStep, FileStep, TextStep, WebViewStep, GLStep, XboxStep,
     LauncherStep DEF ServicesInv
<1> QED
  BY <1>1, <1>2, PTL DEF ServicesSpec

(* Every variable of every part stays in its range.                         *)
THEOREM ServicesTypeCorrect == ServicesSpec => []TypesOK
<1>1. WindowsInv => TypeOK
  BY DEF WindowsInv, Typed, Drawing, TypeOK, Window, Calls
<1>2. ServicesInv => TypesOK
  BY <1>1, FileGoals, LauncherGoals
     DEF ServicesInv, TypesOK, AudioInv, TextInv, WebViewInv, GLInv, XboxInv
<1> QED
  BY <1>2, ServicesInvariance, PTL

(* fake_audio.cpp: no buffer is freed, moved or overrun while the game      *)
(* fills it, and a disconnect is reported only when the device is gone or   *)
(* while the game stops the stream.                                         *)
THEOREM AudioKept == ServicesSpec => []StreamKept
<1>1. ServicesInv => StreamKept
  BY DEF ServicesInv, AudioInv
<1> QED
  BY <1>1, ServicesInvariance, PTL

(* settings.cpp: what was saved is what the next start loads, when one      *)
(* thread at a time changes the settings.                                   *)
THEOREM SettingsSurvive == ServicesSpec => []SettingsKept
<1>1. ServicesInv => SettingsKept
  BY DEF ServicesInv, FileInv
<1> QED
  BY <1>1, ServicesInvariance, PTL

(* The window is fullscreen as the setting says, when one thread at a time  *)
(* changes the settings.                                                    *)
THEOREM FullscreenFollows == ServicesSpec => []FullscreenAgrees
<1>1. ServicesInv => FullscreenAgrees
  BY DEF ServicesInv, FileInv
<1> QED
  BY <1>1, ServicesInvariance, PTL

(* xal_webview_qt.cpp: show returns a url with the prefix, and nothing      *)
(* after it when the output starts with the url.                            *)
THEOREM ShowFindsUrl == ServicesSpec => []UrlOnly
<1>1. ServicesInv => UrlOnly
  BY WebViewGoals DEF ServicesInv
<1> QED
  BY <1>1, ServicesInvariance, PTL

(* gl_core_patch.cpp: the game draws with the vertex array of its program   *)
(* and with the buffers it bound, links and deletions excepted.             *)
THEOREM PatchDraws == ServicesSpec => []DrawsAsBound
<1>1. ServicesInv => DrawsAsBound
  BY DEF ServicesInv, GLInv
<1> QED
  BY <1>1, ServicesInvariance, PTL

(* xbox_live_helper.cpp: a request is answered once, and only a shutdown    *)
(* makes a thread use what is gone.                                         *)
THEOREM RequestAnswered == ServicesSpec => []OneAnswer
<1>1. ServicesInv => OneAnswer
  BY DEF ServicesInv, XboxInv
<1> QED
  BY <1>1, ServicesInvariance, PTL

(* main.cpp: whichever attempt succeeds, the game starts with libraries     *)
(* that fit each other, and its mods saw them.                              *)
THEOREM GameFits == ServicesSpec => []StartFits
<1>1. ServicesInv => StartFits
  BY LauncherGoals DEF ServicesInv
<1> QED
  BY <1>1, ServicesInvariance, PTL
=============================================================================
