---------------------------- MODULE LauncherStart ----------------------------
(***************************************************************************)
(* How main loads the game (main.cpp): the graphics library, the mods that *)
(* come before the game, up to three attempts at the game itself, the mods *)
(* that come after, the patch for desktop OpenGL, and the start.           *)
(*                                                                         *)
(* The game is external: it may need the functions of libGLESv2, which is  *)
(* an empty stub while desktop OpenGL is intended, or refuse the libfmod   *)
(* of the host; it may be free, and may have what the patch replaces.      *)
(***************************************************************************)
EXTENDS Naturals

VARIABLES
  options,        (* [forceEgl, freeOnly, disableFmod]                       *)
  theGame,        (* [broken, needsGles, refusesFmod, isFree, patchable]     *)
  at,             (* what main does next                                     *)
  graphicsApi,
  libGLESv2,      (* "none", "stub" or "real"                                *)
  libfmod,        (* the host's is loaded                                    *)
  windows,        (* windows made by FakeLooper::initWindow                  *)
  handle,         (* the game is loaded                                      *)
  preinit,        (* [from, libGLESv2] of the mods loaded before the game    *)
  mods,           (* where the mods loaded after the game came from          *)
  enabled         (* GLCorePatch::enabled                                    *)

vars == <<options, theGame, at, graphicsApi, libGLESv2, libfmod, windows, handle,
          preinit, mods, enabled>>
inputs == <<options, theGame>>

Init ==
  /\ options \in [forceEgl : BOOLEAN, freeOnly : BOOLEAN, disableFmod : BOOLEAN]
  /\ theGame \in [broken : BOOLEAN, needsGles : BOOLEAN, refusesFmod : BOOLEAN,
                  isFree : BOOLEAN, patchable : BOOLEAN]
  /\ at = "libraries"
  /\ graphicsApi = IF options.forceEgl THEN "OPENGL_ES2" ELSE "OPENGL"
  /\ libGLESv2 = "none" /\ libfmod = FALSE /\ windows = 0 /\ handle = FALSE
  /\ preinit = {} /\ mods = {} /\ enabled = FALSE

Dirs == {"mods", "modDirs"}
LoadMods(dirs) == IF options.freeOnly THEN {} ELSE dirs

(* loadMinecraftLib, with the libraries as they are by then.                *)
loadMinecraftLib ==
  ~theGame.broken /\ (theGame.needsGles => libGLESv2' = "real") /\ (theGame.refusesFmod => ~libfmod')

(* eglGetProcAddress needs a window.                                        *)
SetupGLES2 == windows' = windows + 1 /\ libGLESv2' = "real"

LoadLibraries ==
  /\ at = "libraries" /\ at' = "preinit"
  /\ IF options.disableFmod THEN libfmod' = FALSE ELSE libfmod' \in BOOLEAN
  /\ IF graphicsApi = "OPENGL_ES2" THEN SetupGLES2
     ELSE libGLESv2' = "stub" /\ UNCHANGED windows
  /\ UNCHANGED <<inputs, graphicsApi, handle, preinit, mods, enabled>>

LoadPreinitMods ==
  /\ at = "preinit" /\ at' = "game"
  /\ preinit' = [from : LoadMods(Dirs), libGLESv2 : {libGLESv2}]
  /\ UNCHANGED <<inputs, graphicsApi, libGLESv2, libfmod, windows, handle, mods, enabled>>

LoadGame ==
  /\ at = "game" /\ at' = "again"
  /\ UNCHANGED <<libGLESv2, libfmod>>
  /\ handle' = loadMinecraftLib
  /\ UNCHANGED <<inputs, graphicsApi, windows, preinit, mods, enabled>>

(* Mutant: the mods are not loaded again.                                   *)
FallBackWithoutMods ==
  /\ at = "again" /\ at' = "fmod"
  /\ UNCHANGED libfmod
  /\ IF ~handle /\ graphicsApi = "OPENGL"
     THEN /\ graphicsApi' = "OPENGL_ES2" /\ SetupGLES2
          /\ handle' = loadMinecraftLib
     ELSE UNCHANGED <<graphicsApi, libGLESv2, windows, handle>>
  /\ UNCHANGED <<inputs, preinit, mods, enabled>>

(* The stub is replaced, and mods that failed for want of it come again:    *)
(* those of the data directory, not those of --mods.                        *)
FallBack ==
  /\ at = "again" /\ at' = "fmod"
  /\ UNCHANGED libfmod
  /\ IF ~handle /\ graphicsApi = "OPENGL"
     THEN /\ graphicsApi' = "OPENGL_ES2" /\ SetupGLES2
          /\ preinit' = preinit \cup [from : LoadMods({"mods"}), libGLESv2 : {"real"}]
          /\ handle' = loadMinecraftLib
     ELSE UNCHANGED <<graphicsApi, libGLESv2, windows, preinit, handle>>
  /\ UNCHANGED <<inputs, mods, enabled>>

UnloadFmod ==
  /\ at = "fmod" /\ UNCHANGED libGLESv2
  /\ IF ~handle /\ ~options.disableFmod
     THEN libfmod' = FALSE /\ handle' = loadMinecraftLib
     ELSE UNCHANGED <<libfmod, handle>>
  /\ at' = IF handle' THEN "mods" ELSE "returned 51"
  /\ UNCHANGED <<inputs, graphicsApi, windows, preinit, mods, enabled>>

LoadModsAfter ==
  /\ at = "mods"
  /\ mods' = LoadMods(Dirs)
  /\ at' = IF options.freeOnly /\ ~theGame.isFree THEN "returned 1" ELSE "patches"
  /\ UNCHANGED <<inputs, graphicsApi, libGLESv2, libfmod, windows, handle, preinit, enabled>>

(* GLCorePatch::install throws when it does not find its place.             *)
InstallPatches ==
  /\ at = "patches" /\ at' = "started"
  /\ enabled' = (graphicsApi = "OPENGL" /\ theGame.patchable)
  /\ graphicsApi' = IF enabled' THEN "OPENGL" ELSE "OPENGL_ES2"
  /\ UNCHANGED <<inputs, libGLESv2, libfmod, windows, handle, preinit, mods>>

Next ==
  \/ LoadLibraries \/ LoadPreinitMods \/ LoadGame \/ FallBack \/ UnloadFmod
  \/ LoadModsAfter \/ InstallPatches

Spec == Init /\ [][Next]_vars

-----------------------------------------------------------------------------
(* The values of the variables.                                             *)
TypeOK ==
  /\ at \in {"libraries", "preinit", "game", "again", "fmod", "mods", "patches", "started",
             "returned 1", "returned 51"}
  /\ graphicsApi \in {"OPENGL", "OPENGL_ES2"} /\ libGLESv2 \in {"none", "stub", "real"}
  /\ libfmod \in BOOLEAN /\ windows \in 0..2 /\ handle \in BOOLEAN /\ enabled \in BOOLEAN
  /\ preinit \subseteq [from : Dirs, libGLESv2 : {"stub", "real"}] /\ mods \subseteq Dirs

(* Whichever attempt succeeded, the game starts with libraries that fit:    *)
(* desktop OpenGL exactly when the patch is in, on the empty libGLESv2 the  *)
(* patch requires; one window made early exactly with the real libGLESv2;   *)
(* and the mods that come before the game saw the libGLESv2 the game has,   *)
(* except those of --mods after the attempt with the stub failed.  With     *)
(* --free-only only a free game starts, and without mods.                   *)
StartFits ==
  at = "started" =>
    /\ handle /\ (theGame.needsGles => libGLESv2 = "real")
    /\ (graphicsApi = "OPENGL") = enabled
    /\ enabled => libGLESv2 = "stub"
    /\ windows = (IF libGLESv2 = "real" THEN 1 ELSE 0)
    /\ IF options.freeOnly THEN theGame.isFree /\ preinit = {} /\ mods = {}
       ELSE \A d \in Dirs :
              d \in mods /\ (d = "mods" \/ options.forceEgl \/ libGLESv2 = "stub" =>
                [from |-> d, libGLESv2 |-> libGLESv2] \in preinit)
=============================================================================
