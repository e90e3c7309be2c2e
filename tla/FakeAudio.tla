------------------------------ MODULE FakeAudio ------------------------------
(***************************************************************************)
(* The AAudio stream the launcher gives the game (fake_audio.cpp): the     *)
(* game starts, stops, resizes and closes it on its own thread, and the    *)
(* thread of SDL calls back for data without a lock.                       *)
(*                                                                         *)
(* The game starts only a stream that does not play.  SDL is external: a   *)
(* stream calls back from its resume on, and its destruction waits for a   *)
(* callback that runs.                                                     *)
(***************************************************************************)
EXTENDS Naturals

CONSTANT MaxSize       (* bound: sizes of the buffer and of what SDL asks for *)

NULL == 0              (* addresses: a buffer that moves goes from 1 to 2     *)

VARIABLES
  s,                   (* stream->s: whether it is set                        *)
  audioBuffer, audioBufferSize,
  playing,             (* the stream of SDL calls back                        *)
  refuses,             (* SDL does not take the data: the device is gone      *)
  requested,           (* the call the game is in                             *)
  callback,            (* [at, amount, buffer]: the callback of SDL           *)
  touched              (* history: the game resized or closed a stream that   *)
                       (* it had started and not stopped                      *)

vars == <<s, audioBuffer, audioBufferSize, playing, refuses, requested, callback, touched>>
bufferVars == <<audioBuffer, audioBufferSize>>

Outside == [at |-> "outside", amount |-> 0, buffer |-> NULL]

Init ==                                              (* openStream            *)
  /\ s = FALSE /\ playing = FALSE /\ refuses = FALSE
  /\ audioBuffer = 1 /\ audioBufferSize \in 1..MaxSize
  /\ requested = "none" /\ callback = Outside /\ touched = FALSE

Reallocate == audioBuffer' \in {1, 2}                (* the block may move    *)

-----------------------------------------------------------------------------
(* The new size first, then the buffer; free first, then the size.  Neither *)
(* asks whether the stream plays.                                           *)
setBufferSizeInFrames ==
  /\ requested = "none" /\ requested' = "resize"
  /\ audioBufferSize' \in 1..MaxSize
  /\ touched' = (touched \/ s)
  /\ UNCHANGED <<s, audioBuffer, playing, refuses, callback>>

Resize ==
  /\ requested = "resize" /\ requested' = "none" /\ Reallocate
  /\ UNCHANGED <<s, audioBufferSize, playing, refuses, callback, touched>>

close ==
  /\ requested = "none" /\ requested' = "close"
  /\ audioBuffer' = NULL
  /\ touched' = (touched \/ s)
  /\ UNCHANGED <<s, audioBufferSize, playing, refuses, callback>>

ClearSize ==
  /\ requested = "close" /\ requested' = "none" /\ audioBufferSize' = 0
  /\ UNCHANGED <<s, audioBuffer, playing, refuses, callback, touched>>

(* A device that cannot be opened changes nothing, and is reported to the   *)
(* user only: the game believes that the stream plays, and stops it.        *)
requestStart ==
  /\ requested = "none" /\ ~s
  /\ s' = TRUE /\ requested' = "start"
  /\ UNCHANGED <<bufferVars, playing, refuses, callback, touched>>

Resume ==
  /\ requested = "start" /\ requested' = "none"
  /\ playing' = TRUE /\ refuses' = FALSE
  /\ UNCHANGED <<s, bufferVars, callback, touched>>

requestStop ==
  /\ requested = "none" /\ requested' = "stop"
  /\ s' = FALSE
  /\ UNCHANGED <<bufferVars, playing, refuses, callback, touched>>

(* Mutant: the stream is destroyed through stream->s, which is NULL by now. *)
DestroyNothing ==
  /\ requested = "stop" /\ requested' = "none"
  /\ UNCHANGED <<s, bufferVars, playing, refuses, callback, touched>>

Destroy ==
  /\ requested = "stop" /\ callback.at = "outside"
  /\ requested' = "none" /\ playing' = FALSE
  /\ UNCHANGED <<s, bufferVars, refuses, callback, touched>>

Game ==
  \/ setBufferSizeInFrames \/ Resize \/ close \/ ClearSize
  \/ requestStart \/ Resume \/ requestStop \/ Destroy

-----------------------------------------------------------------------------
(* The callback: its tests, the buffer grown to what SDL asks for, the game *)
(* that fills it, and the data handed to stream->s as it is by then.        *)
CallBack ==
  /\ playing /\ callback.at = "outside" /\ s /\ audioBuffer # NULL
  /\ \E amount \in 1..MaxSize : callback' = [at |-> "size", amount |-> amount, buffer |-> NULL]
  /\ UNCHANGED <<s, bufferVars, playing, refuses, requested, touched>>

Grow ==
  /\ callback.at = "size"
  /\ IF callback.amount > audioBufferSize
       THEN audioBufferSize' = callback.amount /\ Reallocate
       ELSE UNCHANGED bufferVars
  /\ callback' = [callback EXCEPT !.at = "data", !.buffer = audioBuffer']
  /\ UNCHANGED <<s, playing, refuses, requested, touched>>

Put ==
  /\ callback.at = "data"
  /\ callback' = IF s /\ ~refuses THEN Outside ELSE [callback EXCEPT !.at = "error"]
  /\ UNCHANGED <<s, bufferVars, playing, refuses, requested, touched>>

ErrorCallback ==
  /\ callback.at = "error" /\ callback' = Outside
  /\ UNCHANGED <<s, bufferVars, playing, refuses, requested, touched>>

DeviceGone ==
  /\ playing /\ refuses' = TRUE
  /\ UNCHANGED <<s, bufferVars, playing, requested, callback, touched>>

Sdl == CallBack \/ Grow \/ Put \/ ErrorCallback

Next == Game \/ Sdl \/ DeviceGone

Spec == Init /\ [][Next]_vars

-----------------------------------------------------------------------------
(* The values of the variables.                                             *)
TypeOK ==
  /\ s \in BOOLEAN /\ playing \in BOOLEAN /\ refuses \in BOOLEAN
  /\ audioBuffer \in 0..2 /\ audioBufferSize \in 0..MaxSize
  /\ requested \in {"none", "resize", "close", "start", "stop"} /\ touched \in BOOLEAN
  /\ callback \in [at : {"outside", "size", "data", "error"}, amount : 0..MaxSize, buffer : 0..2]

(* While the game fills the buffer it was given, that buffer is the one of  *)
(* the stream and large enough.  close and setBufferSizeInFrames free and   *)
(* move it without a lock and without a look at the stream; after a stop    *)
(* they meet no callback that runs, since the destruction in requestStop    *)
(* waited for it.  On a stream that was started and not stopped they may:   *)
(* the exception.  And the game is told of a disconnect only when the       *)
(* device is gone, or while it stops the stream itself (stream->s is NULL   *)
(* before the callback is over): never once its stop has returned, nor for  *)
(* a stream it started again.                                               *)
BufferKept ==
  callback.at = "data" /\ ~touched =>
    audioBuffer = callback.buffer /\ audioBuffer # NULL /\ callback.amount <= audioBufferSize

ErrorExplained == callback.at = "error" => refuses \/ requested = "stop"

StreamKept == BufferKept /\ ErrorExplained
=============================================================================
