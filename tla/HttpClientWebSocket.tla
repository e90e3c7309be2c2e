------------------------ MODULE HttpClientWebSocket ------------------------
(***************************************************************************)
(* A web socket the game opens through com.xbox.httpclient: connect starts *)
(* a detached thread (the worker) that performs the handshake, receives    *)
(* frames and calls the game back; sendMessage and disconnect come from    *)
(* the game's threads.  The flag connected is shared without a lock, the   *)
(* curl handle is used under curlMu.                                       *)
(*                                                                         *)
(* libcurl and the peer are external: curl_ws_recv returns nothing yet, an *)
(* error, or the next chunk with its frame's flags.  A message is a number *)
(* and arrives as chunks; the last one ends the final frame of the message *)
(* (bytesleft is 0 and CURLWS_CONT is not set).  One object connects once. *)
(***************************************************************************)
EXTENDS Naturals, Sequences

CONSTANTS PongsInside,   (* may an unasked PONG come inside a message          *)
          MaxMessages, MaxChunks, MaxWire   (* bounds on what the peer sends *)

ASSUME WebSocketAssumption ==
  /\ PongsInside \in BOOLEAN
  /\ MaxMessages \in Nat /\ MaxChunks \in Nat /\ MaxWire \in Nat

VARIABLES
  worker,        (* the detached thread                                      *)
  connected,
  msg,           (* ws_msg: the chunks appended since it was last emptied    *)
  delivered,     (* what onMessage was given, in order                       *)
  sender, closer,(* a game thread in sendMessage, and one in disconnect      *)
  sent,          (* frames sent by this side                                 *)
  wire,          (* what curl_ws_recv has still to return                    *)
  peerMessage, peerChunk,  (* the message the peer sends, its chunks so far  *)
  peerClosed

gameVars == <<sender, closer>>
peerVars == <<peerMessage, peerChunk, peerClosed>>
vars == <<worker, connected, msg, delivered, gameVars, sent, wire, peerVars>>

Unopened == {"none", "perform", "onOpen", "setConnected"}
Running  == {"loop", "pong", "onMessage", "cleanup"}
Ended    == {"onClose", "closed", "failed"}

Chunk(m, c, last) == [kind |-> IF last THEN "end" ELSE "part", message |-> m, chunk |-> c]
Control(kind)     == [kind |-> kind, message |-> 0, chunk |-> 0]

Init ==
  /\ worker = "none" /\ connected = FALSE /\ msg = <<>> /\ delivered = <<>>
  /\ sender = "idle" /\ closer = "idle"
  /\ sent = <<>> /\ wire = <<>>
  /\ peerMessage = 1 /\ peerChunk = 0 /\ peerClosed = FALSE

-----------------------------------------------------------------------------
(* The worker.                                                              *)
WorkerGoto(from, to) == worker = from /\ worker' = to /\ UNCHANGED <<gameVars, peerVars>>

connect ==
  /\ WorkerGoto("none", "perform")
  /\ UNCHANGED <<connected, msg, delivered, sent, wire>>

PerformSucceeds ==
  /\ WorkerGoto("perform", "onOpen")
  /\ UNCHANGED <<connected, msg, delivered, sent, wire>>

PerformFails ==
  /\ WorkerGoto("perform", "failed")
  /\ connected' = FALSE
  /\ UNCHANGED <<msg, delivered, sent, wire>>

(* sendOpened calls onOpen first and sets connected when it has returned.   *)
OnOpenReturns ==
  /\ WorkerGoto("onOpen", "setConnected")
  /\ UNCHANGED <<connected, msg, delivered, sent, wire>>

SetConnected ==
  /\ WorkerGoto("setConnected", "loop")
  /\ connected' = TRUE
  /\ UNCHANGED <<msg, delivered, sent, wire>>

LeaveLoop ==
  /\ ~connected
  /\ WorkerGoto("loop", "cleanup")
  /\ UNCHANGED <<connected, msg, delivered, sent, wire>>

ReceiveFails ==
  /\ connected
  /\ WorkerGoto("loop", "cleanup")
  /\ UNCHANGED <<connected, msg, delivered, sent, wire>>

Received(kinds) == connected /\ wire # <<>> /\ Head(wire).kind \in kinds /\ wire' = Tail(wire)

ReceiveClose ==
  /\ Received({"close"})
  /\ WorkerGoto("loop", "cleanup")
  /\ UNCHANGED <<connected, msg, delivered, sent>>

ReceivePing ==
  /\ Received({"ping"})
  /\ WorkerGoto("loop", "pong")
  /\ UNCHANGED <<connected, msg, delivered, sent>>

SendPong ==
  /\ WorkerGoto("pong", "loop")
  /\ sent' = Append(sent, "pong")
  /\ UNCHANGED <<connected, msg, delivered, wire>>

(* Mutant: the buffer is emptied although the message goes on.              *)
ReceivePartAnew ==
  /\ Received({"part"})
  /\ WorkerGoto("loop", "loop")
  /\ msg' = <<Head(wire)>>
  /\ UNCHANGED <<connected, delivered, sent>>

ReceivePart ==
  /\ Received({"part"})
  /\ WorkerGoto("loop", "loop")
  /\ msg' = Append(msg, Head(wire))
  /\ UNCHANGED <<connected, delivered, sent>>

ReceiveEnd ==
  /\ Received({"end"})
  /\ WorkerGoto("loop", "onMessage")
  /\ msg' = Append(msg, Head(wire))
  /\ UNCHANGED <<connected, delivered, sent>>

(* A frame that is neither text nor binary ends the message all the same:   *)
(* nothing is delivered and the buffer is emptied.                          *)
ReceivePong ==
  /\ Received({"pong"})
  /\ WorkerGoto("loop", "loop")
  /\ msg' = <<>>
  /\ UNCHANGED <<connected, delivered, sent>>

(* Mutant: the buffer is not reused but kept.                               *)
OnMessageKeeping ==
  /\ WorkerGoto("onMessage", "loop")
  /\ delivered' = Append(delivered, msg)
  /\ UNCHANGED <<connected, msg, sent, wire>>

OnMessage ==
  /\ WorkerGoto("onMessage", "loop")
  /\ delivered' = Append(delivered, msg)
  /\ msg' = <<>>
  /\ UNCHANGED <<connected, sent, wire>>

(* The buffer is freed, then sendClosed clears the flag and calls onClose.  *)
SendClosed ==
  /\ WorkerGoto("cleanup", "onClose")
  /\ msg' = <<>> /\ connected' = FALSE
  /\ UNCHANGED <<delivered, sent, wire>>

OnCloseReturns ==
  /\ WorkerGoto("onClose", "closed")
  /\ UNCHANGED <<connected, msg, delivered, sent, wire>>

Perform == PerformSucceeds \/ PerformFails

Receive ==
  \/ ReceiveFails \/ ReceiveClose \/ ReceivePing \/ ReceivePart \/ ReceiveEnd \/ ReceivePong

Callback == OnOpenReturns \/ OnMessage \/ OnCloseReturns

Worker ==
  Perform \/ SetConnected \/ LeaveLoop \/ Receive \/ SendPong \/ SendClosed \/ Callback

-----------------------------------------------------------------------------
(* The game's threads.                                                      *)
GameUnchanged == UNCHANGED <<worker, msg, delivered, wire, peerVars>>

(* sendMessage and sendBinaryMessage: refused, or checked and then sent     *)
(* under the lock.  One call is modelled.                                   *)
SendMessageChecks ==
  /\ sender = "idle"
  /\ sender' = IF connected THEN "checked" ELSE "refused"
  /\ GameUnchanged /\ UNCHANGED <<connected, closer, sent>>

SendMessageSends ==
  /\ sender = "checked" /\ sender' = "sent"
  /\ sent' = Append(sent, "text")
  /\ GameUnchanged /\ UNCHANGED <<connected, closer>>

(* Mutant: disconnect only sends the CLOSE frame.                           *)
DisconnectKeepingFlag ==
  /\ closer = "idle" /\ worker # "none"
  /\ closer' = IF worker \in Unopened THEN "early" ELSE "flagged"
  /\ GameUnchanged /\ UNCHANGED <<connected, sender, sent>>

(* A call that comes before sendOpened has set the flag is early: sendOpened *)
(* overwrites what it cleared.                                              *)
Disconnect ==
  /\ closer = "idle" /\ worker # "none"
  /\ closer' = IF worker \in Unopened THEN "early" ELSE "flagged"
  /\ connected' = FALSE
  /\ GameUnchanged /\ UNCHANGED <<sender, sent>>

(* Before the handshake is done there is no socket for the CLOSE frame.     *)
DisconnectSends ==
  /\ closer \in {"early", "flagged"} /\ closer' = "done"
  /\ sent' = IF worker = "perform" THEN sent ELSE Append(sent, "close")
  /\ GameUnchanged /\ UNCHANGED <<connected, sender>>

Game == connect \/ SendMessageChecks \/ SendMessageSends \/ Disconnect \/ DisconnectSends

-----------------------------------------------------------------------------
(* The peer.                                                                *)
PeerSends(item) ==
  /\ worker \notin {"none", "perform", "failed"} /\ ~peerClosed /\ Len(wire) < MaxWire
  /\ wire' = Append(wire, item)
  /\ UNCHANGED <<worker, connected, msg, delivered, gameVars, sent>>

PeerPart ==
  /\ peerMessage <= MaxMessages /\ peerChunk + 1 < MaxChunks
  /\ PeerSends(Chunk(peerMessage, peerChunk + 1, FALSE))
  /\ peerChunk' = peerChunk + 1
  /\ UNCHANGED <<peerMessage, peerClosed>>

PeerEnd ==
  /\ peerMessage <= MaxMessages
  /\ PeerSends(Chunk(peerMessage, peerChunk + 1, TRUE))
  /\ peerMessage' = peerMessage + 1 /\ peerChunk' = 0
  /\ UNCHANGED peerClosed

PeerPing == Len(sent) < MaxWire /\ PeerSends(Control("ping")) /\ UNCHANGED peerVars

(* RFC 6455 lets control frames come between the fragments of a message.    *)
PeerPong ==
  /\ PongsInside \/ peerChunk = 0
  /\ PeerSends(Control("pong"))
  /\ UNCHANGED peerVars

PeerCloses ==
  /\ PeerSends(Control("close"))
  /\ peerClosed' = TRUE /\ UNCHANGED <<peerMessage, peerChunk>>

Peer == PeerPart \/ PeerEnd \/ PeerPing \/ PeerPong \/ PeerCloses

Next == Worker \/ Game \/ Peer

Spec == Init /\ [][Next]_vars

(* The worker is a running thread, a game thread finishes the call it is    *)
(* in, and curl_easy_perform returns.  Nothing makes the peer send.         *)
Fairness == WF_vars(Worker) /\ WF_vars(SendMessageSends) /\ WF_vars(DisconnectSends)

FairSpec == Spec /\ Fairness
-----------------------------------------------------------------------------
Items == [kind : {"part", "end", "ping", "pong", "close"}, message : Nat, chunk : Nat]

(* Each variable stays in its range.                                        *)
TypeOK ==
  /\ worker \in Unopened \cup Running \cup Ended /\ connected \in BOOLEAN
  /\ msg \in Seq(Items) /\ delivered \in Seq(Seq(Items)) /\ wire \in Seq(Items)
  /\ sender \in {"idle", "checked", "refused", "sent"}
  /\ closer \in {"idle", "early", "flagged", "done"}
  /\ sent \in Seq({"text", "close", "pong"})
  /\ peerMessage \in Nat /\ peerChunk \in Nat /\ peerClosed \in BOOLEAN

(* The messages the peer sends, whole: all chunks of one message in order,  *)
(* the last one marked as such.                                             *)
IsWhole(m, chunks) ==
  /\ chunks # <<>>
  /\ \A i \in 1..Len(chunks) :
        chunks[i].message = m /\ chunks[i].chunk = i
          /\ chunks[i].kind = (IF i = Len(chunks) THEN "end" ELSE "part")

(* "full message assembled": the game never gets a message that lacks a     *)
(* part, that holds parts of another one, or out of turn.                   *)
DeliveredWhole == \A m \in 1..Len(delivered) : IsWhole(m, delivered[m])

(* The game's calls and the peer's frames never disturb the order of the    *)
(* callbacks.                                                               *)
Promise == INSTANCE WebSocketPromise WITH
  status <- CASE worker = "none" -> "new"
              [] worker = "perform" -> "connecting"
              [] worker = "failed" -> "failed"
              [] worker \in {"onClose", "closed"} -> "closed"
              [] OTHER -> "open",
  delivered <- [m \in 1..Len(delivered) |-> delivered[m][1].message]

PromiseKept == Promise!Spec

(* A disconnect of an open connection ends it: the game gets its onClose,   *)
(* whatever the peer does.                                                  *)
DisconnectCloses == closer = "flagged" ~> worker \in Ended
=============================================================================
