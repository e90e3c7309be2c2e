-------------------------- MODULE WebSocketPromise --------------------------
(***************************************************************************)
(* What HttpClientWebSocket promises the game that called connect: either  *)
(* one onFailure, or one onOpen, then the peer's messages in order and     *)
(* whole, then at most one onClose and nothing after it.                   *)
(***************************************************************************)
EXTENDS Naturals, Sequences

VARIABLES status,     (* new, connecting, open, closed, failed               *)
          delivered   (* the numbers of the messages the game got            *)

vars == <<status, delivered>>

Init == status = "new" /\ delivered = <<>>

Turn(from, to) == status = from /\ status' = to /\ UNCHANGED delivered

Deliver ==
  /\ status = "open" /\ UNCHANGED status
  /\ delivered' = Append(delivered, Len(delivered) + 1)

Next ==
  \/ Turn("new", "connecting")
  \/ Turn("connecting", "open")        (* onOpen    *)
  \/ Turn("connecting", "failed")      (* onFailure *)
  \/ Deliver                           (* onMessage *)
  \/ Turn("open", "closed")            (* onClose   *)

Spec == Init /\ [][Next]_vars
=============================================================================
