--------------------- MODULE HttpClientWebSocket_proofs ---------------------
(***************************************************************************)
(* The safety of a web socket for every value of the constants: types,     *)
(* whole messages, and the refinement of WebSocketPromise.                 *)
(***************************************************************************)
EXTENDS HttpClientWebSocket, SequenceTheorems, TLAPS

USE WebSocketAssumption DEF gameVars, peerVars

(* A place in what the peer sends: how many chunks of which message came.   *)
Places == [message : Nat, chunk : Nat]
Place(m, c) == [message |-> m, chunk |-> c]

(* One item leads from a place to the next one.  The peer keeps a PONG out  *)
(* of a message unless PongsInside.                                         *)
Leads(item, p, q) ==
  /\ item.kind \in {"part", "end"} =>
       /\ item.message = p.message /\ item.chunk = p.chunk + 1
       /\ q = IF item.kind = "part" THEN Place(p.message, p.chunk + 1) ELSE Place(p.message + 1, 0)
  /\ item.kind \notin {"part", "end"} => q = p
  /\ item.kind = "pong" /\ ~PongsInside => p.chunk = 0

(* The items of w lead from one place to another, without a gap.            *)
Path(w, from, to) ==
  \E place \in [1..(Len(w) + 1) -> Places] :
    /\ place[1] = from /\ place[Len(w) + 1] = to
    /\ \A k \in 1..Len(w) : Leads(w[k], place[k], place[k + 1])

Peers == Place(peerMessage, peerChunk)
Due   == Len(delivered) + 1          (* the message the game gets next      *)

(* Before the loop nothing was received.                                    *)
Fresh ==
  /\ worker \in Unopened => delivered = <<>> /\ msg = <<>> /\ Path(wire, Place(1, 0), Peers)
  /\ worker \in {"none", "perform"} => wire = <<>>

(* In the loop the buffer holds chunks of the next message, all that came   *)
(* unless a PONG emptied it, and the wire goes on from there.               *)
Assembling ==
  worker \in {"loop", "pong"} =>
    /\ \A k \in 1..Len(msg) :
         /\ msg[k].message = Due
         /\ ~PongsInside => msg[k].chunk = k /\ msg[k].kind = "part"
    /\ \E c \in Nat : Path(wire, Place(Due, c), Peers) /\ (~PongsInside => c = Len(msg))

(* A message that is handed over is the next one, and whole.                *)
Assembled ==
  worker = "onMessage" =>
    /\ msg # <<>> /\ msg[1].message = Due /\ (~PongsInside => IsWhole(Due, msg))
    /\ Path(wire, Place(Due + 1, 0), Peers)

InTurn == \A m \in 1..Len(delivered) : delivered[m] # <<>> /\ delivered[m][1].message = m

SocketInv ==
  /\ TypeOK /\ Fresh /\ Assembling /\ Assembled /\ InTurn
  /\ ~PongsInside => DeliveredWhole

-----------------------------------------------------------------------------
(* The first item of a path leads to a place from which the rest goes on.   *)
LEMMA PathTail ==
  ASSUME NEW w \in Seq(Items), w # <<>>, NEW from, NEW to, Path(w, from, to)
  PROVE  /\ Head(w) \in Items /\ Tail(w) \in Seq(Items)
         /\ \E mid \in Places : Leads(Head(w), from, mid) /\ Path(Tail(w), mid, to)
<1>1. /\ Len(w) \in Nat /\ Len(w) > 0
      /\ Head(w) \in Items /\ Head(w) = w[1] /\ Tail(w) \in Seq(Items)
      /\ Len(Tail(w)) = Len(w) - 1
      /\ \A k \in 1..Len(Tail(w)) : Tail(w)[k] = w[k + 1]
  BY HeadTailProperties, EmptySeq, LenProperties
<1>2. PICK place \in [1..(Len(w) + 1) -> Places] :
        /\ place[1] = from /\ place[Len(w) + 1] = to
        /\ \A k \in 1..Len(w) : Leads(w[k], place[k], place[k + 1])
  BY DEF Path
<1> DEFINE rest == [k \in 1..(Len(Tail(w)) + 1) |-> place[k + 1]]
<1>3. rest \in [1..(Len(Tail(w)) + 1) -> Places]
  BY <1>1
<1>4. rest[1] = place[2] /\ rest[Len(Tail(w)) + 1] = to
  BY <1>1, <1>2
<1>5. \A k \in 1..Len(Tail(w)) : rest[k] = place[k + 1] /\ rest[k + 1] = place[k + 2]
  BY <1>1
<1> HIDE DEF rest
<1>6. \A k \in 1..Len(Tail(w)) : Leads(Tail(w)[k], rest[k], rest[k + 1])
  <2> SUFFICES ASSUME NEW k \in 1..Len(Tail(w)) PROVE Leads(Tail(w)[k], rest[k], rest[k + 1])
    OBVIOUS
  <2>1. k + 1 \in 1..Len(w) /\ (k + 1) + 1 = k + 2
    BY <1>1
  <2>2. Leads(w[k + 1], place[k + 1], place[k + 2])
    BY <1>2, <2>1
  <2> QED
    BY <1>1, <1>5, <2>2
<1>7. Path(Tail(w), place[2], to)
  BY <1>3, <1>4, <1>6 DEF Path
<1>8. place[2] \in Places /\ Leads(w[1], from, place[2])
  <2>1. 1 \in 1..Len(w) /\ 2 \in 1..(Len(w) + 1) /\ 1 + 1 = 2
    BY <1>1
  <2> QED
    BY <1>2, <2>1
<1> QED
  BY <1>1, <1>7, <1>8

(* An item the peer sends prolongs the path.                                *)
LEMMA PathAppend ==
  ASSUME NEW w \in Seq(Items), NEW from, NEW mid, Path(w, from, mid),
         NEW item \in Items, NEW to \in Places, Leads(item, mid, to)
  PROVE  Append(w, item) \in Seq(Items) /\ Path(Append(w, item), from, to)
<1>1. /\ Len(w) \in Nat /\ Append(w, item) \in Seq(Items) /\ Len(Append(w, item)) = Len(w) + 1
      /\ \A k \in 1..Len(w) : Append(w, item)[k] = w[k]
      /\ Append(w, item)[Len(w) + 1] = item
  BY LenProperties, AppendProperties
<1>2. PICK place \in [1..(Len(w) + 1) -> Places] :
        /\ place[1] = from /\ place[Len(w) + 1] = mid
        /\ \A k \in 1..Len(w) : Leads(w[k], place[k], place[k + 1])
  BY DEF Path
<1> DEFINE more == [k \in 1..(Len(Append(w, item)) + 1) |->
                      IF k <= Len(w) + 1 THEN place[k] ELSE to]
<1>3. more \in [1..(Len(Append(w, item)) + 1) -> Places]
  BY <1>1
<1>4. more[1] = from /\ more[Len(Append(w, item)) + 1] = to
  BY <1>1, <1>2
<1>5. \A k \in 1..(Len(w) + 1) : more[k] = place[k]
  BY <1>1
<1> HIDE DEF more
<1>6. \A k \in 1..Len(Append(w, item)) : Leads(Append(w, item)[k], more[k], more[k + 1])
  <2> SUFFICES ASSUME NEW k \in 1..Len(Append(w, item))
               PROVE  Leads(Append(w, item)[k], more[k], more[k + 1])
    OBVIOUS
  <2>1. CASE k \in 1..Len(w)
    <3>1. k \in 1..(Len(w) + 1) /\ k + 1 \in 1..(Len(w) + 1)
      BY <1>1, <2>1
    <3> QED
      BY <1>1, <1>2, <1>5, <2>1, <3>1
  <2>2. CASE k = Len(w) + 1
    <3>1. k \in 1..(Len(w) + 1) /\ k + 1 = Len(Append(w, item)) + 1
      BY <1>1, <2>2
    <3> QED
      BY <1>1, <1>2, <1>4, <1>5, <2>2, <3>1
  <2> QED
    BY <1>1, <2>1, <2>2
<1> QED
  BY <1>1, <1>3, <1>4, <1>6 DEF Path

LEMMA PathEmpty == ASSUME NEW p \in Places PROVE Path(<<>>, p, p)
<1> DEFINE place == [k \in 1..1 |-> p]
<1>1. Len(<<>>) + 1 = 1 /\ 1..Len(<<>>) = {}
  OBVIOUS
<1>2. place \in [1..1 -> Places] /\ place[1] = p
  OBVIOUS
<1> QED
  BY <1>1, <1>2 DEF Path

LEMMA InitInv == Init => SocketInv
<1> SUFFICES ASSUME Init PROVE SocketInv
  OBVIOUS
<1>1. /\ <<>> \in Seq(Items) /\ <<>> \in Seq(Seq(Items)) /\ <<>> \in Seq({"text", "close", "pong"})
      /\ Len(<<>>) = 0
  BY EmptySeq
<1>2. TypeOK
  <2>1. connected \in BOOLEAN /\ peerClosed \in BOOLEAN
    BY DEF Init
  <2> QED
    BY <1>1, <2>1 DEF Init, TypeOK, Unopened
<1>3. Place(1, 0) \in Places
  BY DEF Place, Places
<1>4. Path(<<>>, Place(1, 0), Place(1, 0))
  BY <1>3, PathEmpty
<1> QED
  BY <1>1, <1>2, <1>4 DEF Init, SocketInv, Fresh, Assembling, Assembled, InTurn, DeliveredWhole,
     Peers, Unopened

-----------------------------------------------------------------------------
(* What the peer sends next leads on from what it sent.                     *)
LEMMA PeerItem ==
  ASSUME TypeOK, Peer
  PROVE  /\ peerMessage' \in Nat /\ peerChunk' \in Nat /\ peerClosed' \in BOOLEAN
         /\ \E item \in Items : PeerSends(item) /\ Leads(item, Peers, Peers')
<1> USE DEF TypeOK, Peers, Place, Leads, Items
<1>1. CASE PeerPart
  <2> DEFINE item == Chunk(peerMessage, peerChunk + 1, FALSE)
  <2>1. item \in Items /\ item.kind = "part" /\ item.message = peerMessage
        /\ item.chunk = peerChunk + 1
    BY DEF Chunk
  <2>2. PeerSends(item) /\ peerChunk' = peerChunk + 1 /\ UNCHANGED <<peerMessage, peerClosed>>
    BY <1>1 DEF PeerPart
  <2> HIDE DEF item
  <2> QED
    BY <2>1, <2>2
<1>2. CASE PeerEnd
  <2> DEFINE item == Chunk(peerMessage, peerChunk + 1, TRUE)
  <2>1. item \in Items /\ item.kind = "end" /\ item.message = peerMessage
        /\ item.chunk = peerChunk + 1
    BY DEF Chunk
  <2>2. PeerSends(item) /\ peerMessage' = peerMessage + 1 /\ peerChunk' = 0 /\ UNCHANGED peerClosed
    BY <1>2 DEF PeerEnd
  <2> HIDE DEF item
  <2>3. Leads(item, Peers, Peers')
    BY <2>1, <2>2
  <2>4. peerMessage' \in Nat /\ peerChunk' \in Nat /\ peerClosed' \in BOOLEAN
    BY <2>2
  <2> QED
    BY <2>1, <2>2, <2>3, <2>4
<1>3. \A kind \in {"ping", "pong", "close"} : Control(kind) \in Items /\ Control(kind).kind = kind
  BY DEF Control
<1>4. CASE PeerPing
  <2>1. PeerSends(Control("ping")) /\ UNCHANGED <<peerMessage, peerChunk, peerClosed>>
    BY <1>4 DEF PeerPing
  <2> QED
    BY <1>3, <2>1
<1>5. CASE PeerPong
  <2>1. /\ PeerSends(Control("pong")) /\ UNCHANGED <<peerMessage, peerChunk, peerClosed>>
        /\ PongsInside \/ peerChunk = 0
    BY <1>5 DEF PeerPong
  <2> QED
    BY <1>3, <2>1
<1>6. CASE PeerCloses
  <2>1. PeerSends(Control("close")) /\ UNCHANGED <<peerMessage, peerChunk>> /\ peerClosed' = TRUE
    BY <1>6 DEF PeerCloses
  <2> QED
    BY <1>3, <2>1
<1> QED
  BY <1>1, <1>2, <1>4, <1>5, <1>6 DEF Peer

LEMMA PeerStep == ASSUME SocketInv, Peer PROVE SocketInv'
<1>1. TypeOK
  BY DEF SocketInv
<1>2. PICK item \in Items : PeerSends(item) /\ Leads(item, Peers, Peers')
  BY <1>1, PeerItem
<1>3. /\ UNCHANGED <<worker, connected, msg, delivered, sender, closer, sent>>
      /\ wire' = Append(wire, item) /\ worker \notin {"none", "perform"}
  BY <1>2 DEF PeerSends
<1>4. peerMessage' \in Nat /\ peerChunk' \in Nat /\ peerClosed' \in BOOLEAN
  BY <1>1, PeerItem
<1>5. Peers' \in Places
  BY <1>4 DEF Peers, Place, Places
<1>6. wire \in Seq(Items)
  BY <1>1 DEF TypeOK
<1>7. ASSUME NEW from, Path(wire, from, Peers) PROVE Path(wire', from, Peers')
  BY <1>2, <1>3, <1>5, <1>6, <1>7, PathAppend
<1>8. wire' \in Seq(Items)
  BY <1>3, <1>6, AppendProperties
<1>9. TypeOK'
  BY <1>1, <1>3, <1>4, <1>8 DEF TypeOK
<1>10. Fresh' /\ Assembling'
  <2>1. UNCHANGED Due
    BY <1>3 DEF Due
  <2>2. Fresh /\ Assembling
    BY DEF SocketInv
  <2>3. Fresh'
    BY <1>3, <1>7, <2>2 DEF Fresh
  <2>4. ASSUME worker' \in {"loop", "pong"}, NEW c \in Nat, Path(wire, Place(Due, c), Peers)
        PROVE  Path(wire', Place(Due', c), Peers')
    BY <1>7, <2>1, <2>4
  <2>5. Assembling'
    <3>1. worker' = worker /\ msg' = msg
      BY <1>3
    <3> QED
      BY <2>1, <2>2, <2>4, <3>1, Zenon DEF Assembling
  <2> QED
    BY <2>3, <2>5
<1>11. Assembled' /\ InTurn' /\ (~PongsInside => DeliveredWhole')
  <2>1. UNCHANGED Due
    BY <1>3 DEF Due
  <2> QED
    BY <1>3, <1>7, <2>1 DEF SocketInv, Assembled, InTurn, DeliveredWhole, IsWhole
<1> QED
  BY <1>9, <1>10, <1>11 DEF SocketInv

(* The game's calls.                                                        *)
LEMMA GameStep == ASSUME SocketInv, Game PROVE SocketInv'
<1>1. /\ UNCHANGED <<msg, delivered, wire, peerMessage, peerChunk, peerClosed>>
      /\ worker' = worker \/ (worker = "none" /\ worker' = "perform")
  BY DEF Game, connect, SendMessageChecks, SendMessageSends, Disconnect, DisconnectSends,
         WorkerGoto, GameUnchanged
<1>2. TypeOK'
  <2>1. sent' \in Seq({"text", "close", "pong"})
    <3>1. sent' \in {sent, Append(sent, "text"), Append(sent, "close")}
      BY DEF Game, connect, SendMessageChecks, SendMessageSends, Disconnect, DisconnectSends
    <3>2. sent \in Seq({"text", "close", "pong"})
      BY DEF SocketInv, TypeOK
    <3> QED
      BY ONLY <3>1, <3>2, AppendProperties
  <2>2. connected' \in BOOLEAN
    BY DEF SocketInv, TypeOK, Game, connect, SendMessageChecks, SendMessageSends, Disconnect,
           DisconnectSends
  <2>3. /\ sender' \in {"idle", "checked", "refused", "sent"}
        /\ closer' \in {"idle", "early", "flagged", "done"}
    BY DEF SocketInv, TypeOK, Game, connect, SendMessageChecks, SendMessageSends, Disconnect,
           DisconnectSends, WorkerGoto
  <2>4. worker' \in Unopened \cup Running \cup Ended
    BY <1>1 DEF SocketInv, TypeOK, Unopened
  <2> QED
    BY <1>1, <2>1, <2>2, <2>3, <2>4 DEF SocketInv, TypeOK
<1>3. UNCHANGED <<Due, Peers>>
  BY <1>1 DEF Due, Peers
<1> QED
  BY <1>1, <1>2, <1>3 DEF SocketInv, Fresh, Assembling, Assembled, InTurn, DeliveredWhole, IsWhole,
     Unopened

-----------------------------------------------------------------------------
(* The worker, outside the loop.                                            *)
LEMMA OutsideStep ==
  ASSUME SocketInv,
         \/ Perform \/ OnOpenReturns \/ SetConnected \/ LeaveLoop \/ ReceiveFails \/ SendPong
         \/ SendClosed \/ OnCloseReturns
  PROVE  SocketInv'
<1>1. /\ UNCHANGED <<delivered, wire, peerMessage, peerChunk, peerClosed, sender, closer>>
      /\ worker' # "onMessage" /\ worker' \notin {"none", "perform"}
      /\ worker' \in Unopened \cup Running \cup Ended
      /\ UNCHANGED msg \/ (msg' = <<>> /\ worker' = "onClose")
      /\ worker' \in Unopened => worker \in Unopened /\ UNCHANGED msg
      /\ worker' \in {"loop", "pong"} => worker \in {"setConnected", "pong"} /\ UNCHANGED msg
  BY DEF Perform, PerformSucceeds, PerformFails, OnOpenReturns, SetConnected, LeaveLoop,
         ReceiveFails, SendPong, SendClosed, OnCloseReturns, WorkerGoto, Unopened, Running, Ended
<1>2. connected' \in BOOLEAN
  BY DEF Perform, PerformSucceeds, PerformFails, OnOpenReturns, SetConnected, LeaveLoop,
         ReceiveFails, SendPong, SendClosed, OnCloseReturns, SocketInv, TypeOK
<1>3. sent' \in Seq({"text", "close", "pong"})
  BY AppendProperties DEF Perform, PerformSucceeds, PerformFails, OnOpenReturns, SetConnected,
         LeaveLoop, ReceiveFails, SendPong, SendClosed, OnCloseReturns, SocketInv, TypeOK
<1>4. TypeOK'
  <2>1. msg' \in Seq(Items)
    BY <1>1, EmptySeq DEF SocketInv, TypeOK
  <2> QED
    BY <1>1, <1>2, <1>3, <2>1 DEF SocketInv, TypeOK
<1>5. UNCHANGED <<Due, Peers>>
  BY <1>1 DEF Due, Peers
<1>6. Fresh'
  BY <1>1, <1>5 DEF SocketInv, Fresh
<1>7. Assembling'
  <2>1. CASE worker = "setConnected"
    <3>1. delivered = <<>> /\ msg = <<>> /\ Path(wire, Place(1, 0), Peers)
      BY <2>1 DEF SocketInv, Fresh, Unopened
    <3>2. Due = 1 /\ Len(msg) = 0
      BY <3>1, EmptySeq DEF Due
    <3> QED
      BY <1>1, <1>5, <2>1, <3>1, <3>2 DEF Assembling, Unopened
  <2>2. CASE worker # "setConnected"
    BY <1>1, <1>5, <2>2 DEF SocketInv, Assembling
  <2> QED
    BY <2>1, <2>2
<1>8. Assembled' /\ InTurn' /\ (~PongsInside => DeliveredWhole')
  BY <1>1 DEF SocketInv, Assembled, InTurn, DeliveredWhole, IsWhole
<1> QED
  BY <1>4, <1>6, <1>7, <1>8 DEF SocketInv

(* The worker receives: the item continues the buffer, and the rest of the  *)
(* wire continues the item.                                                 *)
LEMMA ReceiveStep ==
  ASSUME SocketInv, ReceiveClose \/ ReceivePing \/ ReceivePart \/ ReceiveEnd \/ ReceivePong
  PROVE  SocketInv'
<1> DEFINE item == Head(wire)
<1>1. /\ worker = "loop" /\ wire # <<>> /\ wire' = Tail(wire)
      /\ UNCHANGED <<connected, delivered, sent, sender, closer, peerMessage, peerChunk, peerClosed>>
  BY DEF ReceiveClose, ReceivePing, ReceivePart, ReceiveEnd, ReceivePong, Received, WorkerGoto
<1>2. wire \in Seq(Items) /\ msg \in Seq(Items) /\ TypeOK
  BY DEF SocketInv, TypeOK
<1>3. PICK c \in Nat : Path(wire, Place(Due, c), Peers) /\ (~PongsInside => c = Len(msg))
  BY <1>1 DEF SocketInv, Assembling
<1>4. PICK mid \in Places :
        Leads(item, Place(Due, c), mid) /\ Path(wire', mid, Peers)
  BY <1>1, <1>2, <1>3, PathTail
<1>5. item \in Items /\ wire' \in Seq(Items)
  BY <1>1, <1>2, <1>3, PathTail
<1>6. Len(delivered) \in Nat /\ Due \in Nat
  BY <1>2, LenProperties DEF Due, TypeOK
<1>7. \A k \in 1..Len(msg) :
         /\ msg[k].message = Due
         /\ ~PongsInside => msg[k].chunk = k /\ msg[k].kind = "part"
  BY <1>1 DEF SocketInv, Assembling
<1>8. UNCHANGED <<Due, Peers>>
  BY <1>1 DEF Due, Peers
<1>9. /\ Append(msg, item) \in Seq(Items) /\ Len(Append(msg, item)) = Len(msg) + 1
      /\ Len(msg) \in Nat
      /\ \A k \in 1..Len(msg) : Append(msg, item)[k] = msg[k]
      /\ Append(msg, item)[Len(msg) + 1] = item
  BY <1>2, <1>5, AppendProperties, LenProperties
<1>10. InTurn' /\ (~PongsInside => DeliveredWhole')
  BY <1>1 DEF SocketInv, InTurn, DeliveredWhole, IsWhole
<1>11. ASSUME worker' \in {"loop", "pong", "onMessage", "cleanup"}, msg' \in Seq(Items)
       PROVE  TypeOK' /\ Fresh'
  BY <1>1, <1>2, <1>5, <1>11 DEF TypeOK, Fresh, Unopened, Running
<1> HIDE DEF item
<1>12. CASE ReceiveClose
  <2>1. worker' = "cleanup" /\ msg' = msg
    BY <1>12 DEF ReceiveClose, WorkerGoto
  <2> QED
    BY <1>2, <1>10, <1>11, <2>1 DEF SocketInv, Assembling, Assembled
<1>13. CASE ReceivePing
  <2>1. worker' = "pong" /\ msg' = msg /\ item.kind = "ping"
    BY <1>13 DEF ReceivePing, WorkerGoto, Received, item
  <2>2. mid = Place(Due, c)
    BY <1>4, <2>1 DEF Leads
  <2> QED
    BY <1>2, <1>3, <1>4, <1>7, <1>8, <1>10, <1>11, <2>1, <2>2 DEF SocketInv, Assembling, Assembled
<1>14. CASE ReceivePart
  <2>1. worker' = "loop" /\ msg' = Append(msg, item) /\ item.kind = "part"
    BY <1>14 DEF ReceivePart, WorkerGoto, Received, item
  <2>2. item.message = Due /\ item.chunk = c + 1 /\ mid = Place(Due, c + 1)
    BY <1>4, <2>1 DEF Leads, Place
  <2>3. \A k \in 1..Len(msg') :
          /\ msg'[k].message = Due
          /\ ~PongsInside => msg'[k].chunk = k /\ msg'[k].kind = "part"
    BY <1>3, <1>7, <1>9, <2>1, <2>2
  <2>4. c + 1 \in Nat /\ (~PongsInside => c + 1 = Len(msg'))
    BY <1>3, <1>9, <2>1
  <2>5. Assembling'
    BY <1>4, <1>8, <2>2, <2>3, <2>4 DEF Assembling
  <2> QED
    BY <1>9, <1>10, <1>11, <2>1, <2>5 DEF SocketInv, Assembled
<1>15. CASE ReceiveEnd
  <2>1. worker' = "onMessage" /\ msg' = Append(msg, item) /\ item.kind = "end"
    BY <1>15 DEF ReceiveEnd, WorkerGoto, Received, item
  <2>2. item.message = Due /\ item.chunk = c + 1 /\ mid = Place(Due + 1, 0)
    BY <1>4, <2>1 DEF Leads, Place
  <2>3. \A k \in 1..Len(msg') : msg'[k].message = Due
    BY <1>7, <1>9, <2>1, <2>2
  <2>4. msg' # <<>> /\ Len(msg') \in Nat \ {0}
    BY <1>9, <2>1, EmptySeq
  <2>5. ~PongsInside => IsWhole(Due, msg')
    <3> SUFFICES ASSUME ~PongsInside, NEW k \in 1..Len(msg')
                 PROVE  /\ msg'[k].message = Due /\ msg'[k].chunk = k
                        /\ msg'[k].kind = (IF k = Len(msg') THEN "end" ELSE "part")
      BY <2>4 DEF IsWhole
    <3>1. CASE k = Len(msg')
      BY <1>3, <1>9, <2>1, <2>2, <3>1
    <3>2. CASE k # Len(msg')
      <4>1. k \in 1..Len(msg)
        BY <1>9, <2>1, <3>2
      <4> QED
        BY <1>7, <1>9, <2>1, <3>2, <4>1
    <3> QED
      BY <3>1, <3>2
  <2>6. Assembled'
    BY <1>4, <1>8, <2>2, <2>3, <2>4, <2>5 DEF Assembled
  <2> QED
    BY <1>9, <1>10, <1>11, <2>1, <2>6 DEF SocketInv, Assembling
<1>16. CASE ReceivePong
  <2>1. worker' = "loop" /\ msg' = <<>> /\ item.kind = "pong"
    BY <1>16 DEF ReceivePong, WorkerGoto, Received, item
  <2>2. mid = Place(Due, c) /\ (~PongsInside => c = 0)
    BY <1>4, <2>1 DEF Leads, Place
  <2>3. msg' \in Seq(Items) /\ Len(msg') = 0
    BY <2>1, EmptySeq
  <2>4. Assembling'
    BY <1>4, <1>8, <2>2, <2>3 DEF Assembling
  <2> QED
    BY <1>10, <1>11, <2>1, <2>3, <2>4 DEF SocketInv, Assembled
<1> QED
  BY <1>12, <1>13, <1>14, <1>15, <1>16

(* The message is handed over, and the next one is due.                     *)
LEMMA MessageStep == ASSUME SocketInv, OnMessage PROVE SocketInv'
<1>1. /\ worker = "onMessage" /\ worker' = "loop" /\ msg' = <<>>
      /\ delivered' = Append(delivered, msg)
      /\ UNCHANGED <<connected, sent, wire, sender, closer, peerMessage, peerChunk, peerClosed>>
  BY DEF OnMessage, WorkerGoto
<1>2. /\ msg # <<>> /\ msg[1].message = Due /\ (~PongsInside => IsWhole(Due, msg))
      /\ Path(wire, Place(Due + 1, 0), Peers)
  BY <1>1 DEF SocketInv, Assembled
<1>3. msg \in Seq(Items) /\ delivered \in Seq(Seq(Items)) /\ TypeOK
  BY DEF SocketInv, TypeOK
<1>4. /\ delivered' \in Seq(Seq(Items)) /\ Len(delivered') = Len(delivered) + 1
      /\ Len(delivered) \in Nat
      /\ \A m \in 1..Len(delivered) : delivered'[m] = delivered[m]
      /\ delivered'[Len(delivered) + 1] = msg
  BY <1>1, <1>3, AppendProperties, LenProperties
<1>5. msg' \in Seq(Items) /\ Len(msg') = 0
  BY <1>1, EmptySeq
<1>6. TypeOK' /\ Fresh'
  BY <1>1, <1>3, <1>4, <1>5 DEF TypeOK, Fresh, Unopened, Running
<1>7. Due' = Due + 1 /\ Due = Len(delivered) + 1 /\ UNCHANGED Peers
  BY <1>1, <1>4 DEF Due, Peers
<1>8. Assembling' /\ Assembled'
  BY <1>1, <1>2, <1>5, <1>7 DEF Assembling, Assembled
<1>9. InTurn'
  <2>1. \A m \in 1..Len(delivered') : m \in 1..Len(delivered) \/ m = Len(delivered) + 1
    BY <1>4
  <2> QED
    BY <1>2, <1>4, <1>7, <2>1 DEF SocketInv, InTurn
<1>10. ~PongsInside => DeliveredWhole'
  <2>1. \A m \in 1..Len(delivered') : m \in 1..Len(delivered) \/ m = Len(delivered) + 1
    BY <1>4
  <2> QED
    BY <1>2, <1>4, <1>7, <2>1 DEF SocketInv, DeliveredWhole
<1> QED
  BY <1>6, <1>8, <1>9, <1>10 DEF SocketInv

LEMMA InvStep == SocketInv /\ [Next]_vars => SocketInv'
<1> SUFFICES ASSUME SocketInv, [Next]_vars PROVE SocketInv'
  OBVIOUS
<1>1. CASE UNCHANGED vars
  BY <1>1 DEF vars, SocketInv, TypeOK, Fresh, Assembling, Assembled, InTurn, DeliveredWhole, IsWhole,
              Due, Peers
<1> QED
  BY <1>1, PeerStep, GameStep, OutsideStep, ReceiveStep, MessageStep
     DEF Next, Worker, Receive, Callback

THEOREM Invariance == Spec => []SocketInv
BY InitInv, InvStep, PTL DEF Spec

(* Every variable stays in its range.                                       *)
THEOREM TypeCorrect == Spec => []TypeOK
<1>1. SocketInv => TypeOK
  BY DEF SocketInv
<1> QED
  BY <1>1, Invariance, PTL

(* http_client_websocket.cpp: as long as no PONG comes inside a message, the *)
(* game gets every message whole and in order.                              *)
THEOREM WholeMessages == ASSUME ~PongsInside PROVE Spec => []DeliveredWhole
<1>1. SocketInv => DeliveredWhole
  BY DEF SocketInv
<1> QED
  BY <1>1, Invariance, PTL

-----------------------------------------------------------------------------
(* The refinement: what WebSocketPromise sees of a state.                   *)
Status ==
  CASE worker = "none" -> "new"
    [] worker = "perform" -> "connecting"
    [] worker = "failed" -> "failed"
    [] worker \in {"onClose", "closed"} -> "closed"
    [] OTHER -> "open"
Numbers == [m \in 1..Len(delivered) |-> delivered[m][1].message]

(* The messages that were handed over are numbered as they came.            *)
LEMMA NumbersCount ==
  ASSUME NEW d \in Seq(Seq(Items)), \A m \in 1..Len(d) : d[m][1].message = m
  PROVE  LET numbers == [m \in 1..Len(d) |-> d[m][1].message]
         IN  /\ numbers \in Seq(Nat) /\ Len(numbers) = Len(d)
             /\ \A m \in 1..Len(d) : numbers[m] = m
<1> DEFINE numbers == [m \in 1..Len(d) |-> d[m][1].message]
<1>1. Len(d) \in Nat
  BY LenProperties
<1>2. numbers \in [1..Len(d) -> Nat] /\ \A m \in 1..Len(d) : numbers[m] = m
  OBVIOUS
<1> HIDE DEF numbers
<1>3. numbers \in Seq(Nat) /\ Len(numbers) = Len(d)
  <2>1. numbers \in Seq(Nat)
    BY ONLY <1>1, <1>2
  <2>2. Len(numbers) \in Nat /\ 1..Len(numbers) = 1..Len(d)
    BY <1>2, <2>1, LenProperties, Zenon
  <2>3. Len(numbers) = Len(d)
    BY ONLY <1>1, <2>2
  <2> QED
    BY <2>1, <2>3
<1> QED
  BY <1>2, <1>3 DEF numbers

LEMMA InitRefines == Init => Promise!Init
<1> SUFFICES ASSUME Init PROVE Promise!Init
  OBVIOUS
<1>1. Status = "new"
  BY DEF Init, Status
<1>2. Numbers = <<>>
  BY DEF Init, Numbers
<1> QED
  BY <1>1, <1>2 DEF Promise!Init, Status, Numbers

LEMMA StepRefines == SocketInv /\ SocketInv' /\ [Next]_vars => [Promise!Next]_(Promise!vars)
<1> SUFFICES ASSUME SocketInv, SocketInv', [Next]_vars
             PROVE  Promise!Next \/ UNCHANGED <<Status, Numbers>>
  BY DEF Promise!vars, Status, Numbers
<1> DEFINE Turns(from, to) == Status = from /\ Status' = to /\ UNCHANGED Numbers
<1>1. /\ Turns("new", "connecting") => Promise!Next
      /\ Turns("connecting", "open") => Promise!Next
      /\ Turns("connecting", "failed") => Promise!Next
      /\ Turns("open", "closed") => Promise!Next
  BY DEF Promise!Next, Promise!Turn, Status, Numbers
<1>2. ASSUME UNCHANGED delivered PROVE UNCHANGED Numbers
  BY <1>2 DEF Numbers
<1>3. ASSUME UNCHANGED worker PROVE UNCHANGED Status
  BY <1>3 DEF Status
<1>4. CASE UNCHANGED vars \/ Peer
  BY <1>2, <1>3, <1>4 DEF vars, Peer, PeerPart, PeerEnd, PeerPing, PeerPong, PeerCloses, PeerSends
<1>5. CASE Game
  <2>1. UNCHANGED Numbers
    BY <1>2, <1>5 DEF Game, connect, SendMessageChecks, SendMessageSends, Disconnect,
       DisconnectSends, GameUnchanged
  <2>2. UNCHANGED Status \/ (Status = "new" /\ Status' = "connecting")
    BY <1>3, <1>5 DEF Game, connect, SendMessageChecks, SendMessageSends, Disconnect,
       DisconnectSends, GameUnchanged, WorkerGoto, Status
  <2> QED
    BY <1>1, <2>1, <2>2
<1>6. CASE OnMessage
  <2>1. UNCHANGED Status /\ Status = "open"
    BY <1>6 DEF OnMessage, WorkerGoto, Status
  <2>2. /\ Numbers \in Seq(Nat) /\ Len(Numbers) = Len(delivered)
        /\ \A m \in 1..Len(delivered) : Numbers[m] = m
    BY NumbersCount DEF SocketInv, TypeOK, InTurn, Numbers
  <2>3. /\ Numbers' \in Seq(Nat) /\ Len(Numbers') = Len(delivered')
        /\ \A m \in 1..Len(delivered') : Numbers'[m] = m
    BY NumbersCount DEF SocketInv, TypeOK, InTurn, Numbers
  <2>4. Len(delivered') = Len(delivered) + 1 /\ Len(delivered) \in Nat
    BY <1>6, AppendProperties, LenProperties DEF OnMessage, SocketInv, TypeOK
  <2>5. Numbers' = Append(Numbers, Len(Numbers) + 1)
    <3> DEFINE more == Append(Numbers, Len(Numbers) + 1)
    <3>1. /\ more \in Seq(Nat) /\ Len(more) = Len(Numbers) + 1
          /\ \A k \in 1..Len(Numbers) : more[k] = Numbers[k]
          /\ more[Len(Numbers) + 1] = Len(Numbers) + 1
      BY <2>2, <2>4, AppendProperties
    <3>2. \A k \in 1..Len(more) : Numbers'[k] = more[k]
      BY <2>2, <2>3, <2>4, <3>1
    <3> HIDE DEF more
    <3> QED
      BY <2>2, <2>3, <2>4, <3>1, <3>2, SeqEqual DEF more
  <2> QED
    BY <2>1, <2>5 DEF Promise!Next, Promise!Deliver, Status, Numbers
<1>7. CASE Worker /\ ~OnMessage
  <2>1. UNCHANGED Numbers
    BY <1>2, <1>7 DEF Worker, Perform, PerformSucceeds, PerformFails, SetConnected, LeaveLoop,
       Receive, ReceiveFails, ReceiveClose, ReceivePing, ReceivePart, ReceiveEnd, ReceivePong,
       SendPong, SendClosed, Callback, OnOpenReturns, OnCloseReturns
  <2>2. \/ UNCHANGED Status
        \/ Status = "connecting" /\ Status' \in {"open", "failed"}
        \/ Status = "open" /\ Status' = "closed"
    BY <1>7 DEF Worker, Perform, PerformSucceeds, PerformFails, SetConnected, LeaveLoop,
       Receive, ReceiveFails, ReceiveClose, ReceivePing, ReceivePart, ReceiveEnd, ReceivePong,
       SendPong, SendClosed, Callback, OnOpenReturns, OnCloseReturns, WorkerGoto, Status
  <2> QED
    BY <1>1, <2>1, <2>2
<1> QED
  BY <1>4, <1>5, <1>6, <1>7 DEF Next

(* For every value of the constants, unasked PONGs included, the game gets  *)
(* what WebSocketPromise says: one onOpen or one onFailure, the messages in *)
(* order, then at most one onClose.                                         *)
THEOREM PromiseImplemented == Spec => PromiseKept
<1>1. Init => Promise!Init
  BY InitRefines
<1>2. SocketInv /\ SocketInv' /\ [Next]_vars => [Promise!Next]_(Promise!vars)
  BY StepRefines
<1> QED
  BY <1>1, <1>2, Invariance, PTL DEF Spec, PromiseKept, Promise!Spec
=============================================================================
