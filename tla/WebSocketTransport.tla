------------------------- MODULE WebSocketTransport -------------------------
(***************************************************************************)
(* One WebSocket connection (lib/transports/websocket.js): the buffer that *)
(* batches responses for 400 ms, the ping every two minutes that marks the *)
(* connection inactive until the pong, and the close events, against a     *)
(* peer that may vanish without a word.                                    *)
(***************************************************************************)
EXTENDS Integers, Sequences

CONSTANT MaxResponses  \* bound on the responses offered

ASSUME TransportAssumption == MaxResponses \in Nat

VARIABLES
  active,         \* connection.active
  socket,         \* as in Adapter; an upgraded websocket starts open
  cacheTimeoutId, \* the 400 ms timer is set
  responseBatch,  \* responses waiting for the timer; <<>> stands for null
  pinged,         \* a ping the peer has not answered yet
  peer,           \* "alive" or "gone"
  offered,        \* how many responses were given to send()
  delivered       \* those written to the socket, in order

vars == <<active, socket, cacheTimeoutId, responseBatch, pinged, peer, offered, delivered>>

Init ==
  /\ active = TRUE /\ socket = "open"
  /\ cacheTimeoutId = FALSE /\ responseBatch = <<>>
  /\ pinged = FALSE /\ peer = "alive"
  /\ offered = 0 /\ delivered = <<>>

IsActive == active /\ socket = "open"

connectionVars == <<active, socket, pinged, peer>>

-----------------------------------------------------------------------------
(***************************************************************************)
(* send: while the timer runs the response is buffered, active or not;     *)
(* otherwise it is dispatched, and the timer set, or dropped.              *)
(***************************************************************************)
Buffer(r) ==
  /\ cacheTimeoutId
  /\ responseBatch' = Append(responseBatch, r)
  /\ UNCHANGED <<cacheTimeoutId, delivered>>

Dispatch(r) ==
  /\ ~cacheTimeoutId /\ IsActive
  /\ delivered' = Append(delivered, r)
  /\ cacheTimeoutId' = TRUE
  /\ UNCHANGED responseBatch

Drop(r) ==
  /\ ~cacheTimeoutId /\ ~IsActive
  /\ UNCHANGED <<cacheTimeoutId, responseBatch, delivered>>

(* Mutant: dispatches at once whenever it can. *)
SendPastTheBuffer ==
  /\ offered < MaxResponses
  /\ offered' = offered + 1
  /\ IF IsActive THEN /\ delivered' = Append(delivered, offered')
                      /\ cacheTimeoutId' = TRUE /\ UNCHANGED responseBatch
                 ELSE Buffer(offered') \/ Drop(offered')
  /\ UNCHANGED connectionVars

Send ==
  /\ offered < MaxResponses
  /\ offered' = offered + 1
  /\ Buffer(offered') \/ Dispatch(offered') \/ Drop(offered')
  /\ UNCHANGED connectionVars

(* sendBuffer: the whole batch is written, or lost if the connection is inactive. *)
SendBuffer ==
  /\ cacheTimeoutId
  /\ cacheTimeoutId' = FALSE
  /\ delivered' = IF IsActive THEN delivered \o responseBatch ELSE delivered
  /\ responseBatch' = <<>>
  /\ UNCHANGED <<active, socket, pinged, peer, offered>>

bufferVars == <<cacheTimeoutId, responseBatch, offered, delivered>>

(* Mutant: an unanswered ping is ignored. *)
PingForEver ==
  /\ socket # "closed"
  /\ active' = FALSE
  /\ pinged' = (pinged \/ socket = "open")
  /\ UNCHANGED <<socket, peer, bufferVars>>

(* Mutant: pings are also sent on a socket that is closing. *)
PingWhileClosing ==
  /\ socket # "closed"
  /\ IF active
       THEN active' = FALSE /\ pinged' = TRUE /\ UNCHANGED socket
       ELSE socket' = "terminated" /\ UNCHANGED <<active, pinged>>
  /\ UNCHANGED <<peer, bufferVars>>

(* ping: the interval runs until the "close" event. *)
Ping ==
  /\ socket # "closed"
  /\ IF active
       THEN active' = FALSE /\ pinged' = (pinged \/ socket = "open") /\ UNCHANGED socket
       ELSE socket' = "terminated" /\ UNCHANGED <<active, pinged>>
  /\ UNCHANGED <<peer, bufferVars>>

(* Mutant: the pong is not noted. *)
PongIgnored ==
  /\ pinged /\ peer = "alive" /\ socket \in {"open", "closing"}
  /\ pinged' = FALSE
  /\ UNCHANGED <<active, socket, peer, bufferVars>>

(* handlePong, which also runs while the socket is closing. *)
HandlePong ==
  /\ pinged /\ peer = "alive" /\ socket \in {"open", "closing"}
  /\ pinged' = FALSE
  /\ active' = TRUE
  /\ UNCHANGED <<socket, peer, bufferVars>>

(* close: called by an eviction or by addToAdapter. *)
Close ==
  /\ active' = FALSE
  /\ socket' = IF socket = "open" THEN "closing" ELSE socket
  /\ UNCHANGED <<pinged, peer, bufferVars>>

(* The peer's close frame. *)
PeerCloses ==
  /\ peer = "alive" /\ socket = "open"
  /\ socket' = "closing"
  /\ UNCHANGED <<active, pinged, peer, bufferVars>>

(* The peer is cut off: nothing comes from it any more. *)
PeerVanishes ==
  /\ peer = "alive"
  /\ peer' = "gone"
  /\ UNCHANGED <<active, socket, pinged, bufferVars>>

(* handleClose, on the "close" event; an open socket may also break. *)
HandleClose ==
  /\ socket # "closed"
  /\ socket' = "closed"
  /\ active' = FALSE
  /\ UNCHANGED <<pinged, peer, bufferVars>>

Next ==
  \/ Send \/ SendBuffer
  \/ Ping \/ HandlePong
  \/ Close \/ PeerCloses \/ PeerVanishes \/ HandleClose

(***************************************************************************)
(* Timers fire: the 400 ms timer and the ping interval.  A socket that was *)
(* destroyed emits "close"; an open one need not.                          *)
(***************************************************************************)
Fairness ==
  /\ WF_vars(SendBuffer)
  /\ WF_vars(Ping)
  /\ WF_vars(socket = "terminated" /\ HandleClose)

Spec == Init /\ [][Next]_vars /\ Fairness

-----------------------------------------------------------------------------
Fifo == INSTANCE LossyFifo
FifoSpec == Fifo!Spec

(***************************************************************************)
(* Every variable has its type, and a response is in one place at most:    *)
(* written or waiting, never both.                                         *)
(***************************************************************************)
TypeOK ==
  /\ active \in BOOLEAN
  /\ socket \in {"open", "closing", "terminated", "closed"}
  /\ cacheTimeoutId \in BOOLEAN
  /\ pinged \in BOOLEAN
  /\ peer \in {"alive", "gone"}
  /\ offered \in 0..MaxResponses
  /\ responseBatch \in Seq(1..offered)
  /\ delivered \in Seq(1..offered)
  /\ Len(delivered) + Len(responseBatch) <= offered

(***************************************************************************)
(* A buffered response never waits without a timer that will write it.     *)
(***************************************************************************)
BatchHasTimer == responseBatch # <<>> => cacheTimeoutId

(***************************************************************************)
(* An open socket is torn down by the server only over a ping that was not *)
(* answered: a peer that answers in time stays connected.                  *)
(***************************************************************************)
OnlyDeafPeersAreTerminated ==
  [][socket = "open" /\ socket' = "terminated" => pinged]_vars

(***************************************************************************)
(* A peer that vanished is found out and its connection leaves the         *)
(* registry with the "close" event; so does a connection that one side     *)
(* closed, even if the closing handshake is never answered: the interval   *)
(* goes on while the socket is closing and terminates it.                  *)
(***************************************************************************)
ConnectionEnds == peer = "gone" \/ socket = "closing" ~> socket = "closed"

(***************************************************************************)
(* "sends one-to-one messages" publishes to connected clients and expects  *)
(* every message: what was offered to an open connection with a live peer  *)
(* has been written or is waiting for the timer.                           *)
(***************************************************************************)
OpenConnectionGetsAll ==
  socket = "open" /\ peer = "alive" => Len(delivered) + Len(responseBatch) = offered

=============================================================================
