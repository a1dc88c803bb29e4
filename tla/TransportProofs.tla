-------------------------- MODULE TransportProofs --------------------------
(***************************************************************************)
(* The two transports with a state of their own.  A websocket keeps the    *)
(* order of its responses and delivers none twice, for any number of       *)
(* responses, and only deaf peers are cut off.  Nobody answers a poll      *)
(* twice but a reply of the storage that is late, for any number of polls. *)
(***************************************************************************)
EXTENDS WebSocketTransport, PollingTransport, SequenceTheorems, TLAPS

-----------------------------------------------------------------------------
(***************************************************************************)
(* Websockets.                                                             *)
(***************************************************************************)

(* What was accepted: the responses written, then those that wait. *)
Accepted == delivered \o responseBatch

(***************************************************************************)
(* The order of what was written is no invariant by itself: a batch that   *)
(* is written must be newer than what was written before, and must not be  *)
(* overtaken, for which it needs its timer.                                *)
(***************************************************************************)
BatchOrder == Fifo!Ascending(Accepted, offered)

TransportInv == TypeOK /\ BatchHasTimer /\ BatchOrder

-----------------------------------------------------------------------------
(***************************************************************************)
(* Ascending sequences.                                                    *)
(***************************************************************************)
LEMMA AscendingAppend ==
  ASSUME NEW n \in Nat, NEW s \in Seq(1..n), Fifo!Ascending(s, n)
  PROVE  Fifo!Ascending(Append(s, n + 1), n + 1)
<1> DEFINE t == Append(s, n + 1)
<1>1. /\ Len(t) = Len(s) + 1
      /\ \A i \in 1..Len(s) : t[i] = s[i]
      /\ t[Len(s) + 1] = n + 1
  OBVIOUS
<1>2. \A i \in 1..Len(s) : s[i] \in 1..n
  BY DEF Fifo!Ascending
<1> HIDE DEF t
<1>3. \A i \in 1..Len(t) : t[i] \in 1..(n + 1)
  BY <1>1, <1>2
<1>4. ASSUME NEW i \in 1..Len(t), NEW j \in 1..Len(t), i < j
      PROVE  t[i] < t[j]
  <2>1. i \in 1..Len(s)
    BY <1>1, <1>4
  <2>2. CASE j \in 1..Len(s)
    BY <1>1, <1>4, <2>1, <2>2 DEF Fifo!Ascending
  <2>3. CASE j = Len(s) + 1
    BY <1>1, <1>2, <2>1, <2>3
  <2> QED BY <1>1, <2>2, <2>3
<1> QED BY <1>3, <1>4 DEF Fifo!Ascending, t

LEMMA AscendingLater ==
  ASSUME NEW n \in Nat, NEW s, Fifo!Ascending(s, n)
  PROVE  Fifo!Ascending(s, n + 1)
BY DEF Fifo!Ascending

LEMMA AscendingPrefix ==
  ASSUME NEW n \in Nat, NEW s \in Seq(1..n), NEW t \in Seq(1..n),
         Fifo!Ascending(s \o t, n)
  PROVE  Fifo!Ascending(s, n)
<1>1. /\ Len(s \o t) = Len(s) + Len(t)
      /\ \A i \in 1..Len(s) : (s \o t)[i] = s[i]
  OBVIOUS
<1>2. \A i \in 1..Len(s) : i \in 1..Len(s \o t)
  BY <1>1
<1> QED BY <1>1, <1>2 DEF Fifo!Ascending

LEMMA PrefixOfConcat ==
  ASSUME NEW S, NEW s \in Seq(S), NEW t \in Seq(S)
  PROVE  Fifo!IsPrefix(s, s \o t)
BY DEF Fifo!IsPrefix

-----------------------------------------------------------------------------
LEMMA InitInv == Init => TransportInv
<1> SUFFICES ASSUME Init PROVE TransportInv
  OBVIOUS
<1>1. TypeOK
  <2>1. /\ <<>> \in Seq(1..offered) /\ Len(<<>>) + Len(<<>>) <= offered
        /\ offered \in 0..MaxResponses
    BY TransportAssumption DEF Init
  <2> QED BY <2>1 DEF Init, TypeOK
<1>2. BatchHasTimer
  BY DEF Init, BatchHasTimer
<1>3. BatchOrder
  BY DEF Init, BatchOrder, Accepted, Fifo!Ascending
<1> QED BY <1>1, <1>2, <1>3 DEF TransportInv

(***************************************************************************)
(* Actions that touch neither the buffer nor the socket's output.          *)
(***************************************************************************)
LEMMA BufferUnchanged ==
  ASSUME TransportInv, UNCHANGED bufferVars, TypeOK'
  PROVE  TransportInv'
BY DEF TransportInv, BatchHasTimer, BatchOrder, Accepted, bufferVars

LEMMA SendInv ==
  ASSUME TransportInv, Send
  PROVE  TransportInv'
<1> USE DEF TransportInv
<1>1. /\ offered \in Nat /\ offered' = offered + 1 /\ offered' \in 0..MaxResponses
      /\ delivered \in Seq(1..offered) /\ responseBatch \in Seq(1..offered)
      /\ delivered \in Seq(1..offered') /\ responseBatch \in Seq(1..offered')
      /\ offered' \in 1..offered'
      /\ Len(delivered) + Len(responseBatch) <= offered
      /\ UNCHANGED connectionVars
  BY TransportAssumption DEF Send, TypeOK
<1>2. CASE Buffer(offered')
  <2>1. /\ delivered' = delivered /\ cacheTimeoutId'
        /\ responseBatch' = Append(responseBatch, offered')
        /\ cacheTimeoutId' = cacheTimeoutId
    BY <1>2 DEF Buffer
  <2>2. responseBatch' \in Seq(1..offered') /\ Len(responseBatch') = Len(responseBatch) + 1
    BY <1>1, <2>1
  <2>3. TypeOK'
    BY <1>1, <2>1, <2>2 DEF TypeOK, connectionVars
  <2>4. Accepted' = Append(Accepted, offered + 1)
    BY <1>1, <2>1 DEF Accepted
  <2>5. Accepted \in Seq(1..offered)
    BY <1>1 DEF Accepted
  <2>6. BatchOrder'
    BY <1>1, <2>4, <2>5, AscendingAppend DEF BatchOrder
  <2> QED BY <2>1, <2>3, <2>6 DEF BatchHasTimer
<1>3. CASE Dispatch(offered')
  <2>1. /\ delivered' = Append(delivered, offered')
        /\ cacheTimeoutId' = TRUE
        /\ responseBatch = <<>> /\ responseBatch' = <<>>
    BY <1>3 DEF Dispatch, BatchHasTimer
  <2>2. delivered' \in Seq(1..offered') /\ Len(delivered') = Len(delivered) + 1
    BY <1>1, <2>1
  <2>3. TypeOK'
    BY <1>1, <2>1, <2>2 DEF TypeOK, connectionVars
  <2>4. Accepted = delivered /\ Accepted' = delivered'
    BY <1>1, <2>1, <2>2 DEF Accepted
  <2>5. BatchOrder'
    BY <1>1, <2>1, <2>4, AscendingAppend DEF BatchOrder
  <2> QED BY <2>1, <2>3, <2>5 DEF BatchHasTimer
<1>4. CASE Drop(offered')
  <2>1. UNCHANGED <<cacheTimeoutId, responseBatch, delivered>>
    BY <1>4 DEF Drop
  <2>2. TypeOK'
    BY <1>1, <2>1 DEF TypeOK, connectionVars
  <2>3. BatchOrder'
    BY <1>1, <2>1, AscendingLater DEF BatchOrder, Accepted
  <2> QED BY <2>1, <2>2, <2>3 DEF BatchHasTimer
<1> QED BY <1>2, <1>3, <1>4 DEF Send

LEMMA SendBufferInv ==
  ASSUME TransportInv, SendBuffer
  PROVE  TransportInv'
<1> USE DEF TransportInv
<1>1. /\ offered \in Nat /\ offered' = offered
      /\ delivered \in Seq(1..offered) /\ responseBatch \in Seq(1..offered)
      /\ responseBatch' = <<>> /\ cacheTimeoutId' = FALSE
      /\ Len(delivered) + Len(responseBatch) <= offered
      /\ UNCHANGED <<active, socket, pinged, peer>>
  BY DEF SendBuffer, TypeOK
<1>2. /\ Accepted \in Seq(1..offered)
      /\ Len(Accepted) = Len(delivered) + Len(responseBatch)
  BY <1>1 DEF Accepted
<1>3. delivered' \in {delivered, Accepted}
  BY DEF SendBuffer, Accepted
<1>4. delivered' \in Seq(1..offered) /\ Len(delivered') <= offered
  BY <1>1, <1>2, <1>3
<1>5. TypeOK'
  <2>1. responseBatch' \in Seq(1..offered') /\ delivered' \in Seq(1..offered')
    BY <1>1, <1>4
  <2>2. Len(delivered') + Len(responseBatch') <= offered'
    BY <1>1, <1>4
  <2> QED BY <1>1, <2>1, <2>2 DEF TypeOK
<1>6. Accepted' = delivered'
  BY <1>1, <1>4 DEF Accepted
<1>7. BatchOrder'
  BY <1>1, <1>3, <1>6, AscendingPrefix DEF BatchOrder, Accepted
<1> QED BY <1>1, <1>5, <1>7 DEF BatchHasTimer

LEMMA NextInv == TransportInv /\ [Next]_vars => TransportInv'
<1> SUFFICES ASSUME TransportInv, [Next]_vars PROVE TransportInv'
  OBVIOUS
<1>1. TypeOK
  BY DEF TransportInv
<1>2. CASE Send
  BY <1>2, SendInv
<1>3. CASE SendBuffer
  BY <1>3, SendBufferInv
<1>4. CASE Ping
  <2>1. TypeOK' /\ UNCHANGED bufferVars
    BY <1>1, <1>4 DEF Ping, TypeOK, bufferVars
  <2> QED BY <2>1, BufferUnchanged
<1>5. CASE HandlePong
  <2>1. TypeOK' /\ UNCHANGED bufferVars
    BY <1>1, <1>5 DEF HandlePong, TypeOK, bufferVars
  <2> QED BY <2>1, BufferUnchanged
<1>6. CASE Close
  <2>1. TypeOK' /\ UNCHANGED bufferVars
    BY <1>1, <1>6 DEF Close, TypeOK, bufferVars
  <2> QED BY <2>1, BufferUnchanged
<1>7. CASE PeerCloses
  <2>1. TypeOK' /\ UNCHANGED bufferVars
    BY <1>1, <1>7 DEF PeerCloses, TypeOK, bufferVars
  <2> QED BY <2>1, BufferUnchanged
<1>8. CASE PeerVanishes
  <2>1. TypeOK' /\ UNCHANGED bufferVars
    BY <1>1, <1>8 DEF PeerVanishes, TypeOK, bufferVars
  <2> QED BY <2>1, BufferUnchanged
<1>9. CASE HandleClose
  <2>1. TypeOK' /\ UNCHANGED bufferVars
    BY <1>1, <1>9 DEF HandleClose, TypeOK, bufferVars
  <2> QED BY <2>1, BufferUnchanged
<1>10. CASE UNCHANGED vars
  <2>1. TypeOK' /\ UNCHANGED bufferVars
    BY <1>1, <1>10 DEF vars, TypeOK, bufferVars
  <2> QED BY <2>1, BufferUnchanged
<1> QED BY <1>2, <1>3, <1>4, <1>5, <1>6, <1>7, <1>8, <1>9, <1>10 DEF Next

(***************************************************************************)
(* No step takes back what was written.                                    *)
(***************************************************************************)
LEMMA DeliveredGrows ==
  ASSUME TransportInv, [Next]_vars
  PROVE  /\ offered' \in {offered, offered + 1}
         /\ \E t \in Seq(1..offered') : delivered' = delivered \o t
<1>1. /\ offered \in Nat /\ delivered \in Seq(1..offered)
      /\ responseBatch \in Seq(1..offered)
  BY TransportAssumption DEF TransportInv, TypeOK
<1>2. ASSUME delivered' = delivered
      PROVE  \E t \in Seq(1..offered') : delivered' = delivered \o t
  <2>1. <<>> \in Seq(1..offered') /\ delivered \o <<>> = delivered
    BY <1>1
  <2> QED BY <1>2, <2>1
<1>3. CASE Send
  <2>1. offered' = offered + 1 /\ offered' \in 1..offered'
    BY <1>1, <1>3 DEF Send
  <2>2. CASE Dispatch(offered')
    <3>1. delivered' = delivered \o <<offered'>>
      BY <1>1, <2>2 DEF Dispatch
    <3>2. <<offered'>> \in Seq(1..offered')
      BY <2>1
    <3> QED BY <2>1, <3>1, <3>2
  <2>3. CASE Buffer(offered') \/ Drop(offered')
    BY <1>2, <2>1, <2>3 DEF Buffer, Drop
  <2> QED BY <1>3, <2>2, <2>3 DEF Send
<1>4. CASE SendBuffer
  <2>1. offered' = offered /\ delivered' \in {delivered, delivered \o responseBatch}
    BY <1>4 DEF SendBuffer
  <2> QED BY <1>1, <1>2, <2>1
<1>5. CASE Ping \/ HandlePong \/ Close \/ PeerCloses \/ PeerVanishes \/ HandleClose
           \/ UNCHANGED vars
  <2>1. offered' = offered /\ delivered' = delivered
    BY <1>5 DEF Ping, HandlePong, Close, PeerCloses, PeerVanishes, HandleClose, vars, bufferVars
  <2> QED BY <1>2, <2>1
<1> QED BY <1>3, <1>4, <1>5 DEF Next

LEMMA TransportInvariant == Spec => []TransportInv
<1> QED BY InitInv, NextInv, PTL DEF Spec

-----------------------------------------------------------------------------
(***************************************************************************)
(* Every variable keeps its type, and a response is written or waits but   *)
(* never both, whatever the number of responses.                           *)
(***************************************************************************)
THEOREM TransportTypes == Spec => []TypeOK
<1>1. TransportInv => TypeOK
  BY DEF TransportInv
<1> QED BY <1>1, TransportInvariant, PTL

(***************************************************************************)
(* A buffered response always has a timer that will write it.              *)
(***************************************************************************)
THEOREM NoStuckBatch == Spec => []BatchHasTimer
<1>1. TransportInv => BatchHasTimer
  BY DEF TransportInv
<1> QED BY <1>1, TransportInvariant, PTL

(***************************************************************************)
(* The connection implements LossyFifo: what bufferResponse, sendBuffer    *)
(* and dispatch write is in order and without duplicates.                  *)
(***************************************************************************)
THEOREM ImplementsLossyFifo == Spec => FifoSpec
<1>1. Init => Fifo!Init
  BY DEF Init, Fifo!Init
<1>2. TransportInv /\ TransportInv' /\ [Next]_vars => [Fifo!Next]_(Fifo!fifoVars)
  <2> SUFFICES ASSUME TransportInv, TransportInv', [Next]_vars
               PROVE  [Fifo!Next]_(Fifo!fifoVars)
    OBVIOUS
  <2>1. /\ offered' \in Nat
        /\ delivered \in Seq(1..offered) /\ responseBatch \in Seq(1..offered)
        /\ delivered' \in Seq(1..offered') /\ responseBatch' \in Seq(1..offered')
    BY TransportAssumption DEF TransportInv, TypeOK
  <2>2. Fifo!Ascending(delivered', offered')
    BY <2>1, AscendingPrefix DEF TransportInv, BatchOrder, Accepted
  <2>3. /\ offered' \in {offered, offered + 1}
        /\ \E t \in Seq(1..offered') : delivered' = delivered \o t
    BY DeliveredGrows
  <2>4. delivered \in Seq(1..offered')
    BY <2>1, <2>3
  <2>5. Fifo!IsPrefix(delivered, delivered')
    BY <2>3, <2>4, PrefixOfConcat
  <2> QED BY <2>2, <2>3, <2>5 DEF Fifo!Next
<1> QED BY <1>1, <1>2, TransportInvariant, PTL DEF Spec, FifoSpec, Fifo!Spec
-----------------------------------------------------------------------------
(***************************************************************************)
(* A connection is inactive while its socket is open only between a ping   *)
(* and its pong: handlePong clears the two together, and whatever else     *)
(* makes it inactive moves the socket out of "open", for ever.             *)
(***************************************************************************)
InactiveIsPinged == socket = "open" /\ ~active => pinged

LEMMA InactiveIsPingedStep ==
  ASSUME InactiveIsPinged, [Next]_vars
  PROVE  InactiveIsPinged'
<1>1. CASE Send
  BY <1>1 DEF Send, connectionVars, InactiveIsPinged
<1>2. CASE SendBuffer
  BY <1>2 DEF SendBuffer, InactiveIsPinged
<1>3. CASE Ping
  BY <1>3 DEF Ping, InactiveIsPinged
<1>4. CASE HandlePong
  BY <1>4 DEF HandlePong, InactiveIsPinged
<1>5. CASE Close
  BY <1>5 DEF Close, InactiveIsPinged
<1>6. CASE PeerCloses
  BY <1>6 DEF PeerCloses, InactiveIsPinged
<1>7. CASE PeerVanishes
  BY <1>7 DEF PeerVanishes, InactiveIsPinged
<1>8. CASE HandleClose
  BY <1>8 DEF HandleClose, InactiveIsPinged
<1>9. CASE UNCHANGED vars
  BY <1>9 DEF vars, InactiveIsPinged
<1> QED BY <1>1, <1>2, <1>3, <1>4, <1>5, <1>6, <1>7, <1>8, <1>9 DEF Next

(***************************************************************************)
(* The ping interval terminates an open socket only over a ping without    *)
(* its pong, however the pings, pongs and closings interleave.             *)
(***************************************************************************)
THEOREM AnsweringPeersStay == Spec => OnlyDeafPeersAreTerminated
<1>1. Init => InactiveIsPinged
  BY DEF Init, InactiveIsPinged
<1>2. InactiveIsPinged /\ [Next]_vars => InactiveIsPinged'
  BY InactiveIsPingedStep
<1>3. InactiveIsPinged /\ [Next]_vars => [socket = "open" /\ socket' = "terminated" => pinged]_vars
  <2> SUFFICES ASSUME InactiveIsPinged, Next, socket = "open", socket' = "terminated"
               PROVE  pinged
    OBVIOUS
  <2>1. Ping /\ ~active
    BY DEF Next, Send, connectionVars, SendBuffer, Ping, HandlePong, Close, PeerCloses,
           PeerVanishes, HandleClose
  <2> QED BY <2>1 DEF InactiveIsPinged
<1> QED BY <1>1, <1>2, <1>3, PTL DEF Spec, OnlyDeafPeersAreTerminated

-----------------------------------------------------------------------------
(***************************************************************************)
(* Polls.                                                                  *)
(***************************************************************************)

(***************************************************************************)
(* CrashNeedsLateReply is no invariant by itself.  What keeps all others   *)
(* from a second answer: an active poll is unanswered, so that loaded      *)
(* messages do not answer twice; a poll that was answered while it loads   *)
(* has timed out, so that a failed load is late.                           *)
(***************************************************************************)
ActiveIsPending == \A c \in Polls : pollActive[c] => response[c] = "pending"

AnsweredLoadTimedOut ==
  \A c \in Polls : place[c] = "loading" /\ response[c] = "answered" => timer[c] # "set"

PollInv == PollTypeOK /\ ActiveIsPending /\ AnsweredLoadTimedOut /\ CrashNeedsLateReply

-----------------------------------------------------------------------------
LEMMA PollInitInv == PollInit => PollInv
<1> SUFFICES ASSUME PollInit PROVE PollInv
  OBVIOUS
<1>1. PollTypeOK
  BY DEF PollInit, PollTypeOK
<1>2. ActiveIsPending /\ AnsweredLoadTimedOut /\ CrashNeedsLateReply
  BY DEF PollInit, ActiveIsPending, AnsweredLoadTimedOut, CrashNeedsLateReply
<1> QED BY <1>1, <1>2 DEF PollInv

LEMMA ClosingStatus == HttpStatus(4029) = 429 /\ HttpStatus(4011) = 400
BY DEF HttpStatus

(* What answering a poll keeps, before it is known where the poll goes. *)
LEMMA RespondKeeps ==
  ASSUME PollInv, NEW c \in Polls, NEW code \in {200, 304, 400, 429}, Respond(c, code)
  PROVE  /\ response' \in [Polls -> {"pending", "answered", "closed"}]
         /\ status' \in [Polls -> {0, 200, 304, 400, 429}]
         /\ pollActive' \in [Polls -> BOOLEAN]
         /\ process' \in {"running", "exiting", "exited"}
         /\ \A d \in Polls : response'[d] = "answered" <=> status'[d] # 0
         /\ ActiveIsPending'
         /\ response'[c] # "pending" /\ ~pollActive'[c]
         /\ \A d \in Polls : d # c => response'[d] = response[d] /\ pollActive'[d] = pollActive[d]
         /\ \A d \in Polls : response[d] = "answered" => response'[d] = "answered"
         /\ process' # process => response[c] = "answered" /\ process' = "exiting"
<1> USE DEF PollInv, PollTypeOK, ActiveIsPending
<1>1. CASE response[c] = "answered"
  BY <1>1 DEF Respond
<1>2. CASE response[c] # "answered"
  <2>1. /\ response' = [response EXCEPT ![c] = IF @ = "pending" THEN "answered" ELSE @]
        /\ status' = [status EXCEPT ![c] = IF response[c] = "pending" THEN code ELSE @]
        /\ pollActive' = [pollActive EXCEPT ![c] = FALSE]
        /\ process' = process
    BY <1>2 DEF Respond
  <2> QED BY <1>2, <2>1
<1> QED BY <1>1, <1>2

(* Timers only go forward and answers stay: an old cause remains one. *)
LEMMA CauseStays ==
  ASSUME PollInv, process' = process,
         \A d \in Polls : response[d] = "answered" => response'[d] = "answered",
         \A d \in Polls : timer[d] # "set" => timer'[d] \in {"lookup", "fired"}
  PROVE  CrashNeedsLateReply'
BY DEF PollInv, PollTypeOK, CrashNeedsLateReply

(* Answering a registered poll: it was pending, and no answer is a second. *)
LEMMA AnswerRegistered ==
  ASSUME PollInv, NEW c \in Polls, NEW code \in {200, 304, 400, 429},
         place[c] = "registered", Answer(c, code), timer' = timer
  PROVE  PollInv'
<1>1. Respond(c, code) /\ place' = [place EXCEPT ![c] = "out"]
  BY DEF Answer, Leave, PollInv, PollTypeOK
<1>2. response[c] = "pending" /\ process' = process
  BY <1>1, RespondKeeps DEF PollInv, PollTypeOK
<1>3. PollTypeOK'
  BY <1>1, RespondKeeps DEF PollInv, PollTypeOK
<1>4. AnsweredLoadTimedOut'
  BY <1>1, RespondKeeps DEF PollInv, PollTypeOK, AnsweredLoadTimedOut
<1>5. CrashNeedsLateReply'
  BY <1>1, <1>2, RespondKeeps, CauseStays DEF PollInv, PollTypeOK
<1> QED BY <1>1, <1>3, <1>4, <1>5, RespondKeeps DEF PollInv

LEMMA LoadedInv ==
  ASSUME PollInv, NEW c \in Polls, Loaded(c)
  PROVE  PollInv'
<1>1. CASE pollActive[c] /\ Respond(c, 200)
  <2>1. response[c] = "pending" /\ process' = process
    BY <1>1, RespondKeeps DEF PollInv, ActiveIsPending
  <2>2. place' = [place EXCEPT ![c] = "out"] /\ timer' = timer
    BY <1>1, RespondKeeps DEF Loaded
  <2>3. PollTypeOK'
    BY <1>1, <2>2, RespondKeeps DEF PollInv, PollTypeOK
  <2>4. AnsweredLoadTimedOut'
    BY <1>1, <2>2, RespondKeeps DEF PollInv, PollTypeOK, AnsweredLoadTimedOut
  <2>5. CrashNeedsLateReply'
    BY <1>1, <2>1, <2>2, RespondKeeps, CauseStays DEF PollInv, PollTypeOK
  <2> QED BY <1>1, <2>3, <2>4, <2>5, RespondKeeps DEF PollInv
<1>2. CASE UNCHANGED <<response, status, pollActive, process>>
  <2>1. /\ place' = [place EXCEPT ![c] = IF pollActive[c] THEN "registered" ELSE "out"]
        /\ timer' = timer
    BY <1>2 DEF Loaded
  <2>2. PollTypeOK'
    BY <1>2, <2>1 DEF PollInv, PollTypeOK, ActiveIsPending
  <2> QED BY <1>2, <2>1, <2>2
          DEF PollInv, PollTypeOK, ActiveIsPending, AnsweredLoadTimedOut, CrashNeedsLateReply
<1> QED BY <1>1, <1>2 DEF Loaded

(* The first late reply: the poll was answered by its timeout. *)
LEMMA LoadFailedInv ==
  ASSUME PollInv, NEW c \in Polls, LoadFailed(c)
  PROVE  PollInv'
<1>1. /\ Respond(c, 400) /\ place[c] = "loading"
      /\ place' = [place EXCEPT ![c] = "out"] /\ timer' = timer
  BY ClosingStatus DEF LoadFailed
<1>2. PollTypeOK'
  BY <1>1, RespondKeeps DEF PollInv, PollTypeOK
<1>3. AnsweredLoadTimedOut'
  BY <1>1, RespondKeeps DEF PollInv, PollTypeOK, AnsweredLoadTimedOut
<1>4. CrashNeedsLateReply'
  <2>1. CASE process' = process
    BY <1>1, <2>1, RespondKeeps, CauseStays DEF PollInv, PollTypeOK
  <2>2. CASE process' # process
    BY <1>1, <2>2, RespondKeeps
       DEF PollInv, PollTypeOK, AnsweredLoadTimedOut, CrashNeedsLateReply
  <2> QED BY <2>1, <2>2
<1> QED BY <1>1, <1>2, <1>3, <1>4, RespondKeeps DEF PollInv

LEMMA HandleTimeoutInv ==
  ASSUME PollInv, NEW c \in Polls, HandleTimeout(c)
  PROVE  PollInv'
<1>1. CASE c \in WithMid
  <2>1. /\ Respond(c, 304) /\ response[c] = "pending"
        /\ place' = [place EXCEPT ![c] = IF @ = "registered" THEN "out" ELSE @]
        /\ timer' = [timer EXCEPT ![c] = "fired"]
    BY <1>1 DEF HandleTimeout, Answer, Leave
  <2>2. process' = process
    BY <2>1, RespondKeeps
  <2>3. PollTypeOK'
    BY <2>1, RespondKeeps DEF PollInv, PollTypeOK
  <2>4. AnsweredLoadTimedOut'
    BY <2>1, RespondKeeps DEF PollInv, PollTypeOK, AnsweredLoadTimedOut
  <2>5. CrashNeedsLateReply'
    BY <2>1, <2>2, RespondKeeps, CauseStays DEF PollInv, PollTypeOK
  <2> QED BY <2>1, <2>3, <2>4, <2>5, RespondKeeps DEF PollInv
<1>2. CASE c \notin WithMid
  <2>1. /\ timer' = [timer EXCEPT ![c] = "lookup"]
        /\ UNCHANGED <<response, status, pollActive, place, process>>
    BY <1>2 DEF HandleTimeout
  <2>2. PollTypeOK'
    BY <2>1 DEF PollInv, PollTypeOK
  <2>3. ActiveIsPending' /\ AnsweredLoadTimedOut'
    BY <2>1 DEF PollInv, PollTypeOK, ActiveIsPending, AnsweredLoadTimedOut
  <2>4. CrashNeedsLateReply'
    BY <2>1, CauseStays DEF PollInv, PollTypeOK
  <2> QED BY <2>2, <2>3, <2>4 DEF PollInv
<1> QED BY <1>1, <1>2

(* The second late reply: the poll was answered during the lookup. *)
LEMMA LastMessageInv ==
  ASSUME PollInv, NEW c \in Polls, LastMessage(c)
  PROVE  PollInv'
<1>1. /\ Respond(c, 304) /\ timer[c] = "lookup"
      /\ place' = [place EXCEPT ![c] = IF @ = "registered" THEN "out" ELSE @]
      /\ timer' = [timer EXCEPT ![c] = "fired"]
  BY DEF LastMessage, Answer, Leave
<1>2. PollTypeOK'
  BY <1>1, RespondKeeps DEF PollInv, PollTypeOK
<1>3. AnsweredLoadTimedOut'
  BY <1>1, RespondKeeps DEF PollInv, PollTypeOK, AnsweredLoadTimedOut
<1>4. CrashNeedsLateReply'
  <2>1. CASE process' = process
    BY <1>1, <2>1, RespondKeeps, CauseStays DEF PollInv, PollTypeOK
  <2>2. CASE process' # process
    BY <1>1, <2>2, RespondKeeps DEF PollInv, PollTypeOK, CrashNeedsLateReply
  <2> QED BY <2>1, <2>2
<1> QED BY <1>1, <1>2, <1>3, <1>4, RespondKeeps DEF PollInv

LEMMA ClientLeavesInv ==
  ASSUME PollInv, NEW c \in Polls, ClientLeaves(c)
  PROVE  PollInv'
<1>1. /\ response[c] = "pending"
      /\ response' = [response EXCEPT ![c] = "closed"]
      /\ pollActive' = [pollActive EXCEPT ![c] = FALSE]
      /\ place' = [place EXCEPT ![c] = IF @ = "registered" THEN "out" ELSE @]
      /\ UNCHANGED <<status, timer, process>>
  BY DEF ClientLeaves, Leave
<1>2. PollTypeOK'
  BY <1>1 DEF PollInv, PollTypeOK
<1>3. ActiveIsPending' /\ AnsweredLoadTimedOut'
  BY <1>1 DEF PollInv, PollTypeOK, ActiveIsPending, AnsweredLoadTimedOut
<1>4. CrashNeedsLateReply'
  BY <1>1, CauseStays DEF PollInv, PollTypeOK
<1> QED BY <1>2, <1>3, <1>4 DEF PollInv

LEMMA PollNextInv == PollInv /\ [PollNext]_(pollVars) => PollInv'
<1> SUFFICES ASSUME PollInv, [PollNext]_(pollVars) PROVE PollInv'
  OBVIOUS
<1>1. ASSUME NEW c \in Polls, PollSend(c) \/ Evict(c) PROVE PollInv'
  BY <1>1, AnswerRegistered, ClosingStatus DEF PollSend, Evict
<1>2. ASSUME NEW c \in Polls, Loaded(c) \/ LoadFailed(c) PROVE PollInv'
  BY <1>2, LoadedInv, LoadFailedInv
<1>3. ASSUME NEW c \in Polls, HandleTimeout(c) \/ LastMessage(c) PROVE PollInv'
  BY <1>3, HandleTimeoutInv, LastMessageInv
<1>4. ASSUME NEW c \in Polls, ClientLeaves(c) PROVE PollInv'
  BY <1>4, ClientLeavesInv
<1>5. CASE Exit
  BY <1>5 DEF Exit, PollInv, PollTypeOK, ActiveIsPending, AnsweredLoadTimedOut,
              CrashNeedsLateReply
<1>6. CASE UNCHANGED pollVars
  BY <1>6 DEF pollVars, PollInv, PollTypeOK, ActiveIsPending, AnsweredLoadTimedOut,
              CrashNeedsLateReply
<1> QED BY <1>1, <1>2, <1>3, <1>4, <1>5, <1>6 DEF PollNext, Step

LEMMA PollInvariant == PollSpec => []PollInv
<1> QED BY PollInitInv, PollNextInv, PTL DEF PollSpec

-----------------------------------------------------------------------------
(***************************************************************************)
(* Every variable keeps its type, a poll has a status exactly when it was  *)
(* answered, and a registered poll can still be answered: neither an       *)
(* eviction nor a broadcast writes a second head.                          *)
(***************************************************************************)
THEOREM PollingTypes == PollSpec => []PollTypeOK
<1>1. PollInv => PollTypeOK
  BY DEF PollInv
<1> QED BY <1>1, PollInvariant, PTL

(***************************************************************************)
(* A process that ends over a second head has a poll that was answered     *)
(* after its timer fired: the replies of getLastMessage and of a failed    *)
(* storage.get are the only ones that come too late.                       *)
(***************************************************************************)
THEOREM OnlyLateRepliesCrash == PollSpec => []CrashNeedsLateReply
<1>1. PollInv => CrashNeedsLateReply
  BY DEF PollInv
<1> QED BY <1>1, PollInvariant, PTL
=============================================================================
