-------------------------- MODULE PollingTransport --------------------------
(***************************************************************************)
(* Long polls of one process (lib/transports/polling.js): the ways to      *)
(* answer one - a broadcast, the missed messages, an eviction, a failed    *)
(* load, the 40 s timeout - and the storage replies that come in between.  *)
(* Writing the head of a response a second time throws out of an event     *)
(* handler; the exception handler of the log then ends the process within  *)
(* three seconds, in which it goes on.  Names that WebSocketTransport has  *)
(* too begin with Poll here, as TransportProofs is about both.             *)
(***************************************************************************)
EXTENDS Integers

CONSTANTS Polls, WithMid  \* all polls, and those that gave a message id

ASSUME PollingAssumption == WithMid \subseteq Polls

VARIABLES
  response,   \* "pending", "answered", or "closed" by the client while pending
  status,     \* the HTTP status written, 0 if none
  pollActive, \* connection.active
  place,      \* "loading" the missed messages, "registered", or "out"
  timer,      \* the 40 s timer: "set", "fired" or "lookup" (getLastMessage)
  process     \* "running", "exiting" after such an exception, or "exited"

pollVars == <<response, status, pollActive, place, timer, process>>

(* After addToAdapter: without a message id there is nothing to load. *)
PollInit ==
  /\ response = [c \in Polls |-> "pending"]
  /\ status = [c \in Polls |-> 0]
  /\ pollActive = [c \in Polls |-> TRUE]
  /\ place = [c \in Polls |-> IF c \in WithMid THEN "loading" ELSE "registered"]
  /\ timer = [c \in Polls |-> "set"]
  /\ process = "running"

-----------------------------------------------------------------------------
(* Connection.getHttpStatus. *)
HttpStatus(code) ==
  CASE code < 1000 -> code
    [] code = 4000 -> 200
    [] code = 4029 -> 429
    [] OTHER -> 400

(* Mutant: a response the client abandoned counts as answered. *)
RespondToNobody(c, code) ==
  IF response[c] = "answered"
    THEN process' = "exiting" /\ UNCHANGED <<response, status, pollActive>>
    ELSE /\ response' = [response EXCEPT ![c] = "answered"]
         /\ status' = [status EXCEPT ![c] = IF response[c] = "pending" THEN code ELSE @]
         /\ pollActive' = [pollActive EXCEPT ![c] = FALSE]
         /\ UNCHANGED process

(***************************************************************************)
(* writeHead, end and finalize, but for the registry; or the second        *)
(* writeHead of a response.  To a client that left nothing is written.     *)
(***************************************************************************)
Respond(c, code) ==
  IF response[c] = "answered"
    THEN process' = "exiting" /\ UNCHANGED <<response, status, pollActive>>
    ELSE /\ response' = [response EXCEPT ![c] = IF @ = "pending" THEN "answered" ELSE @]
         /\ status' = [status EXCEPT ![c] = IF response[c] = "pending" THEN code ELSE @]
         /\ pollActive' = [pollActive EXCEPT ![c] = FALSE]
         /\ UNCHANGED process

(* The "close" event takes a registered poll out; a load in progress goes on. *)
Leave(c) == place' = [place EXCEPT ![c] = IF @ = "registered" THEN "out" ELSE @]

Answer(c, code) == Respond(c, code) /\ Leave(c)

(* Mutant: send forgets to finalize. *)
SendAndStay(c) ==
  /\ place[c] = "registered" /\ pollActive[c]
  /\ response' = [response EXCEPT ![c] = "answered"]
  /\ status' = [status EXCEPT ![c] = 200]
  /\ UNCHANGED <<pollActive, place, timer, process>>

(* send, called by broadcast for a registered poll. *)
PollSend(c) ==
  /\ place[c] = "registered" /\ pollActive[c]
  /\ Answer(c, 200)
  /\ UNCHANGED timer

(* close(4029, "Too many connections"), by an eviction. *)
Evict(c) ==
  /\ place[c] = "registered"
  /\ Answer(c, HttpStatus(4029))
  /\ UNCHANGED timer

(* The callback of storage.get: missed messages answer the poll; an active *)
(* poll is then added.                                                     *)
Loaded(c) ==
  /\ place[c] = "loading"
  /\ \/ /\ pollActive[c] /\ Respond(c, 200)
     \/ UNCHANGED <<response, status, pollActive, process>>
  /\ place' = [place EXCEPT ![c] = IF pollActive'[c] THEN "registered" ELSE "out"]
  /\ UNCHANGED timer

(* The same callback, with an error: close(4011). *)
LoadFailed(c) ==
  /\ place[c] = "loading"
  /\ Respond(c, HttpStatus(4011))
  /\ place' = [place EXCEPT ![c] = "out"]
  /\ UNCHANGED timer

(* Mutant: only a registered poll times out. *)
HandleTimeoutIfRegistered(c) ==
  /\ timer[c] = "set" /\ response[c] = "pending" /\ place[c] = "registered"
  /\ IF c \in WithMid
       THEN Answer(c, 304) /\ timer' = [timer EXCEPT ![c] = "fired"]
       ELSE /\ timer' = [timer EXCEPT ![c] = "lookup"]
            /\ UNCHANGED <<response, status, pollActive, place, process>>

(* handleTimeout: the socket keeps its timer while the response is pending. *)
HandleTimeout(c) ==
  /\ timer[c] = "set" /\ response[c] = "pending"
  /\ IF c \in WithMid
       THEN Answer(c, 304) /\ timer' = [timer EXCEPT ![c] = "fired"]
       ELSE /\ timer' = [timer EXCEPT ![c] = "lookup"]
            /\ UNCHANGED <<response, status, pollActive, place, process>>

(* The callback of getLastMessage, with a message, none or an error. *)
LastMessage(c) ==
  /\ timer[c] = "lookup"
  /\ Answer(c, 304)
  /\ timer' = [timer EXCEPT ![c] = "fired"]

(* The client goes away: the "close" event of the response. *)
ClientLeaves(c) ==
  /\ response[c] = "pending"
  /\ response' = [response EXCEPT ![c] = "closed"]
  /\ pollActive' = [pollActive EXCEPT ![c] = FALSE]
  /\ Leave(c)
  /\ UNCHANGED <<status, timer, process>>

Step(c) ==
  \/ PollSend(c) \/ Evict(c)
  \/ Loaded(c) \/ LoadFailed(c)
  \/ HandleTimeout(c) \/ LastMessage(c)
  \/ ClientLeaves(c)

Exit ==
  /\ process = "exiting"
  /\ process' = "exited"
  /\ UNCHANGED <<response, status, pollActive, place, timer>>

PollNext ==
  \/ process # "exited" /\ \E c \in Polls : Step(c)
  \/ Exit

(***************************************************************************)
(* The timer fires; the storage answers getLastMessage or fails it.  No    *)
(* fairness is asked of storage.get: a poll with a message id ends anyway. *)
(***************************************************************************)
PollFairness ==
  \A c \in Polls : /\ WF_pollVars(process # "exited" /\ HandleTimeout(c))
                   /\ WF_pollVars(process # "exited" /\ LastMessage(c))

PollSpec == PollInit /\ [][PollNext]_pollVars /\ PollFairness

-----------------------------------------------------------------------------
(***************************************************************************)
(* Every variable has its type; a poll is answered exactly when a status   *)
(* was written, so that an abandoned response gets none; and a registered  *)
(* poll is pending and active, so that an eviction or a broadcast does not *)
(* answer it a second time.                                                *)
(***************************************************************************)
PollTypeOK ==
  /\ response \in [Polls -> {"pending", "answered", "closed"}]
  /\ status \in [Polls -> {0, 200, 304, 400, 429}]
  /\ pollActive \in [Polls -> BOOLEAN]
  /\ place \in [Polls -> {"loading", "registered", "out"}]
  /\ timer \in [Polls -> {"set", "fired", "lookup"}]
  /\ process \in {"running", "exiting", "exited"}
  /\ \A c \in Polls : response[c] = "answered" <=> status[c] # 0
  /\ \A c \in Polls : place[c] = "registered" => response[c] = "pending" /\ pollActive[c]

(***************************************************************************)
(* The only responses written twice are those of the storage races: a poll *)
(* answered while getLastMessage is looking up the id of its 304, and one  *)
(* that timed out before storage.get failed.                               *)
(***************************************************************************)
CrashNeedsLateReply ==
  process # "running" => \E c \in Polls :
    response[c] = "answered" /\ (timer[c] = "lookup" \/ timer[c] = "fired")

(***************************************************************************)
(* No poll hangs: it is answered or its client leaves, even when the       *)
(* missed messages never arrive - unless the process exits.                *)
(***************************************************************************)
PollEnds == \A c \in Polls : <>(process = "exited" \/ response[c] # "pending")
=============================================================================
