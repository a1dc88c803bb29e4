------------------------------ MODULE Requests ------------------------------
(***************************************************************************)
(* The HTTP requests and websocket frames of one process: the routes of a  *)
(* server (server.js, lib/routing.js, lib/router.js), the body, the        *)
(* license lookup of the cloud mode, signatures (lib/signature.js), the    *)
(* channels of a connection (lib/transports/connection.js), the commands   *)
(* (lib/application.js), the HTTP answer (lib/transports/httprequest.js)   *)
(* and the daily counters (lib/statistics.js).                             *)
(*                                                                         *)
(* What a request carries is a record that never changes; what happens to  *)
(* it is a stage, the status written, and the socket.  Its url is whether  *)
(* its target parses as a URL with its Host header.  A signature is the    *)
(* name of the key that made it: "own" is the key of the server, "client"  *)
(* that of the license, any other matches nothing.                         *)
(***************************************************************************)
EXTENDS Router

CONSTANTS
  Req,               \* identities of requests
  Kinds,             \* Kinds[r]: what request r may be, a set of records
  Frames,            \* the websocket messages that may arrive
  Server,            \* routes of the server: pub, sub, rest, stat, register, systemctl
  LicenseServer,     \* whether config.licenseServer is set
  MaxPayload,        \* config.limits.maxPayload, in chunks of a body
  MaxMessages,       \* limits.maxMessagesPerRequest
  MaxChannels,       \* limits.maxChannelsPerRequest
  MaxFrames,         \* bound: websocket messages
  MaxDay             \* bound: midnights

(***************************************************************************)
(* What is parsed or decoded before the code looks at it: the channels of  *)
(* CHANNEL_ID, and the lists of receivers in a body.                       *)
(***************************************************************************)
Channel == [id : STRING, public : STRING, key : STRING]
Receiver == [id : STRING, private : BOOLEAN, key : STRING]

Decoded(body) ==
  /\ body.command = "incomingMessages" => body.messages \in Seq(Seq(Receiver))
  /\ body.command = "channelStats" => body.channels \in Seq(Receiver)

ASSUME RequestsAssumption ==
  /\ LicenseServer \in BOOLEAN
  /\ MaxPayload \in Nat /\ MaxMessages \in Nat /\ MaxChannels \in Nat
  /\ MaxFrames \in Nat /\ MaxDay \in Nat
  /\ \A r \in Req : \A k \in Kinds[r] : k.channels \in Seq(Channel) /\ Decoded(k.body)
  /\ \A body \in Frames : Decoded(body)

Licenses == {"none", "valid", "expired"}
NoId == "none"

(* IncomingMessage.sender of a message from the portal. *)
Backend == [type |-> "backend", id |-> NoId]

VARIABLES
  cloudMode,  \* config.cloudMode
  kind,       \* the request, or NoKind before it arrives
  route,      \* the handler of its route, "" before it arrives
  stage,      \* what it waits for: "new", "body", "license", "reply", the
              \* socket timer ("failed"), nothing ("rejected"), or where it
              \* went: "poll", "websocket", "done"
  bytes,      \* chunks of its body received
  head,       \* status of its writeHead, 0 if none
  socket,     \* "open", "closing" (a refused websocket), "gone"
  license,    \* what the license lookup returned
  process,    \* "running", "exiting" after an uncaught exception, "exited"
  submitted,  \* messages given to storage.set
  frames,     \* websocket messages handled
  day, counts,\* today; the counters and the day they are for
  today       \* history: what was counted since midnight

rvars == <<kind, route, stage, bytes, head, socket, license>>
svars == <<day, counts, today>>
vars == <<cloudMode, rvars, process, submitted, frames, svars>>

NoKind == [via |-> "none"]

(* trustClients wins over cloudMode; without either, clients are trusted. *)
CloudMode(trustClients, cloud) ==
  IF trustClients # "unset" THEN trustClients = "no" ELSE cloud = "yes"

Init ==
  /\ \E trust, cloud \in {"yes", "no", "unset"} : cloudMode = CloudMode(trust, cloud)
  /\ kind = [r \in Req |-> NoKind]
  /\ route = [r \in Req |-> ""]
  /\ stage = [r \in Req |-> "new"]
  /\ bytes = [r \in Req |-> 0]
  /\ head = [r \in Req |-> 0]
  /\ socket = [r \in Req |-> "open"]
  /\ license = [r \in Req |-> "none"]
  /\ process = "running"
  /\ submitted = <<>>
  /\ frames = 0
  /\ day = 0
  /\ counts = [day |-> 0, requests |-> 0, messages |-> 0]
  /\ today = [requests |-> 0, messages |-> 0]

-----------------------------------------------------------------------------
(* The routes of Routing's constructor, in its order.                      *)
Constructed == <<
  [method |-> "POST", path |-> Server.pub, fn |-> "publish"],
  [method |-> "GET", path |-> Server.pub, fn |-> "channelStats"],
  [method |-> "GET", path |-> Server.sub, fn |-> "subscribe"],
  [method |-> "OPTIONS", path |-> Server.sub, fn |-> "options"],
  [method |-> "POST", path |-> Server.rest, fn |-> "rest"],
  [method |-> "GET", path |-> Server.stat, fn |-> "stat"],
  [method |-> "POST", path |-> Server.register, fn |-> "register"],
  [method |-> "POST", path |-> Server.systemctl, fn |-> "systemctl"]>>

(* An empty path is a missing route. *)
IsGiven(entry) ==
  /\ entry.path # <<>>
  /\ entry.fn = "register" => LicenseServer /\ cloudMode

AddGiven(router, entry) == IF IsGiven(entry) THEN Add(router, entry) ELSE router

Routes ==
  LET run[i \in 0..Len(Constructed)] ==
        IF i = 0 THEN [routes |-> <<>>, ok |-> TRUE] ELSE AddGiven(run[i-1], Constructed[i])
  IN run[Len(Constructed)]

(***************************************************************************)
(* Signatures and the channels of CHANNEL_ID: a sequence of [id, public,   *)
(* key], where key made the signature over both ids, or over the private   *)
(* one if there is no public id.                                           *)
(***************************************************************************)
KeyOf(lic) == IF lic = "valid" THEN "client" ELSE "own"
SignatureIsValid(key, lic) == key = KeyOf(lic)

ParsedChannel(part, verifySignature, lic) ==
  /\ part.id # "malformed"
  /\ part.public # NoId \/ verifySignature => SignatureIsValid(part.key, lic)

ParseChannels(parts, verifySignature, lic) ==
  IF \/ verifySignature /\ cloudMode /\ lic = "none"
     \/ \E i \in DOMAIN parts : ~ParsedChannel(parts[i], verifySignature, lic)
    THEN <<>> ELSE parts

(* getPubChannelId: the first public id of the channels. *)
PubChannelId(channels) ==
  LET withPublic(channel) == channel.public # NoId
      i == SelectInSeq(channels, withPublic)
  IN IF i = 0 THEN NoId ELSE channels[i].public

(* getReceivers: every private id, followed by its public id if it has one. *)
ReceiversOf(channels) ==
  FlattenSeq([i \in DOMAIN channels |->
    <<[id |-> channels[i].id, private |-> TRUE]>> \o
    (IF channels[i].public = NoId THEN <<>>
     ELSE <<[id |-> channels[i].public, private |-> FALSE]>>)])

(* The query parameter `signature`, which only the cloud mode reads. *)
RequestSignature(r) == IF cloudMode THEN kind[r].signature ELSE "none"

HttpStatus(code) ==
  CASE code < 1000 -> code [] code = 4000 -> 200 [] code = 4029 -> 429 [] OTHER -> 400

-----------------------------------------------------------------------------
(***************************************************************************)
(* Commands.  What a handler decides: the code of close() or 0, the        *)
(* messages it publishes, whether an answer follows from the storage or    *)
(* the license server, and whether the command was counted.                *)
(***************************************************************************)
Refuse(code) == [code |-> code, publish |-> <<>>, reply |-> FALSE, counted |-> 0]
Reply == [code |-> 0, publish |-> <<>>, reply |-> TRUE, counted |-> 1]
Publish(code, messages, counted) ==
  [code |-> code, publish |-> messages, reply |-> FALSE, counted |-> counted]

ErrorIn(channel, trusted, lic) ==
  CASE trusted /\ channel.id = "short" -> 4019
    [] ~trusted /\ channel.private -> 4020
    [] ~trusted /\ ~channel.private /\ ~SignatureIsValid(channel.key, lic) -> 4021
    [] OTHER -> 0

FirstError(codes) ==
  LET isError(code) == code # 0
      i == SelectInSeq(codes, isError)
  IN IF i = 0 THEN 0 ELSE codes[i]

ValidateChannels(channels, trusted, lic) ==
  CASE channels = <<>> -> 4017
    [] Len(channels) > MaxChannels -> 4018
    [] OTHER -> FirstError([i \in DOMAIN channels |-> ErrorIn(channels[i], trusted, lic)])

(* Mutant: only the first message of a request is validated. *)
ValidateFirstMessage(messages, trusted, lic) ==
  IF Len(messages) > MaxMessages THEN 4016
  ELSE FirstError([i \in DOMAIN messages \cap {1} |-> ValidateChannels(messages[i], trusted, lic)])

(* A message is the sequence of its receivers. *)
ValidateMessages(messages, trusted, lic) ==
  IF Len(messages) > MaxMessages THEN 4016
  ELSE FirstError([i \in DOMAIN messages |-> ValidateChannels(messages[i], trusted, lic)])

Message(r, receivers, sender) == [from |-> r, sender |-> sender, receivers |-> receivers]

(* Mutant: the messages before the first invalid one are published. *)
IncomingUpToTheError(r, messages, publicId, trusted, lic) ==
  LET valid(n) == ValidateMessages(SubSeq(messages, 1, n), trusted, lic) = 0
      n == CHOOSE n \in 0..Len(messages) : /\ valid(n)
                                          /\ n < Len(messages) => ~valid(n + 1)
      sender == IF trusted THEN Backend ELSE [type |-> "client", id |-> publicId]
  IN Publish(ValidateMessages(messages, trusted, lic),
             [i \in 1..n |-> Message(r, messages[i], sender)], 1)

(* Of an HTTP request the answer precedes the messages; a websocket gets   *)
(* no answer.                                                              *)
IncomingMessages(r, messages, publicId, trusted, lic) ==
  LET error == ValidateMessages(messages, trusted, lic)
      sender == IF trusted THEN Backend ELSE [type |-> "client", id |-> publicId]
      ok == IF kind[r].via = "http" THEN 200 ELSE 0
  IN IF error # 0 THEN [Refuse(error) EXCEPT !.counted = 1]
     ELSE Publish(ok, [i \in DOMAIN messages |-> Message(r, messages[i], sender)], 1)

ChannelStats(channels, trusted, lic) ==
  LET error == ValidateChannels(channels, trusted, lic)
  IN IF error # 0 THEN [Refuse(error) EXCEPT !.counted = 1] ELSE Reply

(***************************************************************************)
(* processClientRequest: the first request of the batch.  The decoder      *)
(* makes `registration` a command too, for which there is no action.       *)
(***************************************************************************)
ProcessClientRequest(r, body, publicId, trusted, lic) ==
  IF ~trusted /\ publicId = NoId THEN Refuse(4012) ELSE
  CASE body.command = "garbage" -> Refuse(4013)
    [] ~trusted /\ body.command \notin {"garbage", "incomingMessages", "channelStats"} ->
         Refuse(4014)
    [] body.command = "incomingMessages" ->
         IncomingMessages(r, body.messages, publicId, trusted, lic)
    [] body.command = "channelStats" -> ChannelStats(body.channels, trusted, lic)
    [] trusted /\ body.command = "serverStats" -> Reply
    [] OTHER -> [Refuse(4015) EXCEPT !.counted = 1]

-----------------------------------------------------------------------------
(* The handlers of Routing, each with the license it looked up, if any.    *)
(* An empty body is a request batch without requests.                      *)
Body(r) == IF bytes[r] = 0 THEN [command |-> "garbage"] ELSE kind[r].body

(* validateRequestSignature, in the cloud mode: 0 or a refusal. *)
RequestError(r, lic) ==
  CASE ~cloudMode -> 0
    [] cloudMode /\ lic = "none" -> 4025
    [] cloudMode /\ lic # "none" /\ ~SignatureIsValid(RequestSignature(r), lic) -> 4026
    [] OTHER -> 0

(* The text form is answered 200 whatever becomes of it. *)
PublishText(r, lic) ==
  LET receivers == ReceiversOf(ParseChannels(kind[r].channels, FALSE, lic))
  IN Publish(200, IF bytes[r] = 0 \/ receivers = <<>> THEN <<>>
                  ELSE <<Message(r, receivers, Backend)>>, 0)

(* Mutant: the signature of the request is not checked. *)
PublishUnsigned(r, lic) ==
  IF kind[r].binary THEN ProcessClientRequest(r, Body(r), NoId, TRUE, lic)
  ELSE PublishText(r, lic)

ProcessPublishRequest(r, lic) ==
  CASE RequestError(r, lic) # 0 -> Refuse(RequestError(r, lic))
    [] RequestError(r, lic) = 0 /\ kind[r].binary ->
         ProcessClientRequest(r, Body(r), NoId, TRUE, lic)
    [] OTHER -> PublishText(r, lic)

ProcessChannelStatsRequest(r, lic) ==
  LET channels == ParseChannels(kind[r].channels, FALSE, lic)
      privateOnly == [i \in DOMAIN channels |-> [id |-> channels[i].id, private |-> TRUE]]
  IN IF RequestError(r, lic) # 0 THEN Refuse(RequestError(r, lic))
     ELSE ChannelStats(privateOnly, TRUE, lic)

ProcessRestRequest(r, lic) ==
  ProcessClientRequest(
    r, Body(r), PubChannelId(ParseChannels(kind[r].channels, TRUE, lic)), FALSE, lic)

(* The answer of a registration comes from License.register. *)
ProcessRegisterRequest(r) ==
  CASE bytes[r] = 0 -> Refuse(4022)
    [] bytes[r] > 0 /\ Body(r).command # "verificationQuery" -> Refuse(4024)
    [] OTHER -> [Reply EXCEPT !.counted = 0]

(* A JSON-RPC request, signed with the key of the server; by its command:  *)
(* no JSON, no method, no params, unregister or another method.            *)
ProcessSystemRequest(r) ==
  CASE bytes[r] = 0 -> Refuse(4022)
    [] bytes[r] > 0 /\ RequestSignature(r) # "own" -> Refuse(4026)
    [] OTHER ->
         CASE Body(r).command = "noMethod" -> Refuse(4033)
           [] Body(r).command = "noParams" -> Refuse(4034)
           [] Body(r).command = "unregister" -> [Reply EXCEPT !.counted = 0]
           [] Body(r).command = "otherMethod" -> Refuse(4035)
           [] OTHER -> Refuse(4032)

Outcome(r, lic) ==
  CASE route[r] = "publish" -> ProcessPublishRequest(r, lic)
    [] route[r] = "channelStats" -> ProcessChannelStatsRequest(r, lic)
    [] route[r] = "rest" -> ProcessRestRequest(r, lic)
    [] route[r] = "register" -> ProcessRegisterRequest(r)
    [] route[r] = "systemctl" -> ProcessSystemRequest(r)
    [] route[r] = "stat" -> Reply
    [] route[r] = "options" -> Publish(200, <<>>, 0)
    [] OTHER -> Refuse(404)

(* new URL(request.url, "https://" + host) throws. *)
Malformed(r) == kind[r].url = "malformed"

(***************************************************************************)
(* GET of the pub route in the cloud mode, signed but without CHANNEL_ID:  *)
(* the HMAC of null throws in an async function.                           *)
(***************************************************************************)
HashesNull(r) ==
  /\ cloudMode /\ route[r] = "channelStats"
  /\ kind[r].signature # "none" /\ kind[r].channels = <<>>

(* A registration looks for the host in the URL. *)
RegistersNoHost(r) == route[r] = "register" /\ Malformed(r)

Throws(r, lic) ==
  \/ HashesNull(r) /\ lic # "none"
  \/ RegistersNoHost(r) /\ bytes[r] > 0 /\ Body(r).command = "verificationQuery"

-----------------------------------------------------------------------------
(* Mutant: the counters are kept over midnight. *)
ResetTheDayOnly(c) == IF day > c.day THEN [c EXCEPT !.day = day] ELSE c

(* The counters are reset when they are next used after midnight. *)
TryResetCounters(c) ==
  IF day > c.day THEN [day |-> day, requests |-> 0, messages |-> 0] ELSE c

(* incrementRequest, incrementMessage; getDailyStats for (0, 0). *)
Increment(requests, messages) ==
  /\ counts' = LET c == TryResetCounters(counts)
               IN [c EXCEPT !.requests = @ + requests, !.messages = @ + messages]
  /\ today' = [requests |-> today.requests + requests, messages |-> today.messages + messages]

CountedBy(o) ==
  IF o.counted + Len(o.publish) = 0 THEN UNCHANGED <<counts, today>>
  ELSE Increment(o.counted, Len(o.publish))

(* response.writeHead, which throws for a response that has a head. *)
WriteHead(r, status) ==
  IF head[r] # 0 THEN process' = "exiting" /\ UNCHANGED head
  ELSE head' = [head EXCEPT ![r] = status] /\ UNCHANGED process

(* What a handler of an HTTP request does at once. *)
Do(r, o) ==
  /\ IF o.code = 0 THEN UNCHANGED <<head, process>> ELSE WriteHead(r, HttpStatus(o.code))
  /\ submitted' = submitted \o o.publish
  /\ CountedBy(o)
  /\ stage' = [stage EXCEPT ![r] = IF o.reply THEN "reply" ELSE "done"]

(***************************************************************************)
(* An exception out of an event listener ends the process; that of an      *)
(* async function rejects its promise, which some versions of Node allow.  *)
(***************************************************************************)
Uncaught(synchronous) ==
  process' \in (IF synchronous THEN {"exiting"} ELSE {process, "exiting"})

Throw(r) ==
  /\ stage' = [stage EXCEPT ![r] = "failed"]
  /\ Uncaught(route[r] = "register")
  /\ UNCHANGED <<head, submitted, counts, today>>

(* License.getByRequest throws before anybody could answer, or set a timer. *)
Reject(r) ==
  /\ stage' = [stage EXCEPT ![r] = "rejected"]
  /\ Uncaught(route[r] = "subscribe")
  /\ UNCHANGED <<head, socket, submitted, counts, today>>

(* subscribePolling: the poll goes to addToAdapter, whatever its socket is. *)
Subscribe(r) ==
  /\ stage' = [stage EXCEPT ![r] = "poll"]
  /\ UNCHANGED <<head, process, submitted, counts, today>>

(* handleUpgrade of ws refuses another path than the sub route, and makes  *)
(* no websocket of a socket that is gone; addToAdapter closes a websocket  *)
(* without channels.                                                       *)
Upgrade(r, lic) ==
  /\ IF kind[r].path = Server.sub
       THEN /\ stage' = [stage EXCEPT ![r] = IF socket[r] = "open" THEN "websocket" ELSE "done"]
            /\ socket' = [socket EXCEPT ![r] =
                 IF @ = "open" /\ ParseChannels(kind[r].channels, TRUE, lic) = <<>>
                   THEN "closing" ELSE @]
            /\ UNCHANGED <<head, process>>
       ELSE /\ stage' = [stage EXCEPT ![r] = "done"]
            /\ socket' = [socket EXCEPT ![r] = "gone"]
            /\ WriteHead(r, 400)
  /\ UNCHANGED <<submitted, counts, today>>

(* In the cloud mode an upgrade without a license is refused first. *)
HandleUpgrade(r, lic) ==
  IF cloudMode /\ lic = "none"
    THEN /\ stage' = [stage EXCEPT ![r] = "done"]
         /\ socket' = [socket EXCEPT ![r] = "gone"]
         /\ WriteHead(r, 400)
         /\ UNCHANGED <<submitted, counts, today>>
    ELSE Upgrade(r, lic)

(* A handler that has all it waits for. *)
Handle(r, lic) ==
  IF kind[r].via = "upgrade" THEN HandleUpgrade(r, lic)
  ELSE /\ UNCHANGED socket
       /\ CASE route[r] = "subscribe" -> Subscribe(r)
            [] route[r] # "subscribe" /\ Throws(r, lic) -> Throw(r)
            [] OTHER -> Do(r, Outcome(r, lic))

(* Mutant: a poll always waits for the lookup. *)
NeedsLicenseForPolls(r) ==
  \/ cloudMode /\ route[r] \in {"upgrade", "publish", "channelStats", "rest"}
  \/ route[r] = "subscribe"

NeedsLicense(r) ==
  /\ cloudMode
  /\ route[r] \in {"upgrade", "publish", "channelStats", "rest", "subscribe"}

-----------------------------------------------------------------------------
(* A request comes in.  Its route is a function of the request, kept from  *)
(* here on; an "upgrade" event has none.                                   *)
Arrive(r) ==
  /\ stage[r] = "new"
  /\ \E k \in Kinds[r] :
       /\ kind' = [kind EXCEPT ![r] = k]
       /\ route' = [route EXCEPT ![r] =
            IF k.via = "upgrade" THEN "upgrade" ELSE Match(Routes.routes, k.method, k.path).fn]
  /\ stage' = [stage EXCEPT ![r] = "arrived"]
  /\ UNCHANGED <<cloudMode, bytes, head, socket, license, process, submitted, frames, svars>>

AskLicense(r) ==
  /\ stage' = [stage EXCEPT ![r] = "license"]
  /\ UNCHANGED <<head, socket, process, submitted, counts, today>>

(* The handler up to the license lookup, or to its end without one. *)
Begin(r) ==
  \/ NeedsLicense(r) /\ Malformed(r) /\ Reject(r)
  \/ NeedsLicense(r) /\ ~Malformed(r) /\ AskLicense(r)
  \/ ~NeedsLicense(r) /\ Handle(r, "none")

(* The "request" or "upgrade" event: processRequest and the handler of the *)
(* route; those of POST routes wait for the body.                          *)
Process(r) ==
  /\ stage[r] = "arrived"
  /\ IF route[r] \in {"publish", "rest", "register", "systemctl"}
       THEN /\ stage' = [stage EXCEPT ![r] = "body"]
            /\ UNCHANGED <<head, socket, process, submitted, counts, today>>
       ELSE Begin(r)
  /\ UNCHANGED <<cloudMode, kind, route, bytes, license, frames, day>>

Limit(r) == IF route[r] = "register" THEN 1 ELSE MaxPayload

(***************************************************************************)
(* A "data" event of the body.  Over the limit the answer is 413 and the   *)
(* socket is destroyed; the rest of what had been read of the socket still *)
(* comes, as one more "data" event for every chunk.                        *)
(***************************************************************************)
Data(r) ==
  /\ stage[r] = "body" /\ bytes[r] < kind[r].chunks
  /\ bytes' = [bytes EXCEPT ![r] = @ + 1]
  /\ IF bytes[r] + 1 > Limit(r)
       THEN /\ WriteHead(r, 413)
            /\ socket' = [socket EXCEPT ![r] = "gone"]
       ELSE UNCHANGED <<head, socket, process>>
  /\ UNCHANGED <<cloudMode, kind, route, stage, license, submitted, frames, svars>>

(* Mutant: the "end" of a body over the limit is handled too. *)
EndAnyway(r) ==
  /\ stage[r] = "body" /\ bytes[r] = kind[r].chunks
  /\ Begin(r)
  /\ UNCHANGED <<cloudMode, kind, route, bytes, license, frames, day>>

(* The "end" event of the body. *)
End(r) ==
  /\ stage[r] = "body" /\ bytes[r] = kind[r].chunks
  /\ IF bytes[r] > Limit(r)
       THEN /\ stage' = [stage EXCEPT ![r] = "done"]
            /\ UNCHANGED <<head, socket, process, submitted, counts, today>>
       ELSE Begin(r)
  /\ UNCHANGED <<cloudMode, kind, route, bytes, license, frames, day>>

(* License.getByRequest is resolved. *)
LicenseFound(r) ==
  /\ stage[r] = "license"
  /\ \E lic \in Licenses : Handle(r, lic) /\ license' = [license EXCEPT ![r] = lic]
  /\ UNCHANGED <<cloudMode, kind, route, bytes, frames, day>>

(* send: the storage, the adapter or the license server has answered. *)
Answered(r) ==
  /\ stage[r] = "reply"
  /\ WriteHead(r, 200)
  /\ stage' = [stage EXCEPT ![r] = "done"]
  /\ UNCHANGED <<cloudMode, kind, route, bytes, socket, license, submitted, frames, svars>>

(* Mutant: the timer is set when an answer is waited for. *)
TimeoutOfReplies(r) ==
  /\ stage[r] = "reply" /\ socket[r] = "open"
  /\ socket' = [socket EXCEPT ![r] = "gone"]
  /\ UNCHANGED <<cloudMode, kind, route, stage, bytes, head, license, process, submitted, frames, svars>>

(* response.setTimeout: Node destroys a socket that was idle for 20 s. *)
Timeout(r) ==
  /\ stage[r] \in {"reply", "failed"} /\ socket[r] = "open"
  /\ socket' = [socket EXCEPT ![r] = "gone"]
  /\ UNCHANGED <<cloudMode, kind, route, stage, bytes, head, license, process, submitted, frames, svars>>

(***************************************************************************)
(* handleMessage of a websocket of the binary form.  ws hands out what     *)
(* still comes on a websocket that is closing.                             *)
(***************************************************************************)
Frame(r) ==
  /\ stage[r] = "websocket" /\ socket[r] # "gone" /\ kind[r].binary
  /\ frames < MaxFrames /\ frames' = frames + 1
  /\ \E body \in Frames :
       LET channels == ParseChannels(kind[r].channels, TRUE, license[r])
           o == ProcessClientRequest(r, body, PubChannelId(channels), FALSE, license[r])
       IN /\ socket' = [socket EXCEPT ![r] = IF o.code = 0 THEN @ ELSE "closing"]
          /\ submitted' = submitted \o o.publish
          /\ CountedBy(o)
  /\ UNCHANGED <<cloudMode, kind, route, stage, bytes, head, license, process, day>>

(***************************************************************************)
(* The client goes away.  A request whose body is incomplete never ends; a *)
(* poll or a websocket hears of it.  The socket of an upgrade has no       *)
(* "error" listener before it is a websocket: a reset ends the process.    *)
(***************************************************************************)
ClientLeaves(r) ==
  /\ stage[r] # "new" /\ socket[r] # "gone"
  /\ socket' = [socket EXCEPT ![r] = "gone"]
  /\ stage' = [stage EXCEPT ![r] =
       IF @ \in {"arrived", "body", "poll", "websocket"} THEN "done" ELSE @]
  /\ IF stage[r] \in {"license", "rejected"} /\ kind[r].via = "upgrade"
       THEN process' \in {process, "exiting"}
       ELSE UNCHANGED process
  /\ UNCHANGED <<cloudMode, kind, route, bytes, head, license, submitted, frames, svars>>

(* A report reads the counters: setServerStats or GET of the stat route. *)
Report ==
  /\ counts.day < day
  /\ Increment(0, 0)
  /\ UNCHANGED <<cloudMode, rvars, process, submitted, frames, day>>

Midnight ==
  /\ day < MaxDay /\ day' = day + 1
  /\ today' = [requests |-> 0, messages |-> 0]
  /\ UNCHANGED <<cloudMode, rvars, process, submitted, frames, counts>>

Exit ==
  /\ process = "exiting" /\ process' = "exited"
  /\ UNCHANGED <<cloudMode, rvars, submitted, frames, svars>>

Step(r) ==
  \/ Arrive(r) \/ Process(r) \/ Data(r) \/ End(r)
  \/ LicenseFound(r) \/ Answered(r) \/ Timeout(r)
  \/ Frame(r) \/ ClientLeaves(r)

Next ==
  \/ process # "exited" /\ \E r \in Req : Step(r)
  \/ process # "exited" /\ (Report \/ Midnight)
  \/ Exit

(***************************************************************************)
(* Events that are due are handled, the license lookup ends (MySQL answers *)
(* or fails), the 20 s timer fires, and the log ends the process within    *)
(* three seconds of an uncaught exception.  Nothing is asked of the        *)
(* storage, the license server or the client.                              *)
(***************************************************************************)
Fairness ==
  /\ \A r \in Req : /\ WF_vars(process # "exited" /\ Process(r))
                    /\ WF_vars(process # "exited" /\ LicenseFound(r))
                    /\ WF_vars(process # "exited" /\ Timeout(r))
  /\ WF_vars(Exit)

Spec == Init /\ [][Next]_vars /\ Fairness

-----------------------------------------------------------------------------
(* A message for the storage; the receivers of the text form have no key.  *)
Mails ==
  [from : Req, sender : [type : {"backend", "client"}, id : STRING \cup {NoId}],
   receivers : Seq([id : STRING, private : BOOLEAN]) \cup Seq(Receiver)]

(* Every variable has its type; the statuses are those of the service. *)
TypeOK ==
  /\ cloudMode \in BOOLEAN /\ Routes.ok
  /\ \A r \in Req :
       /\ kind[r] \in Kinds[r] \cup {NoKind}
       /\ stage[r] \in {"new", "arrived", "body", "license", "reply", "failed",
                       "rejected", "poll", "websocket", "done"}
       /\ bytes[r] \in Nat
       /\ head[r] \in {0, 200, 400, 404, 413}
       /\ socket[r] \in {"open", "closing", "gone"}
       /\ license[r] \in Licenses
  /\ process \in {"running", "exiting", "exited"}
  /\ submitted \in Seq(Mails)
  /\ frames \in 0..MaxFrames /\ day \in 0..MaxDay
  /\ counts.day \in 0..day

(***************************************************************************)
(* What reaches the storage was allowed to.  A message of the portal came  *)
(* by POST on the pub route, in the cloud with a license and a signature   *)
(* made with its key; a message of a client names as its sender a public   *)
(* id that the key of the client's portal signed for its own channel, and  *)
(* goes to public channels signed with that key, within the limits.        *)
(***************************************************************************)
Allowed(m) ==
  LET k == kind[m.from]
      lic == license[m.from]
  IN IF m.sender = Backend
       THEN /\ k.method = "POST" /\ IsPrefix(Server.pub, k.path)
            /\ cloudMode => lic # "none" /\ SignatureIsValid(k.signature, lic)
       ELSE /\ cloudMode => lic # "none"
            /\ \E part \in ToSet(k.channels) :
                 part.public = m.sender.id /\ SignatureIsValid(part.key, lic)
            /\ Len(m.receivers) \in 1..MaxChannels
            /\ \A channel \in ToSet(m.receivers) :
                 ~channel.private /\ SignatureIsValid(channel.key, lic)

PublishedIsAllowed == \A m \in ToSet(submitted) : Allowed(m)

(***************************************************************************)
(* The answer of an HTTP request tells the fate of its messages: refused,  *)
(* none of them was given to the storage; accepted, all were, together and *)
(* in their order, and no others - but for the text form, which is         *)
(* answered 200 before anything is known.                                  *)
(***************************************************************************)
Sent(r) == {i \in DOMAIN submitted : submitted[i].from = r}

AllSent(r, messages) ==
  \E n \in 0..(Len(submitted) - Len(messages)) :
    /\ Sent(r) = (n + 1)..(n + Len(messages))
    /\ \A i \in DOMAIN messages : submitted[n + i].receivers = messages[i]

AnswerTellsTheFate ==
  \A r \in Req : kind[r].via = "http" /\ head[r] # 0 /\ stage[r] # "body" =>
    /\ head[r] # 200 => Sent(r) = {}
    /\ head[r] = 200 /\ route[r] \in {"publish", "rest"} =>
         \/ route[r] = "publish" /\ ~kind[r].binary
         \/ kind[r].body.command # "incomingMessages"
         \/ AllSent(r, kind[r].body.messages)

(***************************************************************************)
(* The process ends by one of four kinds of requests only: a body that is  *)
(* read on after its 413; an upgrade of the cloud mode whose socket was    *)
(* reset before it was a websocket; signed statistics without CHANNEL_ID;  *)
(* a URL or Host that does not parse, in the cloud mode or in a            *)
(* registration.  In particular no request is answered twice otherwise,    *)
(* however late its license or its storage answers.                        *)
(***************************************************************************)
CrashNeedsCause ==
  process # "running" => \E r \in Req :
    \/ bytes[r] > Limit(r) + 1
    \/ kind[r].via = "upgrade" /\ cloudMode /\ socket[r] = "gone"
    \/ stage[r] = "failed" /\ (HashesNull(r) \/ RegistersNoHost(r))
    \/ stage[r] = "rejected" /\ cloudMode /\ Malformed(r)

(***************************************************************************)
(* A poll is handed to the adapter with its socket open, so that the close *)
(* of the socket will remove it - but in the cloud, where the client may   *)
(* leave while its license is looked up.                                   *)
(***************************************************************************)
GhostPollNeedsCloud ==
  \A r \in Req : stage[r] = "poll" /\ socket[r] = "gone" => cloudMode

(***************************************************************************)
(* Whenever the daily statistics are read they count what was done since   *)
(* midnight, although nothing runs at midnight.                            *)
(***************************************************************************)
ReportedIsToday ==
  LET c == TryResetCounters(counts)
  IN c.requests = today.requests /\ c.messages = today.messages

(***************************************************************************)
(* No request hangs once its handler has what it needs: it is answered,    *)
(* handed over, or its socket is destroyed, though the storage or the      *)
(* license server may never answer and a handler may throw - unless the    *)
(* process exits, or survives the rejection of an asynchronous handler of  *)
(* the cloud mode, which had not set the timer yet when a URL or Host did  *)
(* not parse.                                                              *)
(***************************************************************************)
MayHang(r) ==
  /\ stage[r] = "rejected" /\ cloudMode /\ Malformed(r)
  /\ route[r] \in {"upgrade", "publish", "channelStats", "rest"}

RequestEnds ==
  \A r \in Req : stage[r] \in {"license", "reply", "failed", "rejected"} ~>
    \/ head[r] # 0 \/ socket[r] = "gone"
    \/ stage[r] \in {"poll", "websocket"} \/ process = "exited"
    \/ MayHang(r)
=============================================================================
