# Verification of the push server

This directory holds TLA+ models of the push server, the TLC configurations that check them on small
instances, and proofs checked by TLAPS. The server accepts long polls and websockets that subscribe to
channels, accepts messages for channels over HTTP (or over a websocket), keeps them for a while in Redis, and
hands them to the subscribers. Paths below are relative to `src/`.

## 1. The system

| component | state it keeps | operations | talks to |
|---|---|---|---|
| `lib/adapters/adapter.js`, `lib/channel.js`: connection registry | `connections` (private id → Set of connections in insertion order), `pubChannels` (public id → private id) | `add` (with eviction), `delete`, `broadcast`, getters for statistics | calls `close` and `send` of transports; listens to their `close` event; counts in `Statistics` |
| `lib/transports/websocket.js` | `active`, `responseBatch`, `cacheTimeoutId`, ping interval | `send`, `sendBuffer`, `ping`, `handlePong`, `close`, `handleClose` | the `ws` socket |
| `lib/transports/polling.js` | `active`, the HTTP response and its 40 s timer | `send`, `close`, `handleTimeout`, `finalize` | the HTTP response, the storage |
| `lib/transports/httprequest.js` | one response | `send`, `close` | the HTTP response |
| `lib/transports/connection.js` | parsed channels, receivers, `mid` | parsing of channel ids and signatures; conversion of responses to the client's protocol | `Signature`, `License` |
| `lib/application.js` | – | `subscribePolling`, `subscribeWebsocket`, `addToAdapter`, `publish`, `processClientRequest`, `register`, `unregister` | all of the others |
| `lib/storages/redis.js` | `startDate`; in Redis: message bodies, a sorted set of ids per channel, a counter | `set`, `get`, `getLastMessage`, channel TTLs | Redis, one pipelined connection per process |
| `lib/adapters/cluster.js` | presence and statistics keys in Redis, remote statistics | relay of broadcasts over pub/sub, presence, statistics | Redis pub/sub, `Adapter` |
| `lib/license.js` | cache of licenses, list of licenses to sync | `get`, `register`, `unregister`, `save`, `sync`, notification between workers | MySQL, IPC |
| `lib/storages/mysql.js` | `dbConnection` | `getDatabase` | MySQL |
| `lib/statistics.js` | counters | increment, decrement, daily reset | – |
| `lib/routing.js`, `router.js`, `signature.js` | – | matching of paths, signatures, request bodies | `Application` |
| `server.js`, `cluster.js`, `config/index.js` | settings, sockets | start of processes, merge of settings, upgrade of websockets | `Routing`, `Application` |
| `lib/debug/index.js` | log files | logging; an uncaught exception is logged and ends the process | – |

Everything in one process runs on one event loop: a callback runs to completion. What makes the behaviour hard is
what happens *between* callbacks. Reading missed messages is asynchronous, and a connection may have been
answered, have timed out or have been closed when they arrive; publishing takes up to four round trips to Redis,
interleaved with those of other messages, of subscribers and of other processes; the registry's own loops call
`close`, which emits `close` *synchronously* for a poll and so re-enters the registry in the middle of a loop;
timers (400 ms batches, pings every two minutes, polls of 40 s) race with all of this.

What makes the components correct:

* **Registry** – a connection is in all its channels or none; whoever is registered can still be answered; an open
  subscriber is registered and a closed one is not; public ids resolve while they are needed and do not leak;
  counters count; a channel keeps to its limit and drops its oldest.
* **Transports** – what a client is sent is a subsequence, in order, of what was offered; nothing waits for ever;
  a dead peer is found; a poll is answered once, and ends.
* **Delivery** – ids only grow at a client, over replays and broadcasts; nothing that is stored is skipped; what was
  saved arrives.
* **License** – after a change no process serves the old license for long; the table and the caches agree.
* **Presence and statistics** – a channel is online exactly while a connection is registered somewhere, up to the TTL.

## 2. Modules

```
LoopTheorems                     facts about loops as functions of the round, for the proofs
ChannelDirectory                 abstract: a directory with all-or-nothing entries
Adapter  <- MCAdapter            the registry with its handlers; implements ChannelDirectory
Adapter  <- AdapterProofs                                                        (proofs)
LossyFifo                        abstract: in order, at most once
WebSocketTransport               one websocket; implements LossyFifo
PollingTransport                 the polls of a process and their timer
WebSocketTransport, PollingTransport <- TransportProofs                          (proofs)
Delivery <- MCDelivery           publish -> Redis -> broadcast and replay, one or more processes
Delivery <- DeliveryProofs                                                       (proofs)
Conversion <- MCConversion       the time that subscribers read in a message, in text and binary form
Conversion <- ConversionProofs                                                   (proofs)
Cluster <- MCCluster             presence and statistics of the cluster's processes, on a clock
Cluster <- ClusterProofs                                                         (proofs)
Router <- Requests <- MCRequests requests and frames: route, body, license, signature, command, answer
Requests <- RequestsProofs                                                       (proofs)
License                          the license of a client: table, caches, notifications, connection to MySQL
License <- LicenseProofs                                                         (proofs)
```

### Adapter

One action per callback: `Subscribe` (the request handlers and `addToAdapter`), `Loaded` and `LoadFailed` (the
callback of `storage.get`), `Broadcast` (a message to a list of receivers), `PollTimeout`, `Ping`, `Pong`,
`PeerCloses`, `SocketClosed`. A handler goes through many steps within one callback, so that it is written as an
operator from a state record to the state it leaves (`Add`, `Delete`, `Close`, `Send`, `SendTo` …); `Becomes` makes it
the next state. The loops (`AddChannels` over the newcomer's channels, `MakeRoom` over the members that are evicted,
`SendAll` over the members of a channel) are recursive functions of the number of rounds.

A `Set` of connections is a sequence without duplicates, `<<>>` for a missing map entry: the insertion order decides
who is evicted, and `Set.add` of a member leaves it in its place. `add` keeps a reference to the Set while it evicts;
when the eviction empties the Set, `delete` takes it out of the map and the newcomer goes to a Set nobody can reach:
`Join` adds it to the registry only if the map still has the Set `add` saw. The
socket's state is that of the library: `open`, `closing` (a close frame was sent or received, or the response ended),
`terminated`, `closed` (the `close` event was emitted). A poll emits `close` itself, synchronously; a websocket does
when its socket is gone.

`EvictsTheOldest` says of every step that puts a newcomer into a channel: who lost its place for it was in a channel that had reached its
limit, and was among the oldest of it; whoever stays keeps its place in the order of the others.

`MaxReceivers` bounds the receivers of one message.

### ChannelDirectory, LossyFifo

What the registry and the websocket promise, without Sets, public ids, sockets or timers. `DirectorySpec` maps the
members of a channel to `ToSet(connections[p])`, and the connections that may never come back to those that were added
and are not registered. `FifoSpec` takes `offered` and `delivered` as they are.

### WebSocketTransport

The buffer that collects responses for 400 ms after one was sent, the ping interval, and a peer that can vanish.
Pings go on until the `close` event, which is why a closing handshake nobody answers ends.

### PollingTransport

The ways to answer a poll, and the two lookups that can come back too late. An eviction closes it with 4029, which `getHttpStatus` makes 429. A second answer throws out of a callback
of the Redis client; the log ends the process within three seconds, in which it goes on to serve (`process`:
`running`, `exiting`, `exited`).

### Delivery

Redis executes the commands of a connection in order, and answers in order; `MULTI … EXEC` is one command. `pipe[p]`
is the list of commands of process `p` that are not answered yet, a prefix of which is executed (`Execute`). Each
reply has its action (`IncrReplied`, `StartDateReplied`, `Saved`, `TTLReplied`, `ExpireReplied`, `RangeReplied`,
`MessagesReplied`), which runs the callback. The broadcast of a saved message and the result of a replay are put
off with `process.nextTick`, which runs after the replies that arrived together were handled: hence `ticks[p]`, and
other events wait for it. A message id is the startdate followed by the value of the counter, and ids are compared
byte by byte: the counter's value stands for the id. A client always has a message id; `0` stands for one older than
all the messages of the model. `Receive` takes the response of a poll at once (the client then has the last id of it)
and the responses of a websocket one by one. A websocket that was sent a response batches the next ones for 400 ms (`timer`; `batch` counts how many at the
end of the `inbox` are still in the process), and between a ping and its pong (`active`) it drops what is sent directly or flushed then; a ping
without a pong ends it. `Connect` is a new poll, or a websocket that reconnects.
A message with expiry 0 is not in `Stored`: it is broadcast without being saved, and may overtake. The loops over a reply (`Kept`, the
filters, and `Sorted`, which counts instead of comparing) are recursive functions of the round.

`MaxFaults` bounds the connections, to Redis or to a client, that break. What was published to a subscription that breaks is lost (`RelayLost`). When a connection to Redis breaks, its
requests fail whether or not they were executed. A message may then have been saved and not be broadcast, so that a later one can pass it: `NothingSkipped`
and `SavedIsDelivered` hold until then (`losses = 0`), `Ascending` and `TypeOK` always. A break between `EXEC` and `EXPIRE` leaves a channel key without a
TTL, with nobody at it: `ChannelsGetTTL` says that nothing else does. The next publish to the channel asks for the TTL again.

### License

One client of the cloud mode, one license server and some processes. The state is the client's `row` in MySQL, and in each
process the `cache`, the mark that a check is in progress (`syncLicenses`), the MySQL connection (`db`) with the
queries not yet answered (`queue`; the query of the job that opens the connection waits in `opener`), the jobs that wait for the
license server (`asking`, how many), and the notifications that other processes sent (`notices`), which Redis pub/sub may lose (`NoticeLost`). A job is a lookup, a register
or unregister command, or a check; each of its callbacks is an action: `Selected` (`get`), `Removed` (`unregister`), `Checked`
(`sync`), `Saved` and `Reread` (`save`), `Failed` (every query's error path), `Verified` and `Refused` (the answer of the
license server). MySQL executes one query of a connection at a time; `INSERT … ON DUPLICATE KEY UPDATE` leaves the key of an existing row alone.

When a connection breaks under a query, the query fails and nothing else happens: the `mysql` client emits `error` only if no query
waits with a callback, so that `dbConnection` keeps the dead connection (`db = "dead"`), and every later query fails.

A row is its key and a version that stands for the other columns; each `insert` brings a new key and version. A license's expiry
and the day since its last check are not timed: a check may start whenever a row was ever written, and may find that the license was
checked today. `told`, `answer`, `troubled`, `excused` and `deleted` are history: what commands answered, and for which of the three known
reasons a cache is outdated. `troubled` spans register commands that overlap in a process: it is reset when one starts and no other is under way. An exception in the handler of a notification ends the process at once. `MaxStarts` bounds the commands
and checks, `MaxLookups` the queries before a lookup, `MaxFaults` the connections to MySQL that break.

### Router, Requests

The requests of one process, from the `request` or `upgrade` event on. A request is a record that never changes (`kind`: method,
path, channels of `CHANNEL_ID`, signature, number of chunks of the body, decoded body); what becomes of it is its `stage` (what it
waits for: the `body`, the `license` lookup, a `reply` of the storage, the adapter or the license server, or the socket's timer after its
handler threw, `failed`; nothing at all, if it threw before the timer was set, `rejected`), the status written (`head`) and its `socket`. `Router` holds the table of routes: the first route of the
method whose path the URL starts with. `Process`, `Data`, `End`, `LicenseFound`, `Answered`, `Timeout` and `Frame` are the callbacks, and a
handler that has all it waits for is an operator that gives an outcome: the code of `close`, the messages given to the storage, whether a
reply follows, whether the command was counted (`ProcessPublishRequest`, `ProcessRestRequest`, `ProcessClientRequest`, …).

A signature is the name of the key that made it: it is valid if that is the key of the server, or of the license of a client's
portal (`KeyOf`). A path is a sequence of pieces. A body or a frame is given as protobufjs or the parser of the text form leaves it: any
sequence of messages with any receivers (`Channel`, `Receiver`, `Decoded`), and the checks of the source decide what comes of it. The text form's
channels are collected by the loop of the code, one round per channel of `CHANNEL_ID` (`Routes`: a channel not yet given, or given with another
public id). An upgraded websocket then sends any frames (`Frame`), also while it is closing, as
the `ws` library goes on to deliver what comes.

Handlers throw in three places. `GET` of the statistics without `CHANNEL_ID` in the cloud mode signs `null` (`HashesNull`); `new URL` refuses a URL or
Host that does not parse (`Malformed`) in `License.getByRequest` (`Reject`, before there is a timer) and in a registration (`RegistersNoHost`). Out of the
listener of a body's end or of a request (a registration, a poll) such an exception ends the process; in an async handler it rejects a promise, and
whether that ends the process depends on the version of Node, and is left open (`Uncaught`).

The daily counters are `counts`, with the day they are for, and `today` is what they should say: nothing runs at `Midnight`, and
whoever uses the counters next resets them.

`MaxFrames` and `MaxDay` bound the frames and the midnights.

### Cluster

Time is a `Tick` for all processes. A process that runs does in a tick all that is due in it (`SetServerStats`, `Ping`, the callback of
`HGETALL` in `StatsReplied`, a pong that is late by `Rtt`), in any order with the others; one whose event loop is blocked
(`Stall`, `Resume`) does nothing, and may have become blocked while it awaited a reply, which then waits with the rest. Redis executes commands where they are sent, which is a moment in which their sender could have sent them;
only the reply of `HGETALL`, whose entries the reader judges by its own clock when it handles it, is a step of its own.
`calm` counts the ticks since a process was blocked for longer than `MaxLate`, or a command failed: what the properties say of live
processes holds after two rounds of a report and a reply, all late (`StatCalm`: a late reply may undo the first report after the
disturbance), and of connected clients after a ping and its pong (`OnlineCalm`). `seen` and `dead` are history. A process that ends stays
dead, as the master forks no other.

`MaxStall`, `MaxStalls` and `MaxFaults` bound the stalls and the failed commands.

### Conversion

A message is one object for all its subscribers in a process: `created[p][m]` is its field `created`, in seconds. A text subscriber's
`Convert` overwrites the field with the present time in milliseconds, and whoever is served later from that object reads it, after
the encoding has cut it to a fixed32 (`Reading`, `Fixed32`): the websockets that come later in the Set, the batches of the next 400 ms, and the
other processes, as `ClusterAdapter.broadcast` serves the local connections before it encodes the relay. The stored copy was encoded before, and
`getMessages` decodes objects of its own (`Replay`).

The loop of `Adapter.broadcast` over a Set is written by what it leaves, as the order matters for one thing only: a connection reads the converted field
if a text connection that is written to comes earlier in the Set (`ConvertedBefore`; `earlier[s]` is the part of the Set before `s`). So are the
loops over a batch, whose messages are a set. `got` is what the binary subscribers read in the last step, with the object they
read it from: `"fresh"`, `"converted"` (in the process or where the message was published) or `"stored"`. `Start` and `MaxNow` bound the clock.

## 3. Runs

| run | question | bounds |
|---|---|---|
| `adapter_uniform` | is nobody lost or left behind, do the oldest make room, and does the registry implement `ChannelDirectory`? | 3 websockets, 2 polls, 2 channels, limit 2, one receiver per message |
| `adapter_mixed` | what still holds when subscribers list a channel in different forms, twice, or none, in the cloud mode? | 2 websockets, 2 polls, two receivers |
| `websocket` | order (`LossyFifo`), only deaf peers are terminated, connections end | 4 responses |
| `websocket_loss` | *violation*: a response is dropped while a ping is on its way | 2 responses |
| `polling` | can a registered poll be answered, does a poll end, and who is answered twice? | 3 polls, one with a message id |
| `delivery_polling` | in order, once, nothing skipped but what a full replay leaves out, what was saved arrives, and a channel key is forgotten without TTL only by a break of Redis | 1 process, 3 messages to 2 channels, replays of 2, one connection, to Redis or to the client, that breaks |
| `delivery_connected` | does a websocket without an open ping get what any process publishes? | 2 processes, one stored message to 2 channels of a websocket, start date unknown, keys expire at any time, one connection (Redis, pub/sub or the websocket) that breaks |
| `delivery_cluster` | *violation*: a polling client skips a message | 2 processes and 2 messages |
| `license` | one key per client, stale caches only for known reasons, no process stops without a reason, a query fails only for a lost connection, checks end | 2 processes, 2 commands or checks in either, one lookup, one connection to MySQL that breaks, any notification lost |
| `requests` | is what reaches the storage allowed, does the answer tell its fate, what ends the process, does every request end? | any of 136 requests beside one of three others, in and out of the cloud; 2 chunks, 2 messages, 2 channels, 2 frames, 1 midnight |
| `cluster` | are live processes listed and dead ones forgotten, and is a channel online while, and not long after, a client is there? | 2 processes with a websocket each, and polls; one stall of up to 2 ticks, one failed command, any crashes |
| `conversion` | who may read a wrong time of publication? | 2 processes with 4 subscribers and one that publishes only; 2 messages, one stored; 4 ms to a second, a word of 2 bits |

Why the bounds are enough. The defects of the registry need a channel that is full (limit 2, three subscribers), a
newcomer that evicts in two channels at once and a member of both (two channels listed in both orders), and both kinds
of transports; five subscribers have all of these. A batch needs one response that was sent and two that
wait; four responses allow two batches. To skip a message takes one that is skipped and one that is delivered after it; the third message lets a
client start from a replay. The limits of a replay (100 and 200 in the code) are 2, so that three messages overrun them. Two commands or checks in two processes,
with a lookup between them, are enough for a lookup to race a change in another process and for a removal to race a registration.

Requests share only the process, its counters and the storage, so that two at a time are enough for a crash or a midnight under one by another; the
first is any of the combinations of route, body, channels and keys in `MCRequests` (`Posts`, `Gets`, `Controls`, `Upgrades`, and `Malformeds` for a URL that does
not parse, on every route), the second a publish, a
report or an oversized body. Bodies have up to four chunks over limits of one and two, so that a body is within the limit, over it, and read on
after its 413. In `cluster` the intervals keep the order that the defaults have: a pong takes at most one tick of a ping interval of two,
an entry counts for three ticks and is renewed after each (60 s and 70 s in the code), a key lives six and is renewed every two or three (130 s in the code, `onlineTTL` and `onlineDelta`, renewed every 120 s or so: in both it outlives a ping interval
by more than a pong and two delays take, `ClusterAssumption`),
and a stall of two ticks is longer than the delay of a tick that a process may always have. In `conversion` the clock crosses a second and the word is
smaller than the milliseconds, so that a time in milliseconds read as seconds is told apart, as it is in the code.

`CHECK_DEADLOCK FALSE` is set where the instance ends: every connection is used once, every message was published,
every command was started, or every request is done.

### What the violations show

Each of these runs checks one property that a test of the repository states, and TLC finds a behaviour of the code
that breaks it:

* **`websocket_loss`** – a healthy websocket loses what is published during the round trip of a ping.
* **`delivery_cluster`** – ids are drawn before messages are saved; a later id may be delivered first by another
  process, and the client never asks for the earlier one.

### What the passing runs name

A property that holds but for named causes says that there are no others. These are the causes, each a behaviour of the code that TLC reaches
when the exception is taken out of the property:

* `CrashNeedsLateReply`: a poll that times out looks up the last message id, and a broadcast answers it meanwhile; or it has timed out when
  `storage.get` fails. The second head throws and the process ends.
* `CrashNeedsCause`: the four kinds of requests that end a process – a body that is read on after its 413; in the cloud, an upgrade whose socket is reset
  before it is a websocket, and signed statistics without `CHANNEL_ID`; a URL or Host that does not parse, in the cloud or in a registration.
* `RequestEnds`: in the cloud, where a process survives the rejection of a promise, a publish, rest or statistics request or an upgrade whose URL
  does not parse is neither answered nor destroyed: `getByRequest` throws before `HttpRequest` sets its timer (`MayHang`).
* `ChannelsGetTTL`: the connection to Redis breaks after `EXEC` and before `EXPIRE` was executed.
* `ConnectedGetsAll`: a ping that is open when a message is sent, or when the batch is flushed, drops it; so does a broken subscription to Redis.
* `GhostPollNeedsCloud`: in the cloud mode a poll whose client left during the license lookup is registered with nobody behind it.
* `AnswerTellsTheFate`: the text form of a publish is answered 200 whether or not it has receivers or a body.
* `OutdatedNeedsReason`: `unregister` caches the license it deletes, and a lookup that began before a change caches its result
  after the notification, or the notification is lost; the process then serves it for up to a day.
* `ErrorNeedsLostConnection`: a connection to MySQL that breaks under a query is kept (the error goes to the query, and no `error` event
  follows), so that every later query of the process fails.
* `LiveProcessListed`: a reader that was blocked between the reply of Redis and its callback takes fresh entries for old ones
  and deletes those of healthy processes, until their next reports.
* `OnlineWhileConnected`: a `setOnline` that failed is not tried again before the next pong. The key is set for the first channel
  of a connection only and never deleted, so that a channel stays online for up to `OnlineTTL + OnlineDelta` after its last client.
* `WrongTimeNeedsText`: the shared object, as described under Conversion.

More limits are noted with the hazards they belong to, and are reached by other values of the constants rather than by runs of
their own. With `maxConnPerChannel = 1`, eviction empties the Set that `add` still holds, and every second subscriber
stays open but is in no channel (`OpenSubscriberIsRegistered`). While a process does not know the start date (`Warm = FALSE`),
its first publishes wait for it and later ones do not, and so overtake (`NothingSkipped`). With messages that expire (`Expiring = TRUE`) the
ids of expired messages cost a replay a second round trip whose result is empty; what is published in the meantime is missed, and passed
over with the next message (`NothingSkipped`). A websocket does not ask again as a poll does, and misses what
is saved and broadcast between the read of its missed messages and `adapter.add`: `ConnectedGetsAll` therefore begins when it is registered.

### Fairness

* `WebSocketTransport`: the timer of the batch and the ping interval fire (`SendBuffer`, `Ping`), and a destroyed
  socket emits `close`. Nothing is assumed of the peer, nor of a handshake.
* `PollingTransport`: the 40 s timer fires and Redis answers `getLastMessage` (or fails it). `storage.get` need not
  be answered: the timer ends a poll with a message id without it.
* `Delivery`: Redis and the event loops make progress, the network delivers, the timers of a poll and of a batch fire, and a client
  without connection tries again, as the client library does. Nobody has to publish, nor to answer a ping; nothing has to break or to expire.
* `License`: MySQL executes queries, a connection opens or breaks, and the event loop handles replies. Nobody has to start
  anything, and nothing is assumed of the license server: a check is over before it is asked.
* `Requests`: events that came are handled, the license lookup ends (which `License` shows for MySQL that answers), the 20 s timer fires, and the log ends the process after an
  uncaught exception. The storage, the license server and the client need never answer.
* `Adapter`, `Cluster`, `Conversion`: only safety, no fairness. What must happen in time is said with the clock in `Cluster`: a tick waits
  for what is due.

## 4. Proofs

The theorems hold for any numbers of connections, channels, receivers, responses, polls, processes and requests, any limit, and any
intervals that satisfy the named assumptions of the modules: `ClusterAssumption` orders the intervals as the defaults are; `RequestsAssumption` says
what a decoded body is made of, and nothing of its contents; `LicenseAssumption` that a missing license is no license. Hypotheses of
single theorems are stated with them: `LimitAboveOne` (`maxConnPerChannel`, 100 by default, is not 1), `PublicIdsAreUnambiguous`
(public and private id are signed together), `NoRepeats` (a subscriber does not list a channel twice) and `Sequential` (a single process that knows the start
date, with every message stored and reaching a client over one channel).

**`AdapterProofs`** proves `TypeOK` in its first part. The loops are recursive functions, so that each has a lemma that gives its rounds as
a function from `0..n` to states (`…Rounds`, from `LoopExists` of `LoopTheorems`: such a function exists and is the one the
definition names), and a property of the result follows by induction over the rounds (`UpToInduction`, which is about
a set of numbers and needs no operator argument).

In its second part it proves `AllOrNothing`, `OpenSubscriberIsRegistered` (under `LimitAboveOne`), `RegisteredPollIsUnanswered`, `NoGhost`,
`PublicIdResolves` (under `PublicIdsAreUnambiguous`) and `NoSilentRemoval`.
None of these is inductive. `Inv(s, X)` is a conjunction of named parts over a state `s`, where `X` is the set of connections
that are exempt because a handler is just working on them: the newcomer in `add` is in some of its channels only, and a
member that is being evicted is still in the registry while its transport is closing. Each operator has one lemma
that says what it keeps of `Inv`, and with which exemption it returns: `DeleteInv`, `CloseInv` (with the re-entrant
`delete` of a poll), `MakeRoomInv` (the loop of the evictions, during which the newcomer stays exempt), `JoinMembers` (the Set
in the map is still the one `add` saw, unless the limit is one),
`AddChannelInv`, `AddInv`, `SendToReceiversInv`. The actions then follow one by one, without an exemption (`NextInv`).
`NoSilentRemoval` is a property of steps and uses the invariant before the step.

Its third part goes on, under `LimitAboveOne` and `PublicIdsAreUnambiguous`, with `StatisticsCount`, `ChannelCapacity`, `NoLeakedPublicId`
and `EvictsTheOldest`. `Ledger(s, X)` says what the registry keeps about its channels, with the same exemptions `X`: `Capped` (a channel
everybody lists with its public id is within its limit), `Tight` (a public id leads to a channel that has members and that somebody lists under
it), `Tallied` (a counter is the size of the set of the connections that are registered, or that are exempt: the newcomer is
counted before its first channel). These are about who is registered, so `Ledger` is proved on top of `Inv`, and the loops are taken through
both at once: `AddChannelsKeeps`, `SendAllKeeps` and `SendToReceiversKeeps` say that a loop keeps what each of its rounds keeps. Every action is
then either an `Arrival` (who was there before stays or was among the oldest of a full channel) or a `Departure` (members
leave, whole, and the order of the others stays), which the refinement is about. `EvictsTheOldest` takes more of an arrival: only a channel that
has reached its limit gives up members, those are its oldest, and the order of the others is that of before (`KeepsTheOrder`), through every round of the loops.

`ImplementsDirectory` is the refinement of `ChannelDirectory`: a step of the registry is an `Enter` with what the newcomer displaced, a `Leave`, or
a stutter. It needs `NoRepeats` as well: a subscriber that lists a full channel twice is in it when the second round of the loop
begins, so that the round evicts a member of a channel which the directory finds already provided for. `adapter_mixed` has such a subscriber.

**`TransportProofs`** proves, of `WebSocketTransport`, `TypeOK`, `BatchHasTimer`, `OnlyDeafPeersAreTerminated` and that the specification implements
`LossyFifo`. The strengthened invariant, `BatchOrder`, orders everything that was accepted: what is written, then what is
waiting, ascending; and a batch never waits without its timer, so that a response sent directly cannot overtake.
An open connection is inactive only between a ping and its pong (`InactiveIsPinged`), so that the interval cannot terminate one that answered.
Of `PollingTransport` it proves `PollTypeOK` and `CrashNeedsLateReply`. The strengthening: an active poll is unanswered
(`ActiveIsPending`), so that missed messages do not answer twice, and a poll that was answered while it loads has timed out
(`AnsweredLoadTimedOut`), so that the failure of its load is late. `RespondKeeps` says what one `writeHead` does, and each handler then has one lemma.

**`ConversionProofs`** proves `TypeOK`, `WrongTimeNeedsText` and `ReplayTellsPublication`, for any processes, subscribers, messages and any clock whose seconds
fit in a word. The two properties are about what was read in the last step, so that they are not inductive: `ConversionInv` says what there is to be
read. A field is the second of the publication unless an object of the message was converted in its process or where it was published
(`ObjectsTellPublication`); the same is true of what is on its way to another process, which cannot have been converted there yet
(`RelayTellsPublication`); the stored copy is right, whatever was converted (`StoredTellsPublication`); and what waits in a batch or for `EXEC` has an object
(`WaitingHaveObjects`). `ObjectsAfter` is the one lemma about a field that is written, and `BroadcastKeeps` the one about who is served: a reader is told a
wrong time only if a text connection came before it, and that conversion is recorded.

**`ClusterProofs`** proves `TypeOK`, `NoGhostProcess`, `OnlineNeedsRecentClient`, `LiveProcessListed` and `OnlineWhileConnected`. The age of an entry, in the hash or in a reply, is at least
the time its process is dead (`EntriesAreOlder`), as nobody writes for another process. A pong under way was sent when a client
was there, and waits for a round trip, or for as long as its process is blocked: `PongsAreRecent` bounds the wait by `PongDelay`, and a process
that runs again handles the pong before the next tick.
The other two properties hold in time of calm, and the invariants behind them follow a disturbance as it is undone, by the length of the calm:
since the last report of a process there has been none, so its entry is as young as the report (`Reports`); one late report later no reader
can find an entry old, so none deletes it (`Replies` for what readers still hold, `Reports` for the hash); the next replies then have an entry for every
process. `Presence` does the same for the key of a connected client, from one pong to the next, and `ShortStalls` says that nobody is blocked for long
in a time of calm.

**`LicenseProofs`** proves all the invariants of `License`: `TypeOK`, `OneKey`, `OutdatedNeedsReason`, `StopNeedsRemovalOrFault` and
`ErrorNeedsLostConnection`. `LicenseInv` has a part for each idea. `Order`: the queue of a connection is answered from its head, so that at most its first
query has a result that was not handled. `Keys`: while the client is not unregistered, there is one key, in the row, the caches, the commands'
answers and in the replies under way – `ON DUPLICATE KEY UPDATE` leaves it, and the row that `save` reads again is the one that stayed.
`Rereads`: that row exists. `Losses`: a query fails only on a connection that broke, at a time that `troubled` covers for every register command under way. `Stops`: a notification says `nothing` only after a removal or a
fault. `Outdated` names what may excuse a stale cache: a change that is announced, or is still to be, or whose announcement was lost. Each part has a lemma per
callback, over the jobs that wait in a connection (`Pending`), and a step touches the queue of one process.

**`RequestsProofs`** proves `CrashNeedsCause`, `GhostPollNeedsCloud`, `ReportedIsToday`, `PublishedIsAllowed`, `AnswerTellsTheFate` and `TypeOK`, whatever requests
carry and whatever the routes are. A head is written once
(`OneHead`): after it a request is done, or is read on over its limit. The causes of an end are kept with the stages `failed` and `rejected`, which nothing leaves. `OneAnswer` says that no command is answered at once and by
a reply; `HandleKeeps` what any handler leaves of a request; `AloneInv` carries the invariant over a step of one request, so that each event
needs only its own part.
`ReportedIsToday` follows from `CountsOfToday`: counters of the present day are right, and older ones are reset before they are read.
What is published is proved in three steps. First the handlers, as functions of a request: each gives a refusal or a `Batch`, messages that passed
`ValidateMessages` with one sender (`ClientForm`, `IncomingForm`; `RoutesByRounds` is the loop that adds the routes, `PublishRoute` what it means for a match, and `FirstErrorIsOne` the choice
of the first wrong one). Then `Fair` says that an outcome gives to the storage only what its request may publish, and answers truthfully
(`OutcomeIsFair`). Last, the steps: `PublishInv` records for each request what it has sent, how far it is and what it was answered, while other
requests' messages come in between (`SendingInv`, `HandlingInv`; `QuietInv` for events that send nothing).
`TypeOK` rests on all of these: an outcome is `Typed` by the same forms (`OutcomeIsTyped`), so that the statuses of the answers are the four of the
service and what the storage is given has the form it expects, the text form's flattened receivers included (`FlattenType`). Its one hypothesis,
`DistinctPaths`, is about the configuration: two routes of a method with one path make `add` throw, and the server does not start.

**`DeliveryProofs`** proves `TypeOK` for any number of processes, `Ascending` under `Sequential`, and `NothingSkipped` if keys do not expire either; and,
with no hypothesis at all, `OnlyOwn`: a client gets only what is addressed to it. Each action is first put into one form
(`…Form`): some entries leave the head of a pipeline or of the deferred callbacks, some are added (`QueueStep`), and the clients' ends stay, or get a
broadcast (`Served`) or a replay (`Told`); `QueueMoves` then says where every entry of the next state comes from. `BaseInv` needs no hypothesis. An id is given once and the
counter is the number of ids given (`Numbering`, `Drawing`); Redis executes a prefix (`Pipelined`); a client whose missed messages are read is in one place of
one process (`Loading`), and what is on its way to a client needs an open connection (`Waiting`).

`OrderInv` is about one process. Ids grow from the deferred broadcasts, over what is being saved, to what was drawn and not sent on
(`Queued`), and the sorted sets have only smaller ids than what is not yet saved (`Held`); so a broadcast is the smallest of what is pending, and everything a
client has seen is smaller than what is pending (`Seen`). A replay brings ids above the client's, ascending, and below every broadcast that comes after it:
`Replays` follows them from Redis (`IdsRead`: what was saved in the pipeline before the read may still be broadcast, as the client is not registered then) over
the second round trip (`BodiesRead`) to the deferred callback (`ReplayPutOff`). That `Sorted` ascends needs an id to be in one set only, hence `Addressed`, which
leads an id back to its message. A message reaches a websocket's `inbox` at once, whether it was sent or waits in the batch, as the batch goes out whole or not
at all (`SendBuffer` cuts it off): what was dropped leaves a gap, never another order. `Sequential` has four parts, and TLC breaks `Ascending` when any of them is dropped: a second process broadcasts a later id first; while
the start date is asked for, a later message overtakes (a websocket sees it); a message that is not stored passes one that is being saved; and a message in two
channels of a client is read, or broadcast, twice.

`Complete` follows what a polling client misses (`Missing`: of its channels, later than its last id, and not superseded) on the same way. It is in the sets that
were read, or saved behind them in the pipeline (`ReadAll`); it is among the ids whose bodies are asked for, or later than all of them (`Covers`, in `AskedAll` and
`PutOffAll`); no answer under way passes it (`AnsweredAll`); and for a client that is registered it is still to be broadcast (`Announced`). `Covers` is where the
code could go wrong: a message that is saved after the read and broadcast during the second round trip reaches a poll neither way. It is not lost, as the poll
is then answered with older ids (`Covers` asks for at least one), is not registered, and comes back. For this the bodies must be there: with `Expiring = TRUE` TLC finds the poll
that is registered with nothing. TLC also breaks `NothingSkipped` without each of the four parts of `Sequential`. What a replay leaves out has
`RangeLimit` newer ids in one set, or `ReplayLimit` in the sorted list (`RangeIsComplete`, `LastOnesRest`), and sets without expiry only grow (`SupersededGrows`).

`OwnInv` follows the ids themselves. `Own(c)` are the ids of the messages with a channel of `c` among their receivers, and it only grows, since an id
that was given stays (`OwnGrows`). Every id in a set leads to a message to that channel (`Addressed`); so what Redis answers to a range
(`AnswerOwn`), what is left of it after `Sorted` and `LastOnes`, what is asked of MGET, put off and sent is in `Own` of the client that asked (`OwnQueues`), and a
broadcast, in its process or relayed to another, adds an id only where `Copies` is not 0 (`ServedOwn`).
`OnlyOwn` is not part of a run, as in the runs' instances nearly every message is addressed to every client; `OwnInv` was checked with TLC on an
instance with two processes and two clients on different channels before it was proved.

`TypeOK` of `Adapter`, `WebSocketTransport`, `Cluster`, `Conversion` and `Requests`, `NoSilentRemoval`, `BatchHasTimer` and `OnlyOwn` are proved and not listed in a run: the proofs
hold for the instances of the runs as for all others.

The proofs found errors of the models that the runs had not shown: a process of `Cluster` could not be blocked while it awaited a reply, and the calm that was
said to be enough for `LiveProcessListed` was one round too short; guards of a `CASE` in `Requests` overlapped for a websocket's frame without a public
id, which leaves the choice of the branch open where the code has an order; and `ImplementsDirectory` is false of a subscriber that lists a channel
twice.

Only model-checked: liveness under fairness, which is beyond the prover (`ConnectionEnds`, `PollEnds`, `SavedIsDelivered`, `ConnectedGetsAll`,
`CheckEnds` and `RequestEnds`), and the action property `ChannelsGetTTL`.

## 5. What is not modelled, and the plan

In this order:

1. **MessageRetention**: a clock, the expiry of messages and the TTL of channels, which counts from a channel's first message, so that a
   later message with a longer expiry loses its id before its body.
2. **License**, the rest: the requests that wait for one lookup together (`getByRequest`), the expiry of a license and of its trial, keys of
   other hosts, a license server that answers in the wrong order.
3. The limit of a channel in the cloud mode, where a connection without public id is counted in
   another channel.

Left out for good: the generated Protocol Buffers code (`lib/models`) but for the width of the time it writes, logging, the merge of configuration
files and the sockets a server listens on (read once at the start), the commands of the debug port, the unused SQLite storage, packaging and
scripts, and the wording of responses. Two hazards are outside the repository: a Redis restarted from an old snapshot, which repeats ids, and the handler of an
old MySQL connection, which has had its fatal error and emits no other.
