------------------------------ MODULE Delivery ------------------------------
(***************************************************************************)
(* The way of a message from publish to the subscribers: the Redis storage *)
(* (lib/storages/redis.js), publish and addToAdapter of lib/application.js *)
(* and the broadcast between the processes of a cluster.                   *)
(*                                                                         *)
(* Each process has one connection to Redis, a pipeline: requests are      *)
(* executed in the order they were sent and answered in that order.  A     *)
(* reply may call its callback at once or put it off with process.nextTick *)
(* until the replies that arrived together with it have been handled.      *)
(***************************************************************************)
EXTENDS Integers, Sequences, FiniteSets, SequencesExt, FiniteSetsExt

CONSTANTS
  Processes, Messages, Channels,
  To,          \* To[m] : the channels among the receivers of m, in order
  Stored,      \* the messages with an expiry above 0
  Clients, Websockets,
  Subscribed,  \* Subscribed[c] : the channels of client c
  Warm,        \* the processes already know server:startdate
  RangeLimit,  \* missed messages read of one channel (100 in the code)
  ReplayLimit, \* missed messages sent to a client (200 in the code)
  Expiring,    \* keys may expire
  MaxFaults    \* bound on the connections, to Redis or to a client, that break

ASSUME DeliveryAssumption ==
  /\ IsFiniteSet(Messages) /\ Processes # {}
  /\ To \in [Messages -> Seq(Channels)]
  /\ Stored \subseteq Messages
  /\ Websockets \subseteq Clients
  /\ Subscribed \in [Clients -> Seq(Channels)]
  /\ Warm \in BOOLEAN /\ Expiring \in BOOLEAN
  /\ RangeLimit \in Nat /\ ReplayLimit \in Nat
  /\ MaxFaults \in Nat

VARIABLES
  \* Redis
  idOf,      \* idOf[m] : what INCR gave m, 0 before; the counter is their maximum
  zset,      \* "channel:messages:<channel>" : a set of ids in the order of ids
  bodies,    \* the ids m with a "message:<m>" key
  hasTTL,    \* the channel keys that will expire
  \* the processes
  pipe,      \* pipe[p] : requests not yet answered, each executed or not
  ticks,     \* ticks[p] : callbacks put off by process.nextTick
  startDate, \* startDate[p] : server:startdate is cached
  relay,     \* relay[p][q] : PUBLISHed by p, not yet received by q
  \* the clients
  link,      \* "off", "loading", "on" (registered) or, for a poll, "answered"
  home,      \* the process a client is connected to
  inbox,     \* responses on their way to the client, the batch included
  mid,       \* the last message id the client got, which it connects with
  got,       \* every id it got, in order
  \* the websockets
  active,    \* FALSE between a ping and its pong
  timer,     \* a response was sent in the last 400 ms: the next ones wait
  batch,     \* how many at the end of the inbox still wait in the process
  published, losses, breaks

sockets == <<active, timer, batch>>

vars == <<idOf, zset, bodies, hasTTL, pipe, ticks, startDate, relay,
          link, home, inbox, mid, got, sockets, published, losses, breaks>>

State ==
  [idOf |-> idOf, zset |-> zset, bodies |-> bodies, hasTTL |-> hasTTL,
   pipe |-> pipe, ticks |-> ticks, startDate |-> startDate, relay |-> relay,
   link |-> link, home |-> home, inbox |-> inbox, mid |-> mid, got |-> got,
   active |-> active, timer |-> timer, batch |-> batch]

Becomes(s) ==
  /\ idOf' = s.idOf /\ zset' = s.zset /\ bodies' = s.bodies /\ hasTTL' = s.hasTTL
  /\ pipe' = s.pipe /\ ticks' = s.ticks /\ startDate' = s.startDate /\ relay' = s.relay
  /\ link' = s.link /\ home' = s.home /\ inbox' = s.inbox /\ mid' = s.mid /\ got' = s.got
  /\ active' = s.active /\ timer' = s.timer /\ batch' = s.batch

bounds == <<published, losses, breaks>>

Init ==
  /\ idOf = [m \in Messages |-> 0]
  /\ zset = [ch \in Channels |-> {}] /\ bodies = {} /\ hasTTL = {}
  /\ pipe = [p \in Processes |-> <<>>] /\ ticks = [p \in Processes |-> <<>>]
  /\ startDate = [p \in Processes |-> Warm]
  /\ relay = [p \in Processes |-> [q \in Processes |-> <<>>]]
  /\ link = [c \in Clients |-> "off"]
  /\ home = [c \in Clients |-> CHOOSE p \in Processes : TRUE]
  /\ inbox = [c \in Clients |-> <<>>]
  /\ mid = [c \in Clients |-> 0] /\ got = [c \in Clients |-> <<>>]
  /\ active = [c \in Clients |-> TRUE] /\ timer = [c \in Clients |-> FALSE]
  /\ batch = [c \in Clients |-> 0]
  /\ published = {} /\ losses = 0 /\ breaks = 0

-----------------------------------------------------------------------------
(***************************************************************************)
(* Redis.  A request is executed once every earlier one of its pipeline    *)
(* is; MULTI ... EXEC is one request.                                      *)
(***************************************************************************)
Request(op, who, args) ==
  [op |-> op, who |-> who, args |-> args, done |-> FALSE, reply |-> <<>>]

SendRequest(s, p, r) == [s EXCEPT !.pipe[p] = Append(@, r)]

Newest(ids, n) == {i \in ids : Cardinality({j \in ids : j > i}) < n}

(* Mutant: the last id itself is read again. *)
RangeFrom(s, c, since) ==
  [k \in DOMAIN Subscribed[c] |->
     Newest({i \in s.zset[Subscribed[c][k]] : i >= since}, RangeLimit)]

(* ZREVRANGEBYLEX <key> + (since LIMIT 0 RangeLimit, for every channel. *)
RangeSince(s, c, since) ==
  [k \in DOMAIN Subscribed[c] |->
     Newest({i \in s.zset[Subscribed[c][k]] : i > since}, RangeLimit)]

Do(s, r) ==
  CASE r.op = "incr" -> [s EXCEPT !.idOf[r.who] = 1 + Max({s.idOf[m] : m \in Messages})]
    [] r.op = "save" ->
         [s EXCEPT !.bodies = @ \cup {s.idOf[r.who]},
                   !.zset = [ch \in Channels |-> IF ch \in ToSet(To[r.who])
                               THEN @[ch] \cup {s.idOf[r.who]} ELSE @[ch]]]
    [] r.op = "expire" ->
         [s EXCEPT !.hasTTL = IF s.zset[r.who] # {} THEN @ \cup {r.who} ELSE @]
    [] OTHER -> s

(* The members of S in q, in the order of q. *)
Kept(q, S) ==
  LET kept[n \in 0..Len(q)] ==
        IF n = 0 THEN <<>>
        ELSE IF q[n] \in S THEN Append(kept[n - 1], q[n]) ELSE kept[n - 1]
  IN  kept[Len(q)]

(* Mutant: takes -2 for -1. *)
WithoutKey(s, m) == Kept(To[m], {ch \in Channels : s.zset[ch] = {}})

(* TTL is -1 for a key that will not expire, -2 for none. *)
WithoutTTL(s, m) ==
  Kept(To[m], {ch \in Channels : s.zset[ch] # {} /\ ch \notin s.hasTTL})

ReplyTo(s, r) ==
  CASE r.op = "ttl" -> WithoutTTL(s, r.who)
    [] r.op = "range" -> RangeSince(s, r.who, r.args[1])
    [] r.op = "mget" -> Kept(r.args, s.bodies)
    [] OTHER -> <<>>

Execute(p) ==
  /\ \E i \in DOMAIN pipe[p] :
       /\ \A j \in DOMAIN pipe[p] : pipe[p][j].done <=> j < i
       /\ Becomes([Do(State, pipe[p][i]) EXCEPT
            !.pipe[p][i] = [@ EXCEPT !.done = TRUE, !.reply = ReplyTo(State, pipe[p][i])]])
  /\ UNCHANGED bounds

(* Keys expire: a message after its expiry, a channel after channelTTL. *)
MessageExpires ==
  /\ Expiring
  /\ \E i \in bodies : bodies' = bodies \ {i}
  /\ UNCHANGED <<idOf, zset, hasTTL, pipe, ticks, startDate, relay,
                 link, home, inbox, mid, got, sockets, bounds>>

ChannelExpires ==
  /\ Expiring
  /\ \E ch \in hasTTL : /\ hasTTL' = hasTTL \ {ch}
                        /\ zset' = [zset EXCEPT ![ch] = {}]
  /\ UNCHANGED <<idOf, bodies, pipe, ticks, startDate, relay,
                 link, home, inbox, mid, got, sockets, bounds>>

-----------------------------------------------------------------------------
(***************************************************************************)
(* Connections, as Adapter and the transports leave them: a poll is over   *)
(* with the first response.  A websocket sends a response and starts its   *)
(* timer; while that runs, responses wait in the batch.  Without a timer,  *)
(* an inactive websocket drops them.                                       *)
(***************************************************************************)
IsOn(s, p, c) == s.link[c] = "on" /\ s.home[c] = p

Copies(m, c) == Cardinality({k \in DOMAIN To[m] : To[m][k] \in ToSet(Subscribed[c])})

Takes(s, c) == c \in Websockets => s.active[c] \/ s.timer[c]

(* Adapter.broadcast: once for every receiver the client subscribes to. *)
LocalBroadcast(s, p, m) ==
  LET hit == {c \in Clients : IsOn(s, p, c) /\ Copies(m, c) > 0 /\ Takes(s, c)}
      sent == hit \cap Websockets
      response(c) == [k \in 1..(IF c \in Websockets THEN Copies(m, c) ELSE 1) |-> s.idOf[m]]
  IN  [s EXCEPT !.link = [c \in Clients |-> IF c \in hit \ Websockets THEN "answered" ELSE @[c]],
                !.inbox = [c \in Clients |-> IF c \in hit THEN @[c] \o response(c) ELSE @[c]],
                !.timer = [c \in Clients |-> @[c] \/ c \in sent],
                !.batch = [c \in Clients |->
                   IF c \in sent THEN @[c] + Copies(m, c) - (IF s.timer[c] THEN 0 ELSE 1)
                                 ELSE @[c]]]

(* Mutant: the other processes are not told. *)
BroadcastHere(s, p, m) == LocalBroadcast(s, p, m)

(* ClusterAdapter.broadcast: the own clients, then PUBLISH to the others. *)
Broadcast(s, p, m) ==
  [LocalBroadcast(s, p, m) EXCEPT
     !.relay[p] = [q \in Processes |-> IF q = p THEN @[q] ELSE Append(@[q], m)]]

(* Mutant: a poll that got its messages is added nevertheless. *)
LoadedAndOn(s, c, ids) == [s EXCEPT !.inbox[c] = @ \o ids, !.link[c] = "on"]

(* Mutant: the missed messages are not sent. *)
LoadedUnsent(s, c, ids) == [s EXCEPT !.link[c] = "on"]

(* The callback of storage.get in addToAdapter: send, then Adapter.add. *)
Loaded(s, c, ids) ==
  [s EXCEPT !.inbox[c] = @ \o ids,
            !.timer[c] = c \in Websockets /\ ids # <<>>,
            !.link[c] = IF ids # <<>> /\ c \notin Websockets THEN "answered" ELSE "on"]

-----------------------------------------------------------------------------
(***************************************************************************)
(* Handling the first reply of a pipeline, by the request it answers.      *)
(***************************************************************************)
Answered(p, op) ==
  /\ pipe[p] # <<>>
  /\ Head(pipe[p]).op = op /\ Head(pipe[p]).done

Popped(p) == [State EXCEPT !.pipe[p] = Tail(@)]

Who(p) == Head(pipe[p]).who
ReplyOf(p) == Head(pipe[p]).reply

(* createMessage's callback in set: save it, or broadcast it right away. *)
HasId(s, p, m) ==
  IF m \in Stored THEN SendRequest(s, p, Request("save", m, <<>>))
                  ELSE Broadcast(s, p, m)

(* getMessageId: the id needs the counter and the start date. *)
IncrReplied(p) ==
  /\ Answered(p, "incr")
  /\ Becomes(IF startDate[p] THEN HasId(Popped(p), p, Who(p))
             ELSE SendRequest(Popped(p), p, Request("startdate", Who(p), <<>>)))
  /\ UNCHANGED bounds

(* getStartDate *)
StartDateReplied(p) ==
  /\ Answered(p, "startdate")
  /\ Becomes(HasId([Popped(p) EXCEPT !.startDate[p] = TRUE], p, Who(p)))
  /\ UNCHANGED bounds

(* saveMessage: the broadcast waits for the next tick, the TTL is asked at once. *)
Saved(p) ==
  /\ Answered(p, "save")
  /\ Becomes(SendRequest([Popped(p) EXCEPT !.ticks[p] = Append(@, [op |-> "saved", who |-> Who(p), args |-> <<>>])],
                         p, Request("ttl", Who(p), <<>>)))
  /\ UNCHANGED bounds

(* setChannelsTTL: a channel key that has no TTL gets one. *)
TTLReplied(p) ==
  /\ Answered(p, "ttl")
  /\ Becomes([Popped(p) EXCEPT !.pipe[p] =
       @ \o [k \in DOMAIN ReplyOf(p) |-> Request("expire", ReplyOf(p)[k], <<>>)]])
  /\ UNCHANGED bounds

ExpireReplied(p) == Answered(p, "expire") /\ Becomes(Popped(p)) /\ UNCHANGED bounds

(* get: the ids of all the channels, sorted, and at most the last          *)
(* ReplayLimit.  An id is in the list once for every channel that has it.  *)
Sorted(sets) ==
  LET top == Max({0} \cup UNION {sets[k] : k \in DOMAIN sets})
      copies(i) == Cardinality({k \in DOMAIN sets : i \in sets[k]})
      upTo[i \in 0..top] ==
        IF i = 0 THEN <<>> ELSE upTo[i - 1] \o [n \in 1..copies(i) |-> i]
  IN  upTo[top]

(* Mutant: one too few. *)
LastButOne(q, n) == SubSeq(q, IF Len(q) >= n THEN Len(q) - n + 2 ELSE 1, Len(q))

LastOnes(q, n) == SubSeq(q, IF Len(q) > n THEN Len(q) - n + 1 ELSE 1, Len(q))

RangeReplied(p) ==
  /\ Answered(p, "range")
  /\ LET ids == LastOnes(Sorted(ReplyOf(p)), ReplayLimit)
     IN  Becomes(IF ids = <<>> THEN Loaded(Popped(p), Who(p), <<>>)
                 ELSE SendRequest(Popped(p), p, Request("mget", Who(p), ids)))
  /\ UNCHANGED bounds

(* getMessages: those whose key is still there, in the next tick. *)
MessagesReplied(p) ==
  /\ Answered(p, "mget")
  /\ Becomes([Popped(p) EXCEPT !.ticks[p] =
       Append(@, [op |-> "loaded", who |-> Who(p), args |-> ReplyOf(p)])])
  /\ UNCHANGED bounds

Tick(p) ==
  /\ ticks[p] # <<>>
  /\ LET t == Head(ticks[p])
         s == [State EXCEPT !.ticks[p] = Tail(@)]
     IN  Becomes(IF t.op = "saved" THEN Broadcast(s, p, t.who) ELSE Loaded(s, t.who, t.args))
  /\ UNCHANGED bounds

(***************************************************************************)
(* The connection to Redis breaks: every request fails, executed or not.   *)
(* A message is logged as not published, a subscriber is closed.           *)
(***************************************************************************)
ConnectionLost(p) ==
  /\ losses + breaks < MaxFaults /\ losses' = losses + 1
  /\ pipe[p] # <<>>
  /\ LET failed == {pipe[p][i].who : i \in {j \in DOMAIN pipe[p] : pipe[p][j].op \in {"range", "mget"}}}
     IN  Becomes([State EXCEPT !.pipe[p] = <<>>,
                               !.link = [c \in Clients |-> IF c \in failed THEN "off" ELSE @[c]]])
  /\ UNCHANGED <<published, breaks>>

-----------------------------------------------------------------------------
(***************************************************************************)
(* Other events wait for the deferred callbacks.                           *)
(***************************************************************************)
Publish(m, p) ==
  /\ m \notin published /\ published' = published \cup {m}
  /\ ticks[p] = <<>>
  /\ Becomes(SendRequest(State, p, Request("incr", m, <<>>)))
  /\ UNCHANGED <<losses, breaks>>

(* ClusterAdapter.handleMessage *)
Relayed(p, q) ==
  /\ relay[p][q] # <<>> /\ ticks[q] = <<>>
  /\ Becomes(LocalBroadcast([State EXCEPT !.relay[p][q] = Tail(@)], q, Head(relay[p][q])))
  /\ UNCHANGED bounds

(* The subscription to Redis breaks: what was PUBLISHed meanwhile is lost. *)
RelayLost(p, q) ==
  /\ losses + breaks < MaxFaults /\ losses' = losses + 1
  /\ relay[p][q] # <<>>
  /\ relay' = [relay EXCEPT ![p][q] = <<>>]
  /\ UNCHANGED <<idOf, zset, bodies, hasTTL, pipe, ticks, startDate,
                 link, home, inbox, mid, got, sockets, published, breaks>>

(* A client connects with the last id it got: storage.get. *)
Connect(c, p) ==
  /\ link[c] = "off" /\ ticks[p] = <<>>
  /\ Becomes(SendRequest([State EXCEPT !.link[c] = "loading", !.home[c] = p],
                         p, Request("range", c, <<mid[c]>>)))
  /\ UNCHANGED bounds

(* A poll that waited for 40 s is answered 304 and comes back with the same id. *)
PollTimeout(c) ==
  /\ c \notin Websockets /\ link[c] = "on" /\ ticks[home[c]] = <<>>
  /\ Becomes([State EXCEPT !.link[c] = "off"])
  /\ UNCHANGED bounds

(* The client gets the response of its poll, or the next one of its websocket. *)
Receive(c) ==
  /\ Len(inbox[c]) > batch[c]
  /\ LET some == IF c \in Websockets THEN <<Head(inbox[c])>> ELSE inbox[c]
     IN  Becomes([State EXCEPT !.inbox[c] = SubSeq(@, Len(some) + 1, Len(@)),
                               !.got[c] = @ \o some, !.mid[c] = Last(some),
                               !.link[c] = IF c \in Websockets THEN @ ELSE "off"])
  /\ UNCHANGED bounds

(* A connection that is gone, with what is on its way; the next one is new. *)
Gone(s, c) ==
  [s EXCEPT !.link[c] = "off", !.inbox[c] = <<>>,
            !.active[c] = TRUE, !.timer[c] = FALSE, !.batch[c] = 0]

(* The connection of a client breaks. *)
Break(c) ==
  /\ losses + breaks < MaxFaults /\ breaks' = breaks + 1
  /\ link[c] \in {"on", "answered"} /\ ticks[home[c]] = <<>>
  /\ Becomes(Gone(State, c))
  /\ UNCHANGED <<published, losses>>

(***************************************************************************)
(* WebSocket.sendBuffer, 400 ms after a response was sent: the batch goes  *)
(* out, or nowhere if the websocket is inactive now.                       *)
(***************************************************************************)
SendBuffer(c) ==
  /\ timer[c] /\ ticks[home[c]] = <<>>
  /\ Becomes([State EXCEPT !.timer[c] = FALSE, !.batch[c] = 0,
                           !.inbox[c] = IF active[c] THEN @
                                        ELSE SubSeq(@, 1, Len(@) - batch[c])])
  /\ UNCHANGED bounds

(***************************************************************************)
(* WebSocket.ping, every two minutes: one without a pong is the last.  (No *)
(* load takes two minutes here; one that does is modelled in Adapter.)     *)
(***************************************************************************)
Ping(c) ==
  /\ c \in Websockets /\ link[c] = "on" /\ ticks[home[c]] = <<>>
  /\ Becomes(IF active[c] THEN [State EXCEPT !.active[c] = FALSE] ELSE Gone(State, c))
  /\ UNCHANGED bounds

(* WebSocket.handlePong *)
Pong(c) ==
  /\ ~active[c] /\ ticks[home[c]] = <<>>
  /\ Becomes([State EXCEPT !.active[c] = TRUE])
  /\ UNCHANGED bounds

Reply(p) ==
  \/ IncrReplied(p) \/ StartDateReplied(p)
  \/ Saved(p) \/ TTLReplied(p) \/ ExpireReplied(p)
  \/ RangeReplied(p) \/ MessagesReplied(p)

Next ==
  \/ \E p \in Processes : Execute(p) \/ Reply(p) \/ Tick(p) \/ ConnectionLost(p)
  \/ \E p, q \in Processes : Relayed(p, q) \/ RelayLost(p, q)
  \/ \E m \in Messages, p \in Processes : Publish(m, p)
  \/ \E c \in Clients, p \in Processes : Connect(c, p)
  \/ \E c \in Clients : PollTimeout(c) \/ Receive(c) \/ Break(c)
  \/ \E c \in Clients : SendBuffer(c) \/ Ping(c) \/ Pong(c)
  \/ MessageExpires \/ ChannelExpires

(***************************************************************************)
(* Redis and the event loops run, the network delivers, the timers of a    *)
(* poll and of a batch run out, and a client without a connection tries    *)
(* again.  Nobody has to publish; no peer has to answer a ping; nothing    *)
(* has to break or expire.                                                 *)
(***************************************************************************)
Fairness ==
  /\ \A p \in Processes : WF_vars(Execute(p)) /\ WF_vars(Reply(p)) /\ WF_vars(Tick(p))
  /\ \A p, q \in Processes : p # q => WF_vars(Relayed(p, q))
  /\ \A c \in Clients \ Websockets : WF_vars(PollTimeout(c))
  /\ \A c \in Websockets : WF_vars(SendBuffer(c))
  /\ \A c \in Clients : WF_vars(Receive(c)) /\ WF_vars(\E p \in Processes : Connect(c, p))

Spec == Init /\ [][Next]_vars /\ Fairness

-----------------------------------------------------------------------------
(***************************************************************************)
(* Properties.                                                             *)
(***************************************************************************)
Polling == Clients \ Websockets

ChannelsOf(c) == ToSet(Subscribed[c])

(***************************************************************************)
(* Every variable has its type; replies are handled in order, so that what *)
(* Redis has executed of a pipeline is a prefix of it; a batch is the end  *)
(* of what is on its way and has a timer that sends it, and pings and      *)
(* timers are those of registered websockets.                              *)
(***************************************************************************)
TypeOK ==
  /\ idOf \in [Messages -> 0..Cardinality(Messages)]
  /\ \A m, n \in Messages : idOf[m] = idOf[n] /\ idOf[m] # 0 => m = n
  /\ \A ch \in Channels : zset[ch] \subseteq 1..Cardinality(Messages)
  /\ bodies \subseteq 1..Cardinality(Messages)
  /\ hasTTL \subseteq {ch \in Channels : zset[ch] # {}}
  /\ \A p \in Processes : \A i, j \in DOMAIN pipe[p] :
       i < j /\ pipe[p][j].done => pipe[p][i].done
  /\ link \in [Clients -> {"off", "loading", "on", "answered"}]
  /\ \A c \in Polling : inbox[c] # <<>> => link[c] = "answered"
  /\ active \in [Clients -> BOOLEAN] /\ timer \in [Clients -> BOOLEAN]
  /\ batch \in [Clients -> Nat]
  /\ \A c \in Clients : /\ batch[c] <= Len(inbox[c])
                        /\ batch[c] > 0 => timer[c]
                        /\ \/ c \in Websockets /\ link[c] = "on"
                           \/ active[c] /\ ~timer[c]

(***************************************************************************)
(* In order and once: the ids a client gets only grow, over all its polls  *)
(* or reconnections, replays and broadcasts.                               *)
(***************************************************************************)
Ascending ==
  \A c \in Clients : \A i, j \in DOMAIN got[c] : i < j => got[c][i] < got[c][j]

(***************************************************************************)
(* Nothing is skipped: a polling client that got a message has got every   *)
(* earlier one of its channels that the storage still keeps, except those  *)
(* a replay left out because it was full of newer ones - unless a process  *)
(* lost Redis before it could broadcast what it had saved.                 *)
(***************************************************************************)
ChannelLog(c) == UNION {zset[ch] : ch \in ChannelsOf(c)}

Skipped(c) == {i \in bodies \cap ChannelLog(c) : i <= mid[c] /\ i \notin ToSet(got[c])}

Superseded(c, i) ==
  Cardinality({j \in ChannelLog(c) : j > i}) >= Min({RangeLimit, ReplayLimit})

NothingSkipped ==
  losses = 0 => \A c \in Polling : \A i \in Skipped(c) : Superseded(c, i)

(***************************************************************************)
(* "Long Polling Emulation" publishes ten messages one after the other and *)
(* expects the polling client to get "1234567890".                         *)
(***************************************************************************)
EveryMessageInOrder == \A c \in Polling : Skipped(c) = {}

(***************************************************************************)
(* A saved message reaches every polling client of its channels, by a      *)
(* broadcast or by the replay of a later poll, even if its connection      *)
(* breaks, unless it expires first, newer messages fill the replay, or a   *)
(* process loses Redis.                                                    *)
(***************************************************************************)
Due(c, m) ==
  /\ idOf[m] \in bodies \cap ChannelLog(c)
  /\ ~Superseded(c, idOf[m])
  /\ losses = 0

SavedIsDelivered ==
  \A c \in Polling, m \in Messages :
    Due(c, m) ~> idOf[m] \in ToSet(got[c]) \/ ~Due(c, m)

(***************************************************************************)
(* A websocket that is registered when a message gets its id receives it,  *)
(* whichever process it is connected to and whichever published it, unless *)
(* it has a ping to answer somewhere on the way (what is sent or flushed   *)
(* then is dropped) or a connection breaks.                                *)
(***************************************************************************)
Publishing(m) ==
  \E p \in Processes : \E i \in DOMAIN pipe[p] :
    pipe[p][i].op = "incr" /\ pipe[p][i].who = m

ConnectedGetsAll ==
  \A c \in Websockets, m \in Messages, n \in 0..MaxFaults :
    (/\ Publishing(m) /\ idOf[m] = 0 /\ Copies(m, c) > 0
     /\ link[c] = "on" /\ active[c] /\ losses + breaks = n)
      ~> (idOf[m] \in ToSet(got[c]) \/ ~active[c] \/ losses + breaks > n)

(***************************************************************************)
(* Every publish sees to the TTL of the keys of its channels, whoever made *)
(* them, although it does so three round trips after EXEC: a key is left   *)
(* without one, with nobody at it, only when a connection to Redis breaks. *)
(* It would stay for ever then; the next publish to the channel repairs it *)
(* or is cut short by another break.                                       *)
(***************************************************************************)
SeesTo(r, ch) ==
  \/ r.op \in {"incr", "startdate"} /\ r.who \in Stored /\ ch \in ToSet(To[r.who])
  \/ r.op = "save" /\ ch \in ToSet(To[r.who])
  \/ r.op = "ttl" /\ ch \in ToSet(IF r.done THEN r.reply ELSE To[r.who])
  \/ r.op = "expire" /\ ~r.done /\ r.who = ch

Forgotten(ch) ==
  /\ zset[ch] # {} /\ ch \notin hasTTL
  /\ \A p \in Processes : \A i \in DOMAIN pipe[p] : ~SeesTo(pipe[p][i], ch)

ChannelsGetTTL ==
  [][\A ch \in Channels : Forgotten(ch)' => Forgotten(ch) \/ losses' > losses]_vars

=============================================================================
