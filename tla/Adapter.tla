------------------------------ MODULE Adapter -------------------------------
(***************************************************************************)
(* The connection registry of one server process (lib/adapters/adapter.js) *)
(* together with the events that reach it: the subscription handlers of    *)
(* lib/application.js and the state changes of the two transports          *)
(* (lib/transports/polling.js, websocket.js) the registry depends on.      *)
(*                                                                         *)
(* Every action is one callback of the event loop, run to completion.  A   *)
(* handler that goes through several steps is written as an operator from  *)
(* a state to the state it leaves; its loops are recursive functions of    *)
(* the number of rounds done.                                              *)
(***************************************************************************)
EXTENDS Integers, Sequences, SequencesExt

CONSTANTS
  Connections,        \* connection objects, one per request
  Websockets,         \* those on the WebSocket transport; the rest are polls
  Private, Public,    \* private and public channel ids
  NoId,               \* no public id / no map entry
  Channels,           \* Channels[c] : getChannels() of c, fixed when c is built
  WithMid,            \* connections whose URL carries a valid "mid"
  MaxConnPerChannel,  \* config.limits.maxConnPerChannel
  CloudMode,          \* config.cloudMode
  MaxReceivers        \* bound on the receivers of a message

Channel == [private : Private, public : Public \cup {NoId}]

ASSUME AdapterAssumption ==
  /\ Websockets \subseteq Connections
  /\ WithMid \subseteq Connections
  /\ NoId \notin Private \cup Public
  /\ Channels \in [Connections -> Seq(Channel)]
  /\ MaxConnPerChannel \in Nat
  /\ CloudMode \in BOOLEAN
  /\ MaxReceivers \in Nat

VARIABLES
  connections,  \* private id -> its Set in insertion order; <<>> = no entry
  pubChannels,  \* public id -> private id; NoId = no entry
  websockets, pollings,  \* the connection counters of lib/statistics.js
  active,       \* connection.active
  socket,       \* the transport under the connection object
  stage         \* how far addToAdapter got with the connection

vars == <<connections, pubChannels, websockets, pollings, active, socket, stage>>

Polls == Connections \ Websockets

(***************************************************************************)
(* "closing": a close frame was sent or received, or the HTTP response was *)
(* ended; "terminated": the socket was destroyed.  "closed" is reached by  *)
(* the "close" event.                                                      *)
(***************************************************************************)
Socket == {"none", "open", "closing", "terminated", "closed"}
Stage == {"new", "loading", "added", "refused"}

State == [connections |-> connections, pubChannels |-> pubChannels,
          websockets |-> websockets, pollings |-> pollings,
          active |-> active, socket |-> socket, stage |-> stage]

Becomes(s) ==
  /\ connections' = s.connections
  /\ pubChannels' = s.pubChannels
  /\ websockets' = s.websockets
  /\ pollings' = s.pollings
  /\ active' = s.active
  /\ socket' = s.socket
  /\ stage' = s.stage

Init ==
  /\ connections = [p \in Private |-> <<>>]
  /\ pubChannels = [q \in Public |-> NoId]
  /\ websockets = 0 /\ pollings = 0
  /\ active = [c \in Connections |-> FALSE]
  /\ socket = [c \in Connections |-> "none"]
  /\ stage = [c \in Connections |-> "new"]

-----------------------------------------------------------------------------

IsActive(s, c) == s.active[c] /\ (c \in Websockets => s.socket[c] = "open")

PrivateIds(c) == {Channels[c][i].private : i \in DOMAIN Channels[c]}

Registered(s, c) == \E p \in Private : c \in ToSet(s.connections[p])

Count(s, c, n) == IF c \in Websockets THEN [s EXCEPT !.websockets = @ + n]
                                      ELSE [s EXCEPT !.pollings = @ + n]

(***************************************************************************)
(* Adapter.delete.  The Set of a channel goes when its last member does,   *)
(* and with it the public id under which that member listed the channel    *)
(* first.  A connection found in no Set is not counted down.               *)
(***************************************************************************)
LastMember(s, c, p) == s.connections[p] = <<c>>

(* Mutant: the public id goes with any member. *)
ReleasedWithAnyMember(s, c) ==
  {Channels[c][i].public : i \in
     {j \in DOMAIN Channels[c] : c \in ToSet(s.connections[Channels[c][j].private])}}

(* Mutant: the public id is never released. *)
ReleasedNever(s, c) == {}

ReleasedPublicIds(s, c) ==
  {Channels[c][i].public : i \in
     {j \in DOMAIN Channels[c] :
        /\ LastMember(s, c, Channels[c][j].private)
        /\ \A k \in 1..(j - 1) : Channels[c][k].private # Channels[c][j].private}}

(* Mutant: stops at the first channel of the connection. *)
DeleteFirstChannelOnly(s, c) ==
  IF Registered(s, c)
    THEN Count([s EXCEPT !.connections[Channels[c][1].private] = RemoveFirst(@, c)],
               c, -1)
    ELSE s

(* Mutant: counts down a connection found in no Set. *)
DeleteAlwaysCounts(s, c) ==
  Count([s EXCEPT !.connections = [p \in Private |->
                     IF p \in PrivateIds(c) THEN RemoveFirst(@[p], c) ELSE @[p]],
                  !.pubChannels = [q \in Public |->
                     IF q \in ReleasedPublicIds(s, c) THEN NoId ELSE @[q]]],
        c, -1)

Delete(s, c) ==
  LET removed ==
        [s EXCEPT !.connections = [p \in Private |->
                     IF p \in PrivateIds(c) THEN RemoveFirst(@[p], c) ELSE @[p]],
                  !.pubChannels = [q \in Public |->
                     IF q \in ReleasedPublicIds(s, c) THEN NoId ELSE @[q]]]
  IN  IF Registered(s, c) THEN Count(removed, c, -1) ELSE removed

(***************************************************************************)
(* The "close" event of the connection object: active is off and, once     *)
(* Adapter.add attached its listener, the connection leaves the registry.  *)
(***************************************************************************)
EmitClose(s, c) ==
  LET t == [s EXCEPT !.active[c] = FALSE]
  IN  IF s.stage[c] = "added" THEN Delete(t, c) ELSE t

(***************************************************************************)
(* Connection.close: a poll is answered and finalized on the spot, a       *)
(* websocket starts the closing handshake.                                 *)
(***************************************************************************)
Close(s, c) ==
  LET t == [s EXCEPT !.active[c] = FALSE,
                     !.socket[c] = IF @ = "open" THEN "closing" ELSE @]
  IN  IF c \in Websockets THEN t ELSE EmitClose(t, c)

(***************************************************************************)
(* Connection.send, as far as the registry sees it: the first message      *)
(* answers a poll and ends it; a websocket stays as it is.                 *)
(***************************************************************************)
Send(s, c) == IF c \in Polls /\ IsActive(s, c) THEN Close(s, c) ELSE s

(***************************************************************************)
(* One round of the loop of Adapter.add.  A full channel first loses its   *)
(* oldest member.  When that empties the Set, delete() drops it from the   *)
(* map and the newcomer joins a Set nobody can reach.                      *)
(***************************************************************************)
(* Mutant: one member too many. *)
FullAboveTheLimit(s, ch) ==
  /\ ch.public # NoId
  /\ Len(s.connections[ch.private]) > MaxConnPerChannel
  /\ s.connections[ch.private] # <<>>

Full(s, ch) ==
  /\ ch.public # NoId
  /\ Len(s.connections[ch.private]) >= MaxConnPerChannel
  /\ s.connections[ch.private] # <<>>

(* Mutant: the evicted connection is not closed. *)
MakeRoomSilently(s, ch) ==
  IF Full(s, ch) THEN Delete(s, Head(s.connections[ch.private])) ELSE s

(* Mutant: the newest member has to go. *)
MakeRoomFromTheEnd(s, ch) ==
  IF Full(s, ch)
    THEN LET last == Last(s.connections[ch.private])
         IN  Close(Delete(s, last), last)
    ELSE s

MakeRoom(s, ch) ==
  IF Full(s, ch)
    THEN LET first == Head(s.connections[ch.private])
         IN  Close(Delete(s, first), first)
    ELSE s

Join(s, c, ch) ==
  [s EXCEPT !.connections[ch.private] =
               IF c \in ToSet(@) THEN @ ELSE Append(@, c)]

AddChannel(s, c, ch) ==
  LET t == MakeRoom(s, ch)
      orphaned == Full(s, ch) /\ t.connections[ch.private] = <<>>
      u == IF orphaned THEN t ELSE Join(t, c, ch)
  IN  IF ch.public = NoId THEN u
                          ELSE [u EXCEPT !.pubChannels[ch.public] = ch.private]

AddChannels(s, c) ==
  LET run[i \in 0..Len(Channels[c])] ==
        IF i = 0 THEN s ELSE AddChannel(run[i-1], c, Channels[c][i])
  IN  run[Len(Channels[c])]

(* Mutant: the connection need not be active. *)
AddUnchecked(s, c) ==
  [AddChannels(Count(s, c, 1), c) EXCEPT !.stage[c] = "added"]

(* Adapter.add *)
Add(s, c) ==
  IF IsActive(s, c)
    THEN [AddChannels(Count(s, c, 1), c) EXCEPT !.stage[c] = "added"]
    ELSE [s EXCEPT !.stage[c] = "refused"]

(***************************************************************************)
(* Adapter.broadcast: every member of every channel the receivers name.    *)
(***************************************************************************)
Receiver == [isPrivate : {TRUE}, id : Private] \cup [isPrivate : {FALSE}, id : Public]

Resolve(s, r) == IF r.isPrivate THEN r.id ELSE s.pubChannels[r.id]

SendAll(s, members) ==
  LET run[i \in 0..Len(members)] ==
        IF i = 0 THEN s ELSE Send(run[i-1], members[i])
  IN  run[Len(members)]

SendTo(s, r) ==
  IF Resolve(s, r) = NoId THEN s ELSE SendAll(s, s.connections[Resolve(s, r)])

SendToReceivers(s, rs) ==
  LET run[i \in 0..Len(rs)] == IF i = 0 THEN s ELSE SendTo(run[i-1], rs[i])
  IN  run[Len(rs)]

-----------------------------------------------------------------------------
(***************************************************************************)
(* The callbacks.                                                          *)
(***************************************************************************)

(***************************************************************************)
(* subscribePolling / subscribeWebsocket and the head of addToAdapter.  In *)
(* the cloud a poll waits for its license before it gets a connection      *)
(* object; a client that left meanwhile emits no further "close".          *)
(***************************************************************************)
Subscribe(c) ==
  /\ stage[c] = "new"
  /\ \E now \in IF CloudMode /\ c \in Polls THEN {"open", "closed"} ELSE {"open"} :
     LET s == [State EXCEPT !.active[c] = TRUE, !.socket[c] = now]
     IN  Becomes(IF Channels[c] = <<>>
                   THEN [Close(s, c) EXCEPT !.stage[c] = "refused"]
                 ELSE IF c \in WithMid
                   THEN [s EXCEPT !.stage[c] = "loading"]
                   ELSE Add(s, c))

(* The answer of storage.get: the missed messages, if any, then add. *)
Loaded(c) ==
  /\ stage[c] = "loading"
  /\ \E missed \in BOOLEAN :
       Becomes(Add(IF missed THEN Send(State, c) ELSE State, c))

(* storage.get failed.  Answering a poll twice throws (PollingTransport). *)
LoadFailed(c) ==
  /\ stage[c] = "loading"
  /\ c \in Polls => socket[c] # "closing"
  /\ Becomes([Close(State, c) EXCEPT !.stage[c] = "refused"])

(* The callback of storage.set. *)
Broadcast(rs) == Becomes(SendToReceivers(State, rs))

(* handleTimeout answered an open poll. *)
PollTimeout(c) ==
  /\ c \in Polls
  /\ socket[c] = "open"
  /\ Becomes(Close(State, c))

(* WebSocket.ping, every two minutes. *)
Ping(c) ==
  /\ c \in Websockets
  /\ socket[c] \in {"open", "closing"}
  /\ Becomes(IF active[c] THEN [State EXCEPT !.active[c] = FALSE]
                          ELSE [State EXCEPT !.socket[c] = "terminated"])

(* WebSocket.handlePong. *)
Pong(c) ==
  /\ c \in Websockets
  /\ socket[c] \in {"open", "closing"}
  /\ Becomes([State EXCEPT !.active[c] = TRUE])

(* The peer's close frame arrived. *)
PeerCloses(c) ==
  /\ c \in Websockets
  /\ socket[c] = "open"
  /\ Becomes([State EXCEPT !.socket[c] = "closing"])

(* The "close" event of the websocket or of the HTTP response. *)
SocketClosed(c) ==
  /\ socket[c] \notin {"none", "closed"}
  /\ Becomes(EmitClose([State EXCEPT !.socket[c] = "closed"], c))

Messages == UNION {[1..n -> Receiver] : n \in 1..MaxReceivers}

Next ==
  \/ \E c \in Connections :
       \/ Subscribe(c) \/ Loaded(c) \/ LoadFailed(c)
       \/ PollTimeout(c) \/ Ping(c) \/ Pong(c)
       \/ PeerCloses(c) \/ SocketClosed(c)
  \/ \E rs \in Messages : Broadcast(rs)

Spec == Init /\ [][Next]_vars

-----------------------------------------------------------------------------
(***************************************************************************)
(* What the registry promises: see ChannelDirectory.                       *)
(***************************************************************************)
Directory == INSTANCE ChannelDirectory WITH
  Subscriptions <- [c \in Connections |-> PrivateIds(c)],
  Limit <- MaxConnPerChannel,
  members <- [p \in Private |-> ToSet(connections[p])],
  left <- {c \in Connections : stage[c] = "added" /\ ~Registered(State, c)}

DirectorySpec == Directory!Spec

-----------------------------------------------------------------------------
(***************************************************************************)
(* Properties.                                                             *)
(***************************************************************************)

Members(p) == ToSet(connections[p])
IsRegistered(c) == Registered(State, c)
SubscribesTo(c, p) == p \in PrivateIds(c)

(* A public id names one private channel: the two are signed together. *)
PublicIdsAreUnambiguous ==
  \A c, d \in Connections : \A i \in DOMAIN Channels[c], j \in DOMAIN Channels[d] :
    /\ Channels[c][i].public # NoId
    /\ Channels[c][i].public = Channels[d][j].public
    => Channels[c][i].private = Channels[d][j].private

(* Every subscriber lists a channel in the same form, with its public id. *)
UniformChannels ==
  \A c, d \in Connections : \A i \in DOMAIN Channels[c], j \in DOMAIN Channels[d] :
    Channels[c][i].private = Channels[d][j].private
      => Channels[c][i].public = Channels[d][j].public

(***************************************************************************)
(* Every variable has its type; a Set lists a connection once.             *)
(***************************************************************************)
TypeOK ==
  /\ connections \in [Private -> Seq(Connections)]
  /\ \A p \in Private : IsInjective(connections[p])
  /\ pubChannels \in [Public -> Private \cup {NoId}]
  /\ websockets \in Int /\ pollings \in Int
  /\ active \in [Connections -> BOOLEAN]
  /\ socket \in [Connections -> Socket]
  /\ stage \in [Connections -> Stage]

(***************************************************************************)
(* A connection is registered in all the channels it subscribes to and in  *)
(* no other, or in none: evicting it from one full channel takes it out of *)
(* the others too, and no handler leaves it halfway.                       *)
(***************************************************************************)
AllOrNothing ==
  \A c \in Connections : IsRegistered(c) =>
    \A p \in Private : c \in Members(p) <=> SubscribesTo(c, p)

(***************************************************************************)
(* No deaf subscriber: once addToAdapter is done with a connection, it is  *)
(* in the registry for as long as its transport is open.  With a limit of  *)
(* one this fails: the newcomer joins a Set that was dropped with its last *)
(* member, is found by no broadcast and never evicted.                     *)
(***************************************************************************)
OpenSubscriberIsRegistered ==
  \A c \in Connections : stage[c] = "added" /\ socket[c] = "open" =>
    /\ IsRegistered(c)
    /\ \A p \in PrivateIds(c) : c \in Members(p)

(***************************************************************************)
(* Whoever is in the registry can still be answered: add's eviction and    *)
(* broadcast never write a second HTTP response, which would throw.        *)
(***************************************************************************)
RegisteredPollIsUnanswered ==
  \A c \in Polls : IsRegistered(c) => active[c] /\ socket[c] # "closing"

(***************************************************************************)
(* No ghosts: a connection whose transport is gone is in no channel.  In   *)
(* the cloud this fails for polls: see Subscribe.                          *)
(***************************************************************************)
NoGhost ==
  \A c \in Connections :
    IsRegistered(c) /\ ~(CloudMode /\ c \in Polls) => socket[c] # "closed"

(***************************************************************************)
(* A message to the public id of a channel reaches its subscribers: the    *)
(* public id resolves while one of those who listed it is registered.      *)
(***************************************************************************)
PublicIdResolves ==
  \A c \in Connections : IsRegistered(c) => \A i \in DOMAIN Channels[c] :
    Channels[c][i].public # NoId
      => pubChannels[Channels[c][i].public] = Channels[c][i].private

(***************************************************************************)
(* No public id outlives its channel's Set, when subscribers agree on how  *)
(* they list a channel (otherwise the entry stays for ever).               *)
(***************************************************************************)
NoLeakedPublicId ==
  UniformChannels => \A q \in Public :
    pubChannels[q] # NoId => connections[pubChannels[q]] # <<>>

(***************************************************************************)
(* The counters of lib/statistics.js count the registered connections.     *)
(***************************************************************************)
StatisticsCount ==
  /\ websockets = Cardinality({c \in Websockets : IsRegistered(c)})
  /\ pollings = Cardinality({c \in Polls : IsRegistered(c)})

(***************************************************************************)
(* "tries to subscribe a lot of clients to one channel" connects           *)
(* maxConnPerChannel + 3 clients and expects the 3 oldest to be closed: a  *)
(* channel everybody lists with its public id has at most                  *)
(* maxConnPerChannel members, however subscribers come and go.             *)
(***************************************************************************)
ChannelCapacity ==
  \A p \in Private :
    (\A c \in Connections : \A i \in DOMAIN Channels[c] :
       Channels[c][i].private = p => Channels[c][i].public # NoId)
    => Len(connections[p]) <= MaxConnPerChannel

(***************************************************************************)
(* Nobody is dropped silently: a connection leaves a channel only in a     *)
(* step after which its transport is closed or closing.                    *)
(***************************************************************************)
NoSilentRemoval ==
  [][\A c \in Connections, p \in Private :
       c \in Members(p) /\ c \notin Members(p)' => socket'[c] # "open"]_vars

(* x stands before y in the Set q: it was added earlier. *)
Before(q, x, y) == \E i, j \in 1..Len(q) : q[i] = x /\ q[j] = y /\ i < j

(* In any step: who was in a Set keeps its place, a newcomer is the last. *)
KeepsTheOrder ==
  \A p \in Private, x, y \in Connections :
    Before(connections'[p], x, y) /\ y \in Members(p) => Before(connections[p], x, y)

(***************************************************************************)
(* In s the channel of n's i-th entry is full for the loop of add, which   *)
(* counts n itself when an earlier entry named the same channel.           *)
(***************************************************************************)
LimitReached(s, n, i) ==
  LET p == Channels[n][i].private
      own == IF \E j \in 1..(i - 1) : Channels[n][j].private = p THEN 1 ELSE 0
  IN  /\ Channels[n][i].public # NoId
      /\ Len(s.connections[p]) + own >= MaxConnPerChannel

(***************************************************************************)
(* A subscription handler that takes connections out of the registry does  *)
(* so for one that it adds, and each was in a full channel of the          *)
(* newcomer, before everybody who stays in it.  (With a limit of one the   *)
(* newcomer is lost: see AddChannel.)                                      *)
(***************************************************************************)
MakesRoomForTheNewcomer ==
  \A n, c \in Connections :
    stage'[n] # stage[n] /\ IsRegistered(c) /\ ~IsRegistered(c)' =>
      /\ IsRegistered(n)'
      /\ \E i \in DOMAIN Channels[n] :
           LET p == Channels[n][i].private
           IN  /\ c \in Members(p) /\ LimitReached(State, n, i)
               /\ \A d \in Members(p) : IsRegistered(d)' => Before(connections[p], c, d)

(***************************************************************************)
(* First come, first out: a connection is evicted only for one that is     *)
(* added, out of a full channel, and older than all who stay in it; and no *)
(* callback changes the order of those who stay, so that "older" means the *)
(* same at the next eviction.                                              *)
(***************************************************************************)
EvictsTheOldest == [][KeepsTheOrder /\ MakesRoomForTheNewcomer]_vars

=============================================================================
