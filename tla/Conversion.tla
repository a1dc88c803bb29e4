----------------------------- MODULE Conversion -----------------------------
(***************************************************************************)
(* The time that a client reads in a message, from RedisStorage.set to the *)
(* subscribers of the message's channel.  A message is one object for all  *)
(* subscribers of its process; its field "created" holds seconds.  A       *)
(* binary subscriber gets the object encoded (models/index.js); for a text *)
(* subscriber convertIncomingMessagesResponse (lib/transports/             *)
(* connection.js) first sets the field to the present time in              *)
(* milliseconds, and whoever is served later from the same object gets     *)
(* that: websockets that come later in the Set, batches of the next 400    *)
(* ms, and the other processes, as the relay is encoded after the local    *)
(* broadcast.  The stored copy is encoded before, and every replay decodes *)
(* it to an object of its own.                                             *)
(***************************************************************************)
EXTENDS Integers, Sequences

CONSTANTS
  Process,
  PublishOnly,      \* processes in the publish mode, without subscribers
  Sub, Home,        \* subscribers of the channel; their processes
  Binary, Poll,     \* those in binary mode; those that are polls
  Message, Stored,  \* messages; those with an expiry, which are saved
  MsPerSec,         \* milliseconds in a second
  Word,             \* 2^32
  Start, MaxNow     \* bounds: the clock

ASSUME ConversionAssumption ==
  /\ PublishOnly \subseteq Process
  /\ Home \in [Sub -> Process \ PublishOnly]
  /\ Binary \subseteq Sub /\ Poll \subseteq Sub /\ Stored \subseteq Message
  /\ MsPerSec \in Nat \ {0} /\ Word \in Nat \ {0}
  /\ MaxNow \in Nat /\ Start \in 0..MaxNow
  /\ \A time \in 0..MaxNow : time \div MsPerSec \in 0..Word - 1

None == -1

VARIABLES
  now,      \* Date.now()
  born,     \* born[m]: when m was created, or None
  origin,   \* origin[m]: the process that created m
  saving,   \* messages that wait for the reply of EXEC
  created,  \* created[p][m]: the field of the object of m in p, or None
  saved,    \* saved[m]: "created" in the stored copy of m, or None
  relay,    \* relay[p]: the messages relayed to p, in order
  members,  \* the connections of the channel, in the Set of their process
  earlier,  \* earlier[s]: those that were added to the Set before s
  buffer,   \* buffer[s]: the messages in responseBatch of a websocket
  timer,    \* timer[s]: whether cacheTimeoutId is set
  got,      \* history: got[s]: what a binary s read in the last step
  texts     \* history: texts[p]: messages converted in p from p's object

vars == <<now, born, origin, saving, created, saved, relay, members, earlier,
          buffer, timer, got, texts>>

Nothing == [s \in Binary |-> {}]

Init ==
  /\ now = Start
  /\ born = [m \in Message |-> None]
  /\ origin \in [Message -> Process]
  /\ saving = {}
  /\ created = [p \in Process |-> [m \in Message |-> None]]
  /\ saved = [m \in Message |-> None]
  /\ relay = [p \in Process |-> <<>>]
  /\ members = {} /\ earlier = [s \in Sub |-> {}]
  /\ buffer = [s \in Sub |-> {}]
  /\ timer = [s \in Sub |-> FALSE]
  /\ got = Nothing
  /\ texts = [p \in Process |-> {}]

(* OutgoingMessage.encode and decode: "created" is a fixed32. *)
Fixed32(ms) == ms % Word

(* createMessage. *)
Created(ms) == ms \div MsPerSec

-----------------------------------------------------------------------------
(***************************************************************************)
(* What a binary subscriber reads in m: the time it decodes, and of which  *)
(* object - p's, "fresh" or converted for a text subscriber, in p or in    *)
(* the process that published m; or one decoded from the stored copy.      *)
(***************************************************************************)
Reading(m, time, object) == [msg |-> m, time |-> Fixed32(time), object |-> object]

IsConverted(p, m) == m \in texts[p] \/ m \in texts[origin[m]]

ReadingIn(p, m, time, converted) ==
  Reading(m, time, IF converted \/ IsConverted(p, m) THEN "converted" ELSE "fresh")

OnlyTo(s, readings) == [b \in Binary |-> IF b = s THEN readings ELSE {}]

(* convertIncomingMessagesResponse: the messages ms of p's objects. *)
Convert(p, ms) ==
  /\ created' = [created EXCEPT ![p] = [m \in Message |-> IF m \in ms THEN now ELSE @[m]]]
  /\ texts' = [texts EXCEPT ![p] = @ \cup ms]

(* WebSocket.dispatch: a batch is written. *)
Dispatch(s, ms) ==
  LET p == Home[s] IN
  /\ got' = OnlyTo(s, {ReadingIn(p, m, created[p][m], FALSE) : m \in ms})
  /\ IF s \in Binary THEN UNCHANGED <<created, texts>> ELSE Convert(p, ms)

(* A new object of m in p that nobody is sent yet. *)
Hold(p, m, time) ==
  /\ created' = [created EXCEPT ![p][m] = time]
  /\ got' = Nothing
  /\ UNCHANGED <<members, earlier, buffer, timer, texts>>

-----------------------------------------------------------------------------
(***************************************************************************)
(* send: a websocket that wrote in the last 400 ms buffers; any other      *)
(* connection is written to, a poll for the last time.                     *)
(***************************************************************************)
AtOnce(s) == s \in Poll \/ ~timer[s]

Members(p) == {s \in members : Home[s] = p}

(* Whether a text connection is written to before the turn of s. *)
ConvertedBefore(s) == \E t \in earlier[s] : AtOnce(t) /\ t \notin Binary

(* Connections that are no longer in the Set. *)
Remove(left) ==
  /\ members' = members \ left
  /\ earlier' = [s \in Sub |-> IF s \in left THEN {} ELSE earlier[s] \ left]

(***************************************************************************)
(* Adapter.broadcast: one response with the object of m, whose field is    *)
(* "time", for all connections of p, in their order.                       *)
(***************************************************************************)
Broadcast(p, m, time) ==
  LET served == {s \in Members(p) : AtOnce(s)}
      converted == \E s \in served : s \notin Binary
      field(s) == IF ConvertedBefore(s) THEN now ELSE time IN
  /\ created' = [created EXCEPT ![p][m] = IF converted THEN now ELSE time]
  /\ texts' = [texts EXCEPT ![p] = IF converted THEN @ \cup {m} ELSE @]
  /\ got' = [s \in Binary |-> IF s \in served
                                THEN {ReadingIn(p, m, field(s), ConvertedBefore(s))} ELSE {}]
  /\ Remove(Members(p) \cap Poll)
  /\ buffer' = [s \in Sub |-> IF s \in Members(p) \ served THEN buffer[s] \cup {m}
                              ELSE buffer[s]]
  /\ timer' = [s \in Sub |-> timer[s] \/ s \in Members(p) \ Poll]

(* ClusterAdapter.broadcast: the local connections first. *)
LocalBroadcast(p, m, time) ==
  IF p \in PublishOnly THEN Hold(p, m, time) ELSE Broadcast(p, m, time)

(* A process in the publish mode does not subscribe to the relay. *)
Relay(p, m) ==
  relay' = [q \in Process |->
    IF q = p \/ q \in PublishOnly THEN relay[q]
    ELSE Append(relay[q], [msg |-> m, created |-> Fixed32(created'[p][m])])]

-----------------------------------------------------------------------------
(* RedisStorage.set, and the broadcast of a message without expiry. *)
Publish(m) ==
  LET p == origin[m] IN
  /\ born[m] = None
  /\ born' = [born EXCEPT ![m] = now]
  /\ IF m \in Stored
       THEN /\ saving' = saving \cup {m}
            /\ saved' = [saved EXCEPT ![m] = Fixed32(Created(now))]
            /\ Hold(p, m, Created(now))
            /\ UNCHANGED relay
       ELSE /\ LocalBroadcast(p, m, Created(now))
            /\ Relay(p, m)
            /\ UNCHANGED <<saving, saved>>
  /\ UNCHANGED <<now, origin>>

(* The reply of EXEC. *)
Saved(m) ==
  LET p == origin[m] IN
  /\ m \in saving
  /\ saving' = saving \ {m}
  /\ LocalBroadcast(p, m, created[p][m])
  /\ Relay(p, m)
  /\ UNCHANGED <<now, born, origin, saved>>

(* Mutant: a process dates the messages that arrive. *)
RelayedAsNew(p) ==
  /\ relay[p] # <<>>
  /\ Broadcast(p, Head(relay[p]).msg, Created(now))
  /\ relay' = [relay EXCEPT ![p] = Tail(@)]
  /\ UNCHANGED <<now, born, origin, saving, saved>>

(* processIpcMessages: a relayed message is decoded to a new object. *)
Relayed(p) ==
  /\ relay[p] # <<>>
  /\ Broadcast(p, Head(relay[p]).msg, Head(relay[p]).created)
  /\ relay' = [relay EXCEPT ![p] = Tail(@)]
  /\ UNCHANGED <<now, born, origin, saving, saved>>

(* WebSocket.sendBuffer: the batch of the last 400 ms. *)
SendBuffer(s) ==
  /\ timer[s]
  /\ Dispatch(s, buffer[s])
  /\ timer' = [timer EXCEPT ![s] = FALSE]
  /\ buffer' = [buffer EXCEPT ![s] = {}]
  /\ UNCHANGED <<now, born, origin, saving, saved, relay, members, earlier>>

(* Mutant: a replay of the objects that the process has. *)
ReplayFromMemory(s, m) ==
  LET field == created[Home[s]][m] IN
  Reading(m, IF field # None THEN field ELSE saved[m], "stored")

(* RedisStorage.getMessages: an object of its own, decoded. *)
Replay(s, m) == Reading(m, saved[m], "stored")

(* The missed messages: none, or what is stored. *)
Missed == {{}, {m \in Message : saved[m] # None}}

(* A subscriber connects, with the missed messages ms or without; a poll   *)
(* that gets some is answered by them, a websocket is added.               *)
Connect(s, ms) ==
  /\ s \notin members
  /\ got' = OnlyTo(s, {Replay(s, m) : m \in ms})
  /\ IF ms # {} /\ s \in Poll
       THEN UNCHANGED <<members, earlier, timer>>
       ELSE /\ members' = members \cup {s}
            /\ earlier' = [earlier EXCEPT ![s] = Members(Home[s])]
            /\ timer' = [timer EXCEPT ![s] = ms # {}]
  /\ UNCHANGED <<now, born, origin, saving, created, saved, relay, buffer, texts>>

(* A websocket closes, and its batch is dropped; or a poll's client leaves. *)
Leave(s) ==
  /\ s \in members
  /\ Remove({s})
  /\ buffer' = [buffer EXCEPT ![s] = {}]
  /\ timer' = [timer EXCEPT ![s] = FALSE]
  /\ got' = Nothing
  /\ UNCHANGED <<now, born, origin, saving, created, saved, relay, texts>>

Tick ==
  /\ now < MaxNow /\ now' = now + 1
  /\ got' = Nothing
  /\ UNCHANGED <<born, origin, saving, created, saved, relay, members, earlier,
                 buffer, timer, texts>>

Next ==
  \/ \E m \in Message : Publish(m) \/ Saved(m)
  \/ \E p \in Process : Relayed(p)
  \/ \E s \in Sub : SendBuffer(s) \/ Leave(s) \/ \E ms \in Missed : Connect(s, ms)
  \/ Tick

Spec == Init /\ [][Next]_vars

-----------------------------------------------------------------------------
(***************************************************************************)
(* Every variable has its type; the connections of a process are in order, *)
(* and a batch waits only under its timer.                                 *)
(***************************************************************************)
TypeOK ==
  /\ now \in Start..MaxNow
  /\ born \in [Message -> {None} \cup Start..MaxNow]
  /\ origin \in [Message -> Process] /\ saving \subseteq Stored
  /\ created \in [Process -> [Message -> {None} \cup Nat]]
  /\ saved \in [Message -> {None} \cup 0..Word - 1]
  /\ relay \in [Process -> Seq([msg : Message, created : 0..Word - 1])]
  /\ members \subseteq Sub /\ earlier \in [Sub -> SUBSET members]
  /\ \A s, t \in members :
       Home[s] = Home[t] /\ s # t => (s \in earlier[t] <=> t \notin earlier[s])
  /\ buffer \in [Sub -> SUBSET Message] /\ timer \in [Sub -> BOOLEAN]
  /\ \A s \in Sub : (buffer[s] # {} => timer[s]) /\ (timer[s] => s \in members \ Poll)
  /\ texts \in [Process -> SUBSET Message]

(***************************************************************************)
(* A binary subscriber that is sent a message at once or in a batch, here  *)
(* or in another process, reads when it was published - unless a text      *)
(* subscriber was served the same message before, in its process or in the *)
(* one that published it.                                                  *)
(***************************************************************************)
WrongTimeNeedsText ==
  \A s \in Binary : \A g \in got[s] :
    g.object = "fresh" => g.time = born[g.msg] \div MsPerSec

(***************************************************************************)
(* Missed messages are replayed to a binary subscriber with the time of    *)
(* their publication, whoever was sent them before.                        *)
(***************************************************************************)
ReplayTellsPublication ==
  \A s \in Binary : \A g \in got[s] :
    g.object = "stored" => g.time = born[g.msg] \div MsPerSec
=============================================================================
