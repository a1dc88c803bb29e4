----------------------------- MODULE MCRequests -----------------------------
(***************************************************************************)
(* Requests of one server, with its usual routes: two chunks of a body and *)
(* two receivers are the limits.                                           *)
(***************************************************************************)
EXTENDS Requests

MCServer ==
  [pub |-> <<"bitrix", "pub">>, sub |-> <<"bitrix", "sub">>, rest |-> <<"bitrix", "rest">>,
   stat |-> <<"server-stat">>, register |-> <<"register">>, systemctl |-> <<"systemctl">>]

(* Channels of CHANNEL_ID and receivers of messages. *)
Chan(public, key) == [id |-> "a", public |-> public, key |-> key]
To(private, key) == [id |-> "b", private |-> private, key |-> key]
Short == [id |-> "short", private |-> TRUE, key |-> "none"]

Messages(ms) == [command |-> "incomingMessages", messages |-> ms]
Stats(cs) == [command |-> "channelStats", channels |-> cs]
Command(c) == [command |-> c]

Http(method, path, channels, binary, signature, chunks, body) ==
  [via |-> "http", method |-> method, path |-> path, channels |-> channels,
   binary |-> binary, signature |-> signature, chunks |-> chunks, body |-> body,
   url |-> "parses"]

NoBody == Command("garbage")

(* Bodies of the portal and of clients: one message, two of which the      *)
(* second is refused, too many messages or receivers, statistics.          *)
TrustedBodies ==
  {Messages(<<<<To(TRUE, "none")>>, <<To(FALSE, "none"), To(TRUE, "none")>>>>),
   Messages(<<<<To(TRUE, "none")>>, <<Short>>>>),
   Messages(<<<<To(TRUE, "none")>>, <<>>>>),
   Messages([i \in 1..3 |-> <<To(TRUE, "none")>>]),
   Messages(<<[i \in 1..3 |-> To(TRUE, "none")]>>),
   Stats(<<To(TRUE, "none")>>), Stats(<<>>),
   Command("serverStats"), Command("registration"), NoBody}

ClientBodies ==
  {Messages(<<<<To(FALSE, "own")>>>>),
   Messages(<<<<To(FALSE, "client")>>, <<To(FALSE, "client"), To(FALSE, "own")>>>>),
   Messages(<<<<To(FALSE, "client"), To(TRUE, "client")>>>>),
   Stats(<<To(FALSE, "client")>>), Command("serverStats"), Command("registration"), NoBody}

ChannelLists ==
  {<<>>, <<Chan(NoId, "own")>>, <<Chan("p", "own")>>, <<Chan(NoId, "client"), Chan("p", "client")>>}

Posts ==
  {Http("POST", MCServer.pub, <<Chan(NoId, "none")>>, TRUE, key, 1, body) :
     key \in {"none", "own", "client"}, body \in TrustedBodies}
  \cup {Http("POST", MCServer.pub, channels, FALSE, "client", chunks, NoBody) :
     channels \in ChannelLists, chunks \in 0..1}
  \cup {Http("POST", MCServer.rest, channels, FALSE, "none", 2, body) :
     channels \in ChannelLists, body \in ClientBodies}
  \cup {Http("POST", MCServer.pub, <<>>, TRUE, "own", chunks, NoBody) : chunks \in 0..4}

Gets ==
  {Http("GET", MCServer.pub, channels, FALSE, key, 0, NoBody) :
     channels \in ChannelLists, key \in {"none", "client"}}
  \cup {Http("GET", path, <<Chan("p", "client")>>, FALSE, "none", 0, NoBody) :
     path \in {MCServer.sub \o <<"ws">>, MCServer.stat, <<"elsewhere">>}}
  \cup {Http("OPTIONS", MCServer.sub, <<>>, FALSE, "none", 0, NoBody)}

Controls ==
  {Http("POST", MCServer.register, <<>>, FALSE, "none", chunks, Command(c)) :
     chunks \in 0..2, c \in {"verificationQuery", "noQuery"}}
  \cup {Http("POST", MCServer.systemctl, <<>>, FALSE, key, chunks, Command(c)) :
     key \in {"none", "own"}, chunks \in 0..1,
     c \in {"garbage", "noMethod", "noParams", "unregister", "otherMethod"}}

Upgrades ==
  {[Http("GET", path, channels, binary, "none", 0, NoBody) EXCEPT !.via = "upgrade"] :
     path \in {MCServer.sub, MCServer.sub \o <<"ws">>}, channels \in ChannelLists,
     binary \in BOOLEAN}

(* One of every route, whose URL does not parse: the Host is malformed. *)
Malformeds ==
  {[k EXCEPT !.url = "malformed"] : k \in
     {Http("POST", MCServer.pub, <<Chan(NoId, "none")>>, TRUE, "client", 1,
           Messages(<<<<To(TRUE, "none")>>>>)),
      Http("GET", MCServer.pub, <<Chan("p", "client")>>, FALSE, "client", 0, NoBody),
      Http("GET", MCServer.sub \o <<"ws">>, <<Chan("p", "client")>>, FALSE, "none", 0, NoBody),
      Http("POST", MCServer.rest, <<Chan("p", "client")>>, FALSE, "none", 1, Stats(<<>>)),
      Http("GET", MCServer.stat, <<>>, FALSE, "none", 0, NoBody),
      Http("POST", MCServer.systemctl, <<>>, FALSE, "own", 1, Command("unregister")),
      [Http("GET", MCServer.sub, <<Chan("p", "client")>>, TRUE, "none", 0, NoBody)
         EXCEPT !.via = "upgrade"]}
     \cup {Http("POST", MCServer.register, <<>>, FALSE, "none", chunks, Command(c)) :
             chunks \in 0..1, c \in {"verificationQuery", "noQuery"}}}

CONSTANTS r1, r2

(* The second request is a publish, statistics or an oversized body. *)
Few ==
  {Http("POST", MCServer.pub, <<Chan(NoId, "none")>>, TRUE, "client", 1,
        Messages(<<<<To(TRUE, "none")>>>>)),
   Http("GET", MCServer.stat, <<>>, FALSE, "none", 0, NoBody),
   Http("POST", MCServer.rest, <<>>, FALSE, "none", 4, NoBody)}

MCKinds == (r1 :> Posts \cup Gets \cup Controls \cup Upgrades \cup Malformeds) @@ (r2 :> Few)
MCFrames == ClientBodies
=============================================================================
