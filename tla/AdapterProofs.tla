--------------------------- MODULE AdapterProofs ----------------------------
(***************************************************************************)
(* Type correctness and safety of the connection registry, for any number  *)
(* of connections, channels and receivers.  The first part has the facts   *)
(* about insertion-ordered Sets and the loops of the registry that every   *)
(* proof about it needs, and ends with the theorem of the types.  The      *)
(* second part is about who is registered, when a channel may have at      *)
(* least two members and a public id belongs to one private id.  (With a   *)
(* limit of one the registry loses connections: see                        *)
(* OpenSubscriberIsRegistered in Adapter.)                                 *)
(* The third part is about what the registry keeps about its channels, and *)
(* whom it drops: the counters are exact, a channel keeps to its limit, a  *)
(* public id goes with its last member, a newcomer displaces nobody but    *)
(* the oldest.  Its invariant is proved on top of that of the second part, *)
(* and the loops are taken through both: a loop keeps what each round of   *)
(* it keeps (SendAllKeeps, SendToReceiversKeeps, AddChannelsKeeps).  With  *)
(* these the registry implements the directory of ChannelDirectory.        *)
(***************************************************************************)
EXTENDS Adapter, SequenceTheorems, FiniteSetTheorems, LoopTheorems

(***************************************************************************)
(* Removing a member from a Set kept in insertion order.                   *)
(***************************************************************************)
LEMMA RemoveAtPosition ==
  ASSUME NEW S, NEW q \in Seq(S), NEW k \in 1..Len(q)
  PROVE  /\ RemoveAt(q, k) \in Seq(S)
         /\ Len(RemoveAt(q, k)) = Len(q) - 1
         /\ \A j \in 1..(Len(q) - 1) :
              RemoveAt(q, k)[j] = IF j < k THEN q[j] ELSE q[j+1]
<1> DEFINE a == SubSeq(q, 1, k - 1)
           b == SubSeq(q, k + 1, Len(q))
<1>1. /\ a \in Seq(S) /\ Len(a) = k - 1
      /\ \A j \in 1..(k - 1) : a[j] = q[j]
  OBVIOUS
<1>2. /\ b \in Seq(S) /\ Len(b) = Len(q) - k
      /\ \A j \in 1..(Len(q) - k) : b[j] = q[k + j]
  OBVIOUS
<1>3. RemoveAt(q, k) = a \o b
  BY DEF RemoveAt
<1> HIDE DEF a, b
<1>4. a \o b \in Seq(S) /\ Len(a \o b) = Len(q) - 1
  <2>1. a \o b \in Seq(S)
    BY <1>1, <1>2
  <2>2. Len(a \o b) = Len(a) + Len(b)
    BY <1>1, <1>2, ConcatProperties
  <2>3. Len(q) \in Nat
    OBVIOUS
  <2> QED BY <1>1, <1>2, <2>1, <2>2, <2>3
<1>5. ASSUME NEW j \in 1..(Len(q) - 1)
      PROVE  (a \o b)[j] = IF j < k THEN q[j] ELSE q[j+1]
  <2>1. CASE j < k
    BY <1>1, <1>2, <2>1
  <2>2. CASE ~(j < k)
    <3>1. j - (k - 1) \in 1..Len(b)
      BY <1>2, <2>2
    <3>2. (a \o b)[j] = b[j - (k - 1)]
      BY <1>1, <1>2, <2>2, <3>1
    <3>3. b[j - (k - 1)] = q[j + 1]
      BY <1>2, <3>1
    <3> QED BY <2>2, <3>2, <3>3
  <2> QED BY <2>1, <2>2
<1> QED BY <1>3, <1>4, <1>5

LEMMA RemoveFirstIsRemoveAt ==
  ASSUME NEW S, NEW q \in Seq(S), IsInjective(q), NEW k \in 1..Len(q)
  PROVE  RemoveFirst(q, q[k]) = RemoveAt(q, k)
<1>1. {i \in 1..Len(q) : q[i] = q[k]} = {k}
  BY DEF IsInjective
<1>2. Min({k}) = k
  BY DEF Min
<1>3. SelectInSeq(q, LAMBDA v : v = q[k]) = k
  BY <1>1, <1>2 DEF SelectInSeq
<1> QED BY <1>3 DEF RemoveFirst

LEMMA RemoveFirstAbsent ==
  ASSUME NEW S, NEW q \in Seq(S), NEW e, e \notin ToSet(q)
  PROVE  RemoveFirst(q, e) = q
BY DEF RemoveFirst, ToSet

LEMMA RemoveFirstPresent ==
  ASSUME NEW S, NEW q \in Seq(S), IsInjective(q), NEW e \in ToSet(q)
  PROVE  /\ RemoveFirst(q, e) \in Seq(S)
         /\ IsInjective(RemoveFirst(q, e))
         /\ Len(RemoveFirst(q, e)) = Len(q) - 1
         /\ ToSet(RemoveFirst(q, e)) = ToSet(q) \ {e}
         /\ \A x : x # e /\ (\A j \in 1..Len(q) : q[j] = x => j = Len(q))
              => \A j \in 1..(Len(q) - 1) :
                   RemoveFirst(q, e)[j] = x => j = Len(q) - 1
<1>1. PICK k \in 1..Len(q) : q[k] = e
  BY DEF ToSet
<1> DEFINE r == RemoveFirst(q, e)
<1>2. r = RemoveAt(q, k)
  BY <1>1, RemoveFirstIsRemoveAt
<1>3. /\ r \in Seq(S)
      /\ Len(r) = Len(q) - 1
      /\ \A j \in 1..(Len(q) - 1) : r[j] = IF j < k THEN q[j] ELSE q[j+1]
  BY <1>2, RemoveAtPosition
<1> HIDE DEF r
<1>4. IsInjective(r)
  BY <1>3 DEF IsInjective
<1>5. ToSet(r) = ToSet(q) \ {e}
  <2>1. ASSUME NEW x \in ToSet(r) PROVE x \in ToSet(q) /\ x # e
    BY <1>1, <1>3 DEF ToSet, IsInjective
  <2>2. ASSUME NEW x \in ToSet(q), x # e PROVE x \in ToSet(r)
    <3>1. PICK i \in 1..Len(q) : q[i] = x
      BY DEF ToSet
    <3>2. CASE i < k
      <4>1. i \in 1..Len(r) /\ r[i] = x
        BY <1>3, <3>1, <3>2
      <4> QED BY <4>1, <1>3 DEF ToSet
    <3>3. CASE i > k
      <4>1. i - 1 \in 1..Len(r) /\ r[i - 1] = x
        BY <1>3, <3>1, <3>3
      <4> QED BY <4>1, <1>3 DEF ToSet
    <3> QED BY <1>1, <2>2, <3>1, <3>2, <3>3
  <2> QED BY <2>1, <2>2
<1>6. ASSUME NEW x, x # e, \A j \in 1..Len(q) : q[j] = x => j = Len(q),
             NEW j \in 1..(Len(q) - 1), r[j] = x
      PROVE  j = Len(q) - 1
  BY <1>1, <1>3, <1>6
<1> QED BY <1>3, <1>4, <1>5, <1>6 DEF r

-----------------------------------------------------------------------------
(***************************************************************************)
(* Types.                                                                  *)
(***************************************************************************)

States ==
  {s \in [connections : [Private -> Seq(Connections)],
          pubChannels : [Public -> Private \cup {NoId}],
          websockets : Int, pollings : Int,
          active : [Connections -> BOOLEAN],
          socket : [Connections -> Socket],
          stage : [Connections -> Stage]] :
     \A p \in Private : IsInjective(s.connections[p])}

LEMMA ChannelType ==
  ASSUME NEW c \in Connections
  PROVE  /\ Channels[c] \in Seq(Channel)
         /\ Len(Channels[c]) \in Nat
         /\ DOMAIN Channels[c] = 1..Len(Channels[c])
         /\ \A i \in 1..Len(Channels[c]) :
              /\ Channels[c][i] \in Channel
              /\ Channels[c][i].private \in Private
              /\ Channels[c][i].public \in Public \cup {NoId}
         /\ PrivateIds(c) \subseteq Private
<1>1. Channels[c] \in Seq(Channel)
  BY AdapterAssumption
<1>2. /\ Len(Channels[c]) \in Nat
      /\ DOMAIN Channels[c] = 1..Len(Channels[c])
      /\ \A i \in 1..Len(Channels[c]) : Channels[c][i] \in Channel
  BY <1>1
<1>3. \A ch \in Channel : ch.private \in Private /\ ch.public \in Public \cup {NoId}
  BY DEF Channel
<1> QED BY <1>1, <1>2, <1>3 DEF PrivateIds

LEMMA RemoveFirstType ==
  ASSUME NEW S, NEW q \in Seq(S), IsInjective(q), NEW e
  PROVE  /\ RemoveFirst(q, e) \in Seq(S)
         /\ IsInjective(RemoveFirst(q, e))
         /\ ToSet(RemoveFirst(q, e)) = ToSet(q) \ {e}
BY RemoveFirstAbsent, RemoveFirstPresent

LEMMA CountType ==
  ASSUME NEW s \in States, NEW c \in Connections, NEW n \in Int
  PROVE  Count(s, c, n) \in States
<1>1. s.websockets + n \in Int /\ s.pollings + n \in Int
  BY DEF States
<1>2. [s EXCEPT !.websockets = s.websockets + n] \in States
  BY <1>1 DEF States
<1>3. [s EXCEPT !.pollings = s.pollings + n] \in States
  BY <1>1 DEF States
<1> QED BY <1>2, <1>3 DEF Count

LEMMA DeleteType ==
  ASSUME NEW s \in States, NEW c \in Connections
  PROVE  Delete(s, c) \in States
<1> DEFINE conns == [p \in Private |->
                       IF p \in PrivateIds(c) THEN RemoveFirst(s.connections[p], c)
                                              ELSE s.connections[p]]
           pubs == [q \in Public |->
                      IF q \in ReleasedPublicIds(s, c) THEN NoId ELSE s.pubChannels[q]]
           t == [s EXCEPT !.connections = conns, !.pubChannels = pubs]
<1>1. /\ conns \in [Private -> Seq(Connections)]
      /\ \A p \in Private : IsInjective(conns[p])
  BY RemoveFirstType DEF States
<1>2. pubs \in [Public -> Private \cup {NoId}]
  BY DEF States
<1>3. Delete(s, c) = IF Registered(s, c) THEN Count(t, c, -1) ELSE t
  BY DEF Delete
<1> HIDE DEF conns, pubs
<1>4. t \in States
  BY <1>1, <1>2 DEF States
<1>5. Count(t, c, -1) \in States
  <2> HIDE DEF t
  <2> QED BY <1>4, CountType
<1> QED BY <1>3, <1>4, <1>5

LEMMA CloseType ==
  ASSUME NEW s \in States, NEW c \in Connections
  PROVE  EmitClose(s, c) \in States /\ Close(s, c) \in States
<1>1. ASSUME NEW t \in States PROVE EmitClose(t, c) \in States
  <2>1. [t EXCEPT !.active[c] = FALSE] \in States
    BY DEF States
  <2> QED BY <2>1, DeleteType DEF EmitClose
<1>2. [s EXCEPT !.active[c] = FALSE,
                !.socket[c] = IF @ = "open" THEN "closing" ELSE @] \in States
  BY DEF States, Socket
<1> QED BY <1>1, <1>2 DEF Close

LEMMA MakeRoomType ==
  ASSUME NEW s \in States, NEW ch \in Channel
  PROVE  MakeRoom(s, ch) \in States
<1>1. CASE Full(s, ch)
  <2>1. ch.private \in Private
    BY DEF Channel
  <2>2. Head(s.connections[ch.private]) \in Connections
    BY <1>1, <2>1 DEF States, Full
  <2> QED BY <1>1, <2>2, DeleteType, CloseType DEF MakeRoom
<1>2. CASE ~Full(s, ch)
  BY <1>2 DEF MakeRoom
<1> QED BY <1>1, <1>2

LEMMA AppendType ==
  ASSUME NEW S, NEW q \in Seq(S), NEW e \in S, IsInjective(q), e \notin ToSet(q)
  PROVE  /\ Append(q, e) \in Seq(S)
         /\ IsInjective(Append(q, e))
         /\ ToSet(Append(q, e)) = ToSet(q) \cup {e}
<1>1. /\ Append(q, e) \in Seq(S)
      /\ Len(Append(q, e)) = Len(q) + 1
      /\ \A i \in 1..Len(q) : Append(q, e)[i] = q[i]
      /\ Append(q, e)[Len(q) + 1] = e
      /\ DOMAIN Append(q, e) = 1..(Len(q) + 1)
      /\ DOMAIN q = 1..Len(q)
      /\ Len(q) \in Nat
  BY AppendProperties
<1>2. \A i \in 1..Len(q) : q[i] # e
  BY DEF ToSet
<1>3. \A i \in 1..(Len(q) + 1) : i \in 1..Len(q) \/ i = Len(q) + 1
  BY <1>1
<1>4. \A i \in 1..Len(q) : i \in 1..(Len(q) + 1)
  BY <1>1
<1>5. Len(q) + 1 \in 1..(Len(q) + 1)
  BY <1>1
<1>6. IsInjective(Append(q, e))
  BY <1>1, <1>2, <1>3 DEF IsInjective
<1>7. ToSet(Append(q, e)) = ToSet(q) \cup {e}
  BY <1>1, <1>3, <1>4, <1>5 DEF ToSet
<1> QED BY <1>1, <1>6, <1>7

LEMMA EntryType ==
  ASSUME NEW s \in States, NEW p \in Private,
         NEW q \in Seq(Connections), IsInjective(q)
  PROVE  [s EXCEPT !.connections[p] = q] \in States
<1>1. [s.connections EXCEPT ![p] = q] \in [Private -> Seq(Connections)]
  BY DEF States
<1>2. \A r \in Private : IsInjective([s.connections EXCEPT ![p] = q][r])
  BY DEF States
<1> QED BY <1>1, <1>2 DEF States

LEMMA PublicEntryType ==
  ASSUME NEW s \in States, NEW q \in Public, NEW p \in Private
  PROVE  [s EXCEPT !.pubChannels[q] = p] \in States
BY DEF States

LEMMA JoinType ==
  ASSUME NEW s \in States, NEW c \in Connections, NEW ch \in Channel
  PROVE  Join(s, c, ch) \in States
<1> DEFINE q == s.connections[ch.private]
<1>1. ch.private \in Private /\ q \in Seq(Connections) /\ IsInjective(q)
  BY DEF Channel, States
<1>2. CASE c \in ToSet(q)
  <2>1. Join(s, c, ch) = [s EXCEPT !.connections[ch.private] = q]
    BY <1>1, <1>2 DEF Join, States
  <2> HIDE DEF q
  <2> QED BY <1>1, <2>1, EntryType
<1>3. CASE c \notin ToSet(q)
  <2>1. Append(q, c) \in Seq(Connections) /\ IsInjective(Append(q, c))
    BY <1>1, <1>3, AppendType
  <2>2. Join(s, c, ch) = [s EXCEPT !.connections[ch.private] = Append(q, c)]
    BY <1>1, <1>3 DEF Join, States
  <2> HIDE DEF q
  <2> QED BY <1>1, <2>1, <2>2, EntryType
<1> QED BY <1>2, <1>3

LEMMA AddChannelType ==
  ASSUME NEW s \in States, NEW c \in Connections, NEW ch \in Channel
  PROVE  AddChannel(s, c, ch) \in States
<1> DEFINE t == MakeRoom(s, ch)
           u == IF Full(s, ch) /\ t.connections[ch.private] = <<>>
                  THEN t ELSE Join(t, c, ch)
<1>1. u \in States
  BY MakeRoomType, JoinType
<1>2. AddChannel(s, c, ch) =
        IF ch.public = NoId THEN u
                            ELSE [u EXCEPT !.pubChannels[ch.public] = ch.private]
  BY DEF AddChannel
<1> HIDE DEF u
<1>3. CASE ch.public # NoId
  <2>1. ch.public \in Public /\ ch.private \in Private
    BY <1>3 DEF Channel
  <2> QED BY <1>1, <1>2, <1>3, <2>1, PublicEntryType
<1> QED BY <1>1, <1>2, <1>3

(***************************************************************************)
(* The loop of Adapter.add, round by round.                                *)
(***************************************************************************)
LEMMA AddChannelsRounds ==
  ASSUME NEW s \in States, NEW c \in Connections
  PROVE  \E f \in [0..Len(Channels[c]) -> States] :
           /\ f[0] = s
           /\ \A i \in 1..Len(Channels[c]) :
                f[i] = AddChannel(f[i-1], c, Channels[c][i])
           /\ AddChannels(s, c) = f[Len(Channels[c])]
<1> DEFINE n == Len(Channels[c])
           Round(x, i) == AddChannel(x, c, Channels[c][i])
           G == [xi \in States \X (1..n) |-> Round(xi[1], xi[2])]
           Eq(g) == g = [i \in 0..n |-> IF i = 0 THEN s ELSE Round(g[i-1], i)]
           run == CHOOSE g : Eq(g)
<1>0. n \in Nat
  BY ChannelType
<1>1. \A x \in States, i \in 1..n : Round(x, i) \in States
  BY AddChannelType, ChannelType
<1> HIDE DEF n, Round
<1>2. G \in [States \X (1..n) -> States]
  BY <1>1
<1>3. PICK f \in [0..n -> States] : IsRun(f, n, s, G)
  <2> HIDE DEF G
  <2> QED BY <1>0, <1>2, LoopExists, Zenon
<1>4. f[0] = s /\ \A i \in 1..n : f[i] = G[<<f[i-1], i>>]
  <2> HIDE DEF G
  <2> QED BY <1>3 DEF IsRun
<1>5. ASSUME NEW i \in 1..n PROVE f[i] = Round(f[i-1], i)
  <2>1. f[i-1] \in States
    BY <1>0
  <2>2. G[<<f[i-1], i>>] = Round(f[i-1], i)
    BY <2>1
  <2> QED BY <1>4, <2>2
<1>6. \A i \in 0..n : f[i] = IF i = 0 THEN s ELSE Round(f[i-1], i)
  BY <1>0, <1>4, <1>5
<1>7. Eq(f)
  BY <1>6
<1>8. Eq(run)
  BY <1>7
<1> HIDE DEF run, G
<1>9. 0..n \subseteq {i \in 0..n : run[i] = f[i]}
  <2>1. 0 \in {i \in 0..n : run[i] = f[i]}
    BY <1>0, <1>4, <1>8
  <2>2. ASSUME NEW k \in 1..n, k - 1 \in {i \in 0..n : run[i] = f[i]}
        PROVE  k \in {i \in 0..n : run[i] = f[i]}
    BY <1>0, <1>5, <1>8, <2>2
  <2> QED BY <1>0, <2>1, <2>2, UpToInduction
<1>10. run[n] = f[n]
  BY <1>0, <1>9
<1>11. AddChannels(s, c) = run[n]
  BY DEF AddChannels, run, n, Round
<1> QED BY <1>4, <1>5, <1>10, <1>11 DEF n, Round

(***************************************************************************)
(* The loops of Adapter.broadcast.                                         *)
(***************************************************************************)
LEMMA SendType ==
  ASSUME NEW s \in States, NEW c \in Connections
  PROVE  Send(s, c) \in States
BY CloseType DEF Send

LEMMA SendAllRounds ==
  ASSUME NEW s \in States, NEW members \in Seq(Connections)
  PROVE  \E f \in [0..Len(members) -> States] :
           /\ f[0] = s
           /\ \A i \in 1..Len(members) : f[i] = Send(f[i-1], members[i])
           /\ SendAll(s, members) = f[Len(members)]
<1> DEFINE n == Len(members)
           Round(x, i) == Send(x, members[i])
           G == [xi \in States \X (1..n) |-> Round(xi[1], xi[2])]
           Eq(g) == g = [i \in 0..n |-> IF i = 0 THEN s ELSE Round(g[i-1], i)]
           run == CHOOSE g : Eq(g)
<1>0. n \in Nat
  OBVIOUS
<1>1. \A x \in States, i \in 1..n : Round(x, i) \in States
  BY SendType
<1> HIDE DEF n, Round
<1>2. G \in [States \X (1..n) -> States]
  BY <1>1
<1>3. PICK f \in [0..n -> States] : IsRun(f, n, s, G)
  <2> HIDE DEF G
  <2> QED BY <1>0, <1>2, LoopExists, Zenon
<1>4. f[0] = s /\ \A i \in 1..n : f[i] = G[<<f[i-1], i>>]
  <2> HIDE DEF G
  <2> QED BY <1>3 DEF IsRun
<1>5. ASSUME NEW i \in 1..n PROVE f[i] = Round(f[i-1], i)
  <2>1. f[i-1] \in States
    BY <1>0
  <2>2. G[<<f[i-1], i>>] = Round(f[i-1], i)
    BY <2>1
  <2> QED BY <1>4, <2>2
<1>6. \A i \in 0..n : f[i] = IF i = 0 THEN s ELSE Round(f[i-1], i)
  BY <1>0, <1>4, <1>5
<1>7. Eq(f)
  BY <1>6
<1>8. Eq(run)
  BY <1>7
<1> HIDE DEF run, G
<1>9. 0..n \subseteq {i \in 0..n : run[i] = f[i]}
  <2>1. 0 \in {i \in 0..n : run[i] = f[i]}
    BY <1>0, <1>4, <1>8
  <2>2. ASSUME NEW k \in 1..n, k - 1 \in {i \in 0..n : run[i] = f[i]}
        PROVE  k \in {i \in 0..n : run[i] = f[i]}
    BY <1>0, <1>5, <1>8, <2>2
  <2> QED BY <1>0, <2>1, <2>2, UpToInduction
<1>10. run[n] = f[n]
  BY <1>0, <1>9
<1>11. SendAll(s, members) = run[n]
  BY DEF SendAll, run, n, Round
<1> QED BY <1>4, <1>5, <1>10, <1>11 DEF n, Round

LEMMA SendToType ==
  ASSUME NEW s \in States, NEW r \in Receiver
  PROVE  SendTo(s, r) \in States
<1>1. Resolve(s, r) \in Private \cup {NoId}
  BY DEF Resolve, Receiver, States
<1>2. CASE Resolve(s, r) = NoId
  BY <1>2 DEF SendTo
<1>3. CASE Resolve(s, r) # NoId
  <2>1. s.connections[Resolve(s, r)] \in Seq(Connections)
    BY <1>1, <1>3 DEF States
  <2>2. Len(s.connections[Resolve(s, r)]) \in 0..Len(s.connections[Resolve(s, r)])
    BY <2>1
  <2> QED BY <1>3, <2>1, <2>2, SendAllRounds DEF SendTo
<1> QED BY <1>2, <1>3

LEMMA SendToReceiversRounds ==
  ASSUME NEW s \in States, NEW rs \in Seq(Receiver)
  PROVE  \E f \in [0..Len(rs) -> States] :
           /\ f[0] = s
           /\ \A i \in 1..Len(rs) : f[i] = SendTo(f[i-1], rs[i])
           /\ SendToReceivers(s, rs) = f[Len(rs)]
<1> DEFINE n == Len(rs)
           Round(x, i) == SendTo(x, rs[i])
           G == [xi \in States \X (1..n) |-> Round(xi[1], xi[2])]
           Eq(g) == g = [i \in 0..n |-> IF i = 0 THEN s ELSE Round(g[i-1], i)]
           run == CHOOSE g : Eq(g)
<1>0. n \in Nat
  OBVIOUS
<1>1. \A x \in States, i \in 1..n : Round(x, i) \in States
  BY SendToType
<1> HIDE DEF n, Round
<1>2. G \in [States \X (1..n) -> States]
  BY <1>1
<1>3. PICK f \in [0..n -> States] : IsRun(f, n, s, G)
  <2> HIDE DEF G
  <2> QED BY <1>0, <1>2, LoopExists, Zenon
<1>4. f[0] = s /\ \A i \in 1..n : f[i] = G[<<f[i-1], i>>]
  <2> HIDE DEF G
  <2> QED BY <1>3 DEF IsRun
<1>5. ASSUME NEW i \in 1..n PROVE f[i] = Round(f[i-1], i)
  <2>1. f[i-1] \in States
    BY <1>0
  <2>2. G[<<f[i-1], i>>] = Round(f[i-1], i)
    BY <2>1
  <2> QED BY <1>4, <2>2
<1>6. \A i \in 0..n : f[i] = IF i = 0 THEN s ELSE Round(f[i-1], i)
  BY <1>0, <1>4, <1>5
<1>7. Eq(f)
  BY <1>6
<1>8. Eq(run)
  BY <1>7
<1> HIDE DEF run, G
<1>9. 0..n \subseteq {i \in 0..n : run[i] = f[i]}
  <2>1. 0 \in {i \in 0..n : run[i] = f[i]}
    BY <1>0, <1>4, <1>8
  <2>2. ASSUME NEW k \in 1..n, k - 1 \in {i \in 0..n : run[i] = f[i]}
        PROVE  k \in {i \in 0..n : run[i] = f[i]}
    BY <1>0, <1>5, <1>8, <2>2
  <2> QED BY <1>0, <2>1, <2>2, UpToInduction
<1>10. run[n] = f[n]
  BY <1>0, <1>9
<1>11. SendToReceivers(s, rs) = run[n]
  BY DEF SendToReceivers, run, n, Round
<1> QED BY <1>4, <1>5, <1>10, <1>11 DEF n, Round

(***************************************************************************)
(* Every callback leaves a state of the right type.                        *)
(***************************************************************************)
LEMMA AddType ==
  ASSUME NEW s \in States, NEW c \in Connections
  PROVE  Add(s, c) \in States
<1>1. AddChannels(Count(s, c, 1), c) \in States
  <2>1. Count(s, c, 1) \in States
    BY CountType
  <2>2. Len(Channels[c]) \in 0..Len(Channels[c])
    BY ChannelType
  <2> QED BY <2>1, <2>2, AddChannelsRounds
<1>2. ASSUME NEW t \in States, NEW v \in Stage
      PROVE  [t EXCEPT !.stage[c] = v] \in States
  BY DEF States
<1>3. "added" \in Stage /\ "refused" \in Stage
  BY DEF Stage
<1> QED BY <1>1, <1>2, <1>3 DEF Add

LEMMA StateType == TypeOK <=> State \in States
BY DEF TypeOK, State, States

LEMMA BecomesType ==
  ASSUME NEW t \in States, Becomes(t)
  PROVE  TypeOK'
BY DEF Becomes, States, TypeOK

LEMMA FieldType ==
  ASSUME NEW s \in States, NEW c \in Connections
  PROVE  /\ \A v \in BOOLEAN : [s EXCEPT !.active[c] = v] \in States
         /\ \A v \in Socket : [s EXCEPT !.socket[c] = v] \in States
         /\ \A v \in Stage : [s EXCEPT !.stage[c] = v] \in States
         /\ \A v \in BOOLEAN, w \in Socket :
              [s EXCEPT !.active[c] = v, !.socket[c] = w] \in States
BY DEF States

(* Every variable keeps its type, for every instance of the registry. *)
THEOREM TypeCorrect == Spec => []TypeOK
<1>1. Init => TypeOK
  <2>1. IsInjective(<<>>)
    BY DEF IsInjective
  <2> QED BY <2>1 DEF Init, TypeOK, Socket, Stage
<1>2. TypeOK /\ [Next]_vars => TypeOK'
  <2> SUFFICES ASSUME TypeOK, [Next]_vars PROVE TypeOK'
    OBVIOUS
  <2>0. State \in States
    BY StateType
  <2>a. {"open", "closing", "closed", "terminated"} \subseteq Socket
        /\ {"loading", "refused"} \subseteq Stage
    BY DEF Socket, Stage
  <2>1. ASSUME NEW c \in Connections, Subscribe(c) PROVE TypeOK'
    <3>1. PICK now \in {"open", "closed"} :
            LET s == [State EXCEPT !.active[c] = TRUE, !.socket[c] = now]
            IN  Becomes(IF Channels[c] = <<>>
                          THEN [Close(s, c) EXCEPT !.stage[c] = "refused"]
                        ELSE IF c \in WithMid
                          THEN [s EXCEPT !.stage[c] = "loading"]
                          ELSE Add(s, c))
      BY <2>1 DEF Subscribe
    <3> DEFINE s == [State EXCEPT !.active[c] = TRUE, !.socket[c] = now]
    <3>2. s \in States
      BY <2>0, <2>a, FieldType
    <3> HIDE DEF s
    <3>3. [Close(s, c) EXCEPT !.stage[c] = "refused"] \in States
      BY <2>a, <3>2, CloseType, FieldType
    <3>4. [s EXCEPT !.stage[c] = "loading"] \in States
      BY <2>a, <3>2, FieldType
    <3>5. Add(s, c) \in States
      BY <3>2, AddType
    <3>6. \E t \in States : Becomes(t)
      BY <3>1, <3>3, <3>4, <3>5 DEF s
    <3> QED BY <3>6, BecomesType
  <2>2. ASSUME NEW c \in Connections, Loaded(c) PROVE TypeOK'
    BY <2>0, <2>2, SendType, AddType, BecomesType DEF Loaded
  <2>3. ASSUME NEW c \in Connections, LoadFailed(c) PROVE TypeOK'
    BY <2>0, <2>a, <2>3, CloseType, FieldType, BecomesType DEF LoadFailed
  <2>4. ASSUME NEW c \in Connections, PollTimeout(c) PROVE TypeOK'
    BY <2>0, <2>4, CloseType, BecomesType DEF PollTimeout
  <2>5. ASSUME NEW c \in Connections, Ping(c) PROVE TypeOK'
    BY <2>0, <2>a, <2>5, FieldType, BecomesType DEF Ping
  <2>6. ASSUME NEW c \in Connections, Pong(c) PROVE TypeOK'
    BY <2>0, <2>6, FieldType, BecomesType DEF Pong
  <2>7. ASSUME NEW c \in Connections, PeerCloses(c) PROVE TypeOK'
    BY <2>0, <2>a, <2>7, FieldType, BecomesType DEF PeerCloses
  <2>8. ASSUME NEW c \in Connections, SocketClosed(c) PROVE TypeOK'
    BY <2>0, <2>a, <2>8, FieldType, CloseType, BecomesType DEF SocketClosed
  <2>9. ASSUME NEW rs \in Messages, Broadcast(rs) PROVE TypeOK'
    <3>1. rs \in Seq(Receiver) /\ Len(rs) \in 0..Len(rs)
      BY AdapterAssumption DEF Messages
    <3>2. SendToReceivers(State, rs) \in States
      BY <2>0, <3>1, SendToReceiversRounds
    <3> QED BY <2>9, <3>2, BecomesType DEF Broadcast
  <2>10. CASE UNCHANGED vars
    BY <2>10 DEF vars, TypeOK
  <2> QED BY <2>1, <2>2, <2>3, <2>4, <2>5, <2>6, <2>7, <2>8, <2>9, <2>10 DEF Next
<1> QED BY <1>1, <1>2, PTL DEF Spec

-----------------------------------------------------------------------------
(***************************************************************************)
(* Safety.                                                                 *)
(***************************************************************************)

LimitAboveOne == MaxConnPerChannel >= 2

(***************************************************************************)
(* The inductive invariant, on a state s.  While Adapter.add runs through  *)
(* the channels of a newcomer, or delete and close take a connection out,  *)
(* that one connection is exempt: X is empty between callbacks.            *)
(***************************************************************************)
In(s, c, p) == c \in ToSet(s.connections[p])

(* A member lists the channel and was added. *)
Enrolled(s, X) ==
  \A c \in Connections \ X : \A p \in Private :
    In(s, c, p) => p \in PrivateIds(c) /\ s.stage[c] = "added"

(* A member of one of its channels is a member of all. *)
Whole(s, X) ==
  \A c \in Connections \ X :
    Registered(s, c) => \A p \in PrivateIds(c) : In(s, c, p)

(* An added connection with an open transport is registered. *)
Open(s, X) ==
  \A c \in Connections \ X :
    s.stage[c] = "added" /\ s.socket[c] = "open" => Registered(s, c)

(* A registered poll is active, a registered websocket not closed. *)
Live(s, X) ==
  \A c \in Connections \ X : Registered(s, c) =>
    IF c \in Polls THEN s.active[c] ELSE s.socket[c] # "closed"

(* An active poll was not answered. *)
Unanswered(s) ==
  \A c \in Polls : s.active[c] =>
    /\ s.socket[c] # "closing"
    /\ s.socket[c] = "closed" => CloudMode

(* Only subscribers of some channel get to the storage and the registry. *)
Started(s, X) ==
  \A c \in Connections \ X :
    s.stage[c] \in {"loading", "added"} => Channels[c] # <<>>

(* The public id of a member's channel resolves to the channel. *)
Resolves(s, c, i) ==
  Channels[c][i].public # NoId
    => s.pubChannels[Channels[c][i].public] = Channels[c][i].private

Named(s, X) ==
  \A c \in Connections \ X : Registered(s, c) =>
    \A i \in 1..Len(Channels[c]) : Resolves(s, c, i)

Inv(s, X) ==
  /\ Enrolled(s, X) /\ Whole(s, X) /\ Open(s, X) /\ Live(s, X)
  /\ Unanswered(s) /\ Started(s, X) /\ Named(s, X)

RegistryInv == TypeOK /\ Inv(State, {})

-----------------------------------------------------------------------------
(***************************************************************************)
(* Adapter.delete.                                                         *)
(***************************************************************************)
LEMMA DeleteParts ==
  ASSUME NEW s \in States, NEW c \in Connections
  PROVE  LET t == Delete(s, c)
         IN  /\ \A p \in Private : t.connections[p] =
                  IF p \in PrivateIds(c) THEN RemoveFirst(s.connections[p], c)
                                         ELSE s.connections[p]
             /\ \A q \in Public : t.pubChannels[q] =
                  IF q \in ReleasedPublicIds(s, c) THEN NoId ELSE s.pubChannels[q]
             /\ t.active = s.active
             /\ t.socket = s.socket
             /\ t.stage = s.stage
<1> DEFINE conns == [p \in Private |->
                       IF p \in PrivateIds(c) THEN RemoveFirst(s.connections[p], c)
                                              ELSE s.connections[p]]
           pubs == [q \in Public |->
                      IF q \in ReleasedPublicIds(s, c) THEN NoId ELSE s.pubChannels[q]]
           t == [s EXCEPT !.connections = conns, !.pubChannels = pubs]
<1>1. Delete(s, c) = IF Registered(s, c) THEN Count(t, c, -1) ELSE t
  BY DEF Delete
<1>2. /\ t.connections = conns /\ t.pubChannels = pubs
      /\ t.active = s.active /\ t.socket = s.socket /\ t.stage = s.stage
  BY DEF States
<1> QED BY <1>1, <1>2 DEF Count, States

(* The connection is gone from every Set and nothing else is. *)
LEMMA DeleteMembers ==
  ASSUME NEW s \in States, NEW c \in Connections,
         \A p \in Private : In(s, c, p) => p \in PrivateIds(c)
  PROVE  /\ \A p \in Private, d \in Connections :
              In(Delete(s, c), d, p) <=> In(s, d, p) /\ d # c
         /\ ~Registered(Delete(s, c), c)
         /\ \A d \in Connections \ {c} : Registered(Delete(s, c), d) <=> Registered(s, d)
<1>1. ASSUME NEW p \in Private
      PROVE  ToSet(Delete(s, c).connections[p]) = ToSet(s.connections[p]) \ {c}
  <2>1. s.connections[p] \in Seq(Connections) /\ IsInjective(s.connections[p])
    BY DEF States
  <2>2. CASE p \in PrivateIds(c)
    BY <2>1, <2>2, DeleteParts, RemoveFirstType
  <2>3. CASE p \notin PrivateIds(c)
    BY <2>3, DeleteParts DEF In
  <2> QED BY <2>2, <2>3
<1> QED BY <1>1 DEF In, Registered

(* The public ids of channels with another member stay. *)
LEMMA DeleteKeepsNames ==
  ASSUME PublicIdsAreUnambiguous,
         NEW s \in States, NEW c \in Connections, NEW d \in Connections \ {c},
         NEW i \in 1..Len(Channels[d]), In(s, d, Channels[d][i].private),
         Resolves(s, d, i)
  PROVE  Resolves(Delete(s, c), d, i)
<1> DEFINE q == Channels[d][i].public
<1> SUFFICES ASSUME q # NoId
             PROVE  Delete(s, c).pubChannels[q] = Channels[d][i].private
  BY DEF Resolves
<1>1. q \in Public
  BY ChannelType
<1>2. ASSUME NEW j \in DOMAIN Channels[c], Channels[c][j].public = q,
             LastMember(s, c, Channels[c][j].private)
      PROVE  FALSE
  <2>1. Channels[c][j].private = Channels[d][i].private
    BY <1>2, ChannelType DEF PublicIdsAreUnambiguous
  <2>2. s.connections[Channels[d][i].private] = <<c>>
    BY <1>2, <2>1 DEF LastMember
  <2> QED BY <2>2 DEF In, ToSet
<1>3. q \notin ReleasedPublicIds(s, c)
  BY <1>2 DEF ReleasedPublicIds
<1> QED BY <1>1, <1>3, DeleteParts DEF Resolves

LEMMA DeleteAbsent ==
  ASSUME NEW s \in States, NEW c \in Connections, ~Registered(s, c)
  PROVE  Delete(s, c) = s
<1>1. \A p \in Private : c \notin ToSet(s.connections[p])
  BY DEF Registered
<1>2. ReleasedPublicIds(s, c) = {}
  <2>1. ASSUME NEW p \in Private, LastMember(s, c, p) PROVE FALSE
    BY <1>1, <2>1 DEF LastMember, ToSet
  <2> QED BY <2>1, ChannelType DEF ReleasedPublicIds
<1> DEFINE conns == [p \in Private |->
                       IF p \in PrivateIds(c) THEN RemoveFirst(s.connections[p], c)
                                              ELSE s.connections[p]]
           pubs == [q \in Public |->
                      IF q \in ReleasedPublicIds(s, c) THEN NoId ELSE s.pubChannels[q]]
<1>3. \A p \in Private : conns[p] = s.connections[p]
  BY <1>1, RemoveFirstAbsent DEF States
<1>4. conns = s.connections
  BY <1>3 DEF States
<1>5. pubs = s.pubChannels
  BY <1>2 DEF States
<1>6. Delete(s, c) = [s EXCEPT !.connections = conns, !.pubChannels = pubs]
  BY DEF Delete
<1> HIDE DEF conns, pubs
<1> QED BY <1>4, <1>5, <1>6 DEF States

-----------------------------------------------------------------------------
(***************************************************************************)
(* Taking one connection out, in steps: exempt it, change it, readmit it.  *)
(***************************************************************************)
LEMMA Exempt ==
  ASSUME NEW s, NEW X, NEW f, Inv(s, X)
  PROVE  Inv(s, X \cup {f})
BY DEF Inv, Enrolled, Whole, Open, Live, Started, Named

LEMMA ChangeExempt ==
  ASSUME NEW s \in States, NEW X, NEW f \in X, f \in Connections, Inv(s, X),
         NEW a \in BOOLEAN, NEW w \in Socket,
         f \in Polls /\ a => w # "closing" /\ (w = "closed" => CloudMode)
  PROVE  Inv([s EXCEPT !.active[f] = a, !.socket[f] = w], X)
<1> DEFINE t == [s EXCEPT !.active[f] = a, !.socket[f] = w]
<1>1. /\ t.connections = s.connections /\ t.pubChannels = s.pubChannels
      /\ t.stage = s.stage
      /\ \A c \in Connections \ X : t.active[c] = s.active[c] /\ t.socket[c] = s.socket[c]
      /\ \A c \in Connections \ {f} : t.active[c] = s.active[c] /\ t.socket[c] = s.socket[c]
      /\ t.active[f] = a /\ t.socket[f] = w
  BY DEF States
<1> HIDE DEF t
<1>2. Unanswered(t)
  BY <1>1 DEF Inv, Unanswered, Polls
<1>3. \A c : Registered(t, c) <=> Registered(s, c)
  BY <1>1 DEF Registered
<1>4. Enrolled(t, X) /\ Whole(t, X)
  BY <1>1, <1>3 DEF Inv, Enrolled, Whole, In
<1>5. Open(t, X) /\ Live(t, X) /\ Started(t, X)
  BY <1>1, <1>3 DEF Inv, Open, Live, Started
<1>6. Named(t, X)
  BY <1>1, <1>3 DEF Inv, Named, Resolves
<1> QED BY <1>2, <1>4, <1>5, <1>6 DEF Inv, t

LEMMA DeleteInv ==
  ASSUME PublicIdsAreUnambiguous,
         NEW s \in States, NEW X, NEW f \in Connections, Inv(s, X \cup {f}),
         \A p \in Private : In(s, f, p) => p \in PrivateIds(f)
  PROVE  Inv(Delete(s, f), X \cup {f}) /\ ~Registered(Delete(s, f), f)
<1> DEFINE t == Delete(s, f)
<1>1. /\ \A p \in Private, d \in Connections : In(t, d, p) <=> In(s, d, p) /\ d # f
      /\ ~Registered(t, f)
      /\ \A d \in Connections \ {f} : Registered(t, d) <=> Registered(s, d)
  BY DeleteMembers
<1>2. t.active = s.active /\ t.socket = s.socket /\ t.stage = s.stage
  BY DeleteParts
<1>3. Named(t, X \cup {f})
  <2> SUFFICES ASSUME NEW d \in Connections \ (X \cup {f}), Registered(t, d),
                      NEW i \in 1..Len(Channels[d])
               PROVE  Resolves(t, d, i)
    BY DEF Named
  <2>1. Registered(s, d)
    BY <1>1
  <2>2. Resolves(s, d, i)
    BY <2>1 DEF Inv, Named
  <2>3. Channels[d][i].private \in PrivateIds(d)
    BY ChannelType DEF PrivateIds
  <2>4. In(s, d, Channels[d][i].private)
    BY <2>1, <2>3 DEF Inv, Whole
  <2> QED BY <2>2, <2>4, DeleteKeepsNames
<1> HIDE DEF t
<1>4. Whole(t, X \cup {f})
  BY <1>1, ChannelType DEF Inv, Whole
<1>5. Enrolled(t, X \cup {f}) /\ Open(t, X \cup {f}) /\ Live(t, X \cup {f})
  BY <1>1, <1>2 DEF Inv, Enrolled, Open, Live
<1>6. Unanswered(t) /\ Started(t, X \cup {f})
  BY <1>2 DEF Inv, Unanswered, Started
<1> QED BY <1>1, <1>3, <1>4, <1>5, <1>6 DEF Inv, t

LEMMA Readmit ==
  ASSUME NEW s \in States, NEW X, NEW f \in Connections, Inv(s, X \cup {f}),
         ~Registered(s, f),
         s.stage[f] \in {"loading", "added"} => Channels[f] # <<>>,
         s.stage[f] = "added" => s.socket[f] # "open"
  PROVE  Inv(s, X)
<1>1. \A p \in Private : ~In(s, f, p)
  BY DEF Registered, In
<1> QED BY <1>1 DEF Inv, Enrolled, Whole, Open, Live, Started, Named

(***************************************************************************)
(* Connection.close of a connection that is in no Set.                     *)
(***************************************************************************)
Shut(s, c) == [s EXCEPT !.active[c] = FALSE,
                        !.socket[c] = IF s.socket[c] = "open" THEN "closing"
                                                              ELSE s.socket[c]]

LEMMA ShutParts ==
  ASSUME NEW s \in States, NEW c \in Connections
  PROVE  /\ Shut(s, c) \in States
         /\ Shut(s, c).connections = s.connections
         /\ Shut(s, c).pubChannels = s.pubChannels
         /\ Shut(s, c).stage = s.stage
         /\ Shut(s, c).active[c] = FALSE
         /\ Shut(s, c).socket[c] # "open"
         /\ \A d \in Connections \ {c} : /\ Shut(s, c).active[d] = s.active[d]
                                         /\ Shut(s, c).socket[d] = s.socket[d]
         /\ [Shut(s, c) EXCEPT !.active[c] = FALSE] = Shut(s, c)
BY DEF Shut, States, Socket

LEMMA CloseUnregistered ==
  ASSUME NEW s \in States, NEW c \in Connections, ~Registered(s, c)
  PROVE  Close(s, c) = Shut(s, c)
<1> DEFINE u == Shut(s, c)
<1>1. u \in States /\ [u EXCEPT !.active[c] = FALSE] = u
  BY ShutParts
<1>2. ~Registered(u, c)
  BY ShutParts DEF Registered
<1>3. Delete(u, c) = u
  BY <1>1, <1>2, DeleteAbsent
<1>4. Close(s, c) = IF c \in Websockets THEN u ELSE EmitClose(u, c)
  BY DEF Close, Shut
<1> HIDE DEF u
<1>5. EmitClose(u, c) = u
  BY <1>1, <1>3 DEF EmitClose
<1> QED BY <1>4, <1>5 DEF u

LEMMA ClosePoll ==
  ASSUME NEW s \in States, NEW c \in Polls, s.stage[c] = "added"
  PROVE  Close(s, c) = Delete(Shut(s, c), c)
BY ShutParts DEF Close, EmitClose, Shut, Polls

LEMMA OwnChannels ==
  ASSUME NEW s, NEW X, NEW c \in Connections \ X, Inv(s, X)
  PROVE  /\ \A p \in Private : In(s, c, p) => p \in PrivateIds(c)
         /\ Registered(s, c) => s.stage[c] = "added"
         /\ s.stage[c] \in {"loading", "added"} => Channels[c] # <<>>
BY DEF Inv, Enrolled, Started, Registered, In

LEMMA ShutExempt ==
  ASSUME NEW s \in States, NEW X, NEW f \in Connections, Inv(s, X \cup {f})
  PROVE  Inv(Shut(s, f), X \cup {f})
<1> DEFINE w == IF s.socket[f] = "open" THEN "closing" ELSE s.socket[f]
<1>1. w \in Socket
  BY DEF States, Socket
<1>2. Shut(s, f) = [s EXCEPT !.active[f] = FALSE, !.socket[f] = w]
  BY DEF Shut
<1> HIDE DEF w
<1>3. FALSE \in BOOLEAN /\ f \in X \cup {f} /\ ~(f \in Polls /\ FALSE)
  OBVIOUS
<1>4. Inv([s EXCEPT !.active[f] = FALSE, !.socket[f] = w], X \cup {f})
  BY <1>1, <1>3, ChangeExempt, Zenon
<1> QED BY <1>2, <1>4

LEMMA ShutUnregistered ==
  ASSUME NEW s \in States, NEW X, NEW f \in Connections, Inv(s, X \cup {f}),
         ~Registered(s, f),
         s.stage[f] \in {"loading", "added"} => Channels[f] # <<>>
  PROVE  Inv(Shut(s, f), X)
<1>1. Inv(Shut(s, f), X \cup {f})
  BY ShutExempt
<1>2. ~Registered(Shut(s, f), f)
  BY ShutParts DEF Registered
<1>3. Shut(s, f) \in States /\ Shut(s, f).stage = s.stage /\ Shut(s, f).socket[f] # "open"
  BY ShutParts
<1> QED BY <1>1, <1>2, <1>3, Readmit

-----------------------------------------------------------------------------
(***************************************************************************)
(* The handlers of connected peers keep the invariant.                     *)
(***************************************************************************)
LEMMA CloseInv ==
  ASSUME PublicIdsAreUnambiguous,
         NEW s \in States, NEW c \in Connections, Inv(s, {})
  PROVE  Inv(Close(s, c), {})
<1> DEFINE t == Shut(s, c)
<1>0. Inv(s, {} \cup {c})
  BY Exempt
<1>a. /\ \A p \in Private : In(s, c, p) => p \in PrivateIds(c)
      /\ Registered(s, c) => s.stage[c] = "added"
      /\ s.stage[c] \in {"loading", "added"} => Channels[c] # <<>>
  BY OwnChannels
<1>1. CASE c \in Websockets
  <2>1. Close(s, c) = t
    BY <1>1 DEF Close, Shut
  <2>2. Inv(t, {} \cup {c})
    BY <1>0, ShutExempt
  <2>3. /\ t.connections = s.connections /\ t.pubChannels = s.pubChannels
        /\ t.stage = s.stage
        /\ t.socket[c] # "open"
        /\ s.socket[c] # "closed" => t.socket[c] # "closed"
    BY DEF Shut, States, Socket
  <2> HIDE DEF t
  <2>4. Registered(t, c) <=> Registered(s, c)
    BY <2>3 DEF Registered
  <2>5. Enrolled(t, {}) /\ Whole(t, {})
    BY <2>2, <2>3, <2>4 DEF Inv, Enrolled, Whole, In, Registered
  <2>6. Open(t, {}) /\ Live(t, {})
    BY <1>1, <2>2, <2>3, <2>4 DEF Inv, Open, Live, Polls
  <2>7. Started(t, {}) /\ Named(t, {})
    BY <2>2, <2>3, <2>4 DEF Inv, Started, Named, Resolves
  <2> QED BY <2>1, <2>2, <2>5, <2>6, <2>7 DEF Inv
<1>2. CASE c \in Polls /\ s.stage[c] = "added"
  <2>1. Close(s, c) = Delete(t, c)
    BY <1>2, ClosePoll
  <2>2. Inv(t, {} \cup {c})
    BY <1>0, ShutExempt
  <2>3. t \in States /\ t.connections = s.connections /\ t.stage = s.stage
        /\ t.socket[c] # "open"
    BY ShutParts
  <2> HIDE DEF t
  <2>4. \A p \in Private : In(t, c, p) => p \in PrivateIds(c)
    BY <1>a, <2>3 DEF In
  <2>5. Inv(Delete(t, c), {} \cup {c}) /\ ~Registered(Delete(t, c), c)
    BY <2>2, <2>3, <2>4, DeleteInv
  <2>6. /\ Delete(t, c) \in States
        /\ Delete(t, c).stage = s.stage /\ Delete(t, c).socket[c] # "open"
    BY <2>3, DeleteType, DeleteParts
  <2> QED BY <1>a, <2>1, <2>5, <2>6, Readmit
<1>3. CASE c \in Polls /\ s.stage[c] # "added"
  <2>1. ~Registered(s, c)
    BY <1>a, <1>3
  <2>2. Close(s, c) = t
    BY <2>1, CloseUnregistered
  <2> QED BY <1>0, <1>a, <2>1, <2>2, ShutUnregistered
<1> QED BY <1>1, <1>2, <1>3 DEF Polls

LEMMA EmitCloseStage ==
  ASSUME NEW s \in States, NEW c \in Connections
  PROVE  EmitClose(s, c).stage = s.stage
<1> DEFINE t == [s EXCEPT !.active[c] = FALSE]
<1>1. t \in States /\ t.stage = s.stage
  BY FieldType DEF States
<1>2. EmitClose(s, c) = IF s.stage[c] = "added" THEN Delete(t, c) ELSE t
  BY DEF EmitClose
<1> HIDE DEF t
<1> QED BY <1>1, <1>2, DeleteParts

LEMMA CloseStage ==
  ASSUME NEW s \in States, NEW c \in Connections
  PROVE  Close(s, c).stage = s.stage
<1>1. Close(s, c) = IF c \in Websockets THEN Shut(s, c) ELSE EmitClose(Shut(s, c), c)
  BY DEF Close, Shut
<1>2. Shut(s, c) \in States /\ Shut(s, c).stage = s.stage
  BY ShutParts
<1>3. EmitClose(Shut(s, c), c).stage = s.stage
  BY <1>2, EmitCloseStage
<1> QED BY <1>1, <1>2, <1>3

LEMMA SendInv ==
  ASSUME PublicIdsAreUnambiguous,
         NEW s \in States, NEW c \in Connections, Inv(s, {})
  PROVE  Inv(Send(s, c), {}) /\ Send(s, c).stage = s.stage
BY CloseInv, CloseStage DEF Send

LEMMA SendAllInv ==
  ASSUME PublicIdsAreUnambiguous,
         NEW s \in States, NEW members \in Seq(Connections), Inv(s, {})
  PROVE  Inv(SendAll(s, members), {}) /\ SendAll(s, members).stage = s.stage
<1>1. PICK f \in [0..Len(members) -> States] :
         /\ f[0] = s
         /\ \A i \in 1..Len(members) : f[i] = Send(f[i-1], members[i])
         /\ SendAll(s, members) = f[Len(members)]
  BY SendAllRounds
<1> DEFINE Good == {i \in 0..Len(members) : Inv(f[i], {}) /\ f[i].stage = s.stage}
<1>2. 0 \in Good
  BY <1>1
<1>3. ASSUME NEW k \in 1..Len(members), k - 1 \in Good PROVE k \in Good
  <2>1. f[k-1] \in States /\ Inv(f[k-1], {}) /\ members[k] \in Connections
    BY <1>3
  <2>2. /\ Inv(Send(f[k-1], members[k]), {})
        /\ Send(f[k-1], members[k]).stage = f[k-1].stage
    BY <2>1, SendInv
  <2> QED BY <1>1, <1>3, <2>2
<1> HIDE DEF Good
<1>4. 0..Len(members) \subseteq Good
  BY <1>2, <1>3, UpToInduction
<1>5. Len(members) \in 0..Len(members)
  OBVIOUS
<1> QED BY <1>1, <1>4, <1>5 DEF Good

LEMMA SendToInv ==
  ASSUME PublicIdsAreUnambiguous,
         NEW s \in States, NEW r \in Receiver, Inv(s, {})
  PROVE  Inv(SendTo(s, r), {}) /\ SendTo(s, r).stage = s.stage
<1>1. CASE Resolve(s, r) = NoId
  BY <1>1 DEF SendTo
<1>2. CASE Resolve(s, r) # NoId
  <2>1. Resolve(s, r) \in Private
    BY <1>2 DEF Resolve, Receiver, States
  <2>2. s.connections[Resolve(s, r)] \in Seq(Connections)
    BY <2>1 DEF States
  <2> QED BY <1>2, <2>2, SendAllInv DEF SendTo
<1> QED BY <1>1, <1>2

LEMMA SendToReceiversInv ==
  ASSUME PublicIdsAreUnambiguous,
         NEW s \in States, NEW rs \in Seq(Receiver), Inv(s, {})
  PROVE  Inv(SendToReceivers(s, rs), {}) /\ SendToReceivers(s, rs).stage = s.stage
<1>1. PICK f \in [0..Len(rs) -> States] :
         /\ f[0] = s
         /\ \A i \in 1..Len(rs) : f[i] = SendTo(f[i-1], rs[i])
         /\ SendToReceivers(s, rs) = f[Len(rs)]
  BY SendToReceiversRounds
<1> DEFINE Good == {i \in 0..Len(rs) : Inv(f[i], {}) /\ f[i].stage = s.stage}
<1>2. 0 \in Good
  BY <1>1
<1>3. ASSUME NEW k \in 1..Len(rs), k - 1 \in Good PROVE k \in Good
  <2>1. f[k-1] \in States /\ Inv(f[k-1], {}) /\ rs[k] \in Receiver
    BY <1>3
  <2>2. /\ Inv(SendTo(f[k-1], rs[k]), {})
        /\ SendTo(f[k-1], rs[k]).stage = f[k-1].stage
    BY <2>1, SendToInv
  <2> QED BY <1>1, <1>3, <2>2
<1> HIDE DEF Good
<1>4. 0..Len(rs) \subseteq Good
  BY <1>2, <1>3, UpToInduction
<1>5. Len(rs) \in 0..Len(rs)
  OBVIOUS
<1> QED BY <1>1, <1>4, <1>5 DEF Good

-----------------------------------------------------------------------------
(***************************************************************************)
(* Adapter.add.  A newcomer stands last in every Set it joined, so the     *)
(* oldest member of a channel with two members or more is somebody else,   *)
(* and its eviction does not empty the Set.                                *)
(***************************************************************************)
Newest(s, c) ==
  \A p \in Private : \A j \in 1..Len(s.connections[p]) :
    s.connections[p][j] = c => j = Len(s.connections[p])

SameFor(s, t, c) ==
  /\ t.active[c] = s.active[c]
  /\ t.socket[c] = s.socket[c]
  /\ t.stage = s.stage

(* After i rounds of the loop of add, which began in s. *)
Newcomer(s, t, c, i) ==
  /\ Inv(t, {c})
  /\ SameFor(s, t, c)
  /\ Newest(t, c)
  /\ \A p \in Private : In(t, c, p) <=> \E k \in 1..i : Channels[c][k].private = p
  /\ \A k \in 1..i : Resolves(t, c, k)

LEMMA NewestAfterDelete ==
  ASSUME NEW s \in States, NEW f \in Connections, NEW c \in Connections \ {f},
         Newest(s, c)
  PROVE  Newest(Delete(s, f), c)
<1> SUFFICES ASSUME NEW p \in Private, NEW j \in 1..Len(Delete(s, f).connections[p]),
                    Delete(s, f).connections[p][j] = c
             PROVE  j = Len(Delete(s, f).connections[p])
  BY DEF Newest
<1> DEFINE q == s.connections[p]
<1>1. q \in Seq(Connections) /\ IsInjective(q)
  BY DEF States
<1>2. \A i \in 1..Len(q) : q[i] = c => i = Len(q)
  BY DEF Newest
<1>3. Delete(s, f).connections[p] = q \/ Delete(s, f).connections[p] = RemoveFirst(q, f)
  BY DeleteParts
<1> HIDE DEF q
<1>4. CASE Delete(s, f).connections[p] = q
  BY <1>2, <1>4
<1>5. CASE Delete(s, f).connections[p] = RemoveFirst(q, f) /\ f \notin ToSet(q)
  BY <1>1, <1>2, <1>5, RemoveFirstAbsent
<1>6. CASE Delete(s, f).connections[p] = RemoveFirst(q, f) /\ f \in ToSet(q)
  <2>1. /\ Len(RemoveFirst(q, f)) = Len(q) - 1
        /\ \A x : x # f /\ (\A i \in 1..Len(q) : q[i] = x => i = Len(q))
              => \A i \in 1..(Len(q) - 1) :
                   RemoveFirst(q, f)[i] = x => i = Len(q) - 1
    BY <1>1, <1>6, RemoveFirstPresent
  <2> QED BY <1>2, <1>6, <2>1
<1> QED BY <1>3, <1>4, <1>5, <1>6

Oldest(s, ch) == Head(s.connections[ch.private])

(* What MakeRoom says of the oldest member f of a full channel. *)
Evicted(s, ch, f) ==
  /\ \A p \in Private : In(s, f, p) => p \in PrivateIds(f)
  /\ Registered(s, f) /\ s.stage[f] = "added" /\ Channels[f] # <<>>
  /\ Delete(s, f) \in States /\ ~Registered(Delete(s, f), f)
  /\ MakeRoom(s, ch) = Shut(Delete(s, f), f)
  /\ MakeRoom(s, ch).connections = Delete(s, f).connections

(* The member that has to go is not the newcomer, and nothing else goes. *)
LEMMA EvictsTheOldestMember ==
  ASSUME LimitAboveOne, PublicIdsAreUnambiguous,
         NEW s \in States, NEW c \in Connections, NEW ch \in Channel,
         Inv(s, {c}), Newest(s, c), Full(s, ch)
  PROVE  /\ Oldest(s, ch) \in Connections \ {c}
         /\ Evicted(s, ch, Oldest(s, ch))
         /\ Inv(Delete(s, Oldest(s, ch)), {c} \cup {Oldest(s, ch)})
         /\ ch.private \in Private
         /\ s.connections[ch.private] \in Seq(Connections)
         /\ Len(s.connections[ch.private]) >= 2
         /\ Oldest(s, ch) = s.connections[ch.private][1]
         /\ Len(MakeRoom(s, ch).connections[ch.private])
              = Len(s.connections[ch.private]) - 1
<1> DEFINE q == s.connections[ch.private]
           f == Head(q)
           u == Delete(s, f)
           t == Shut(u, f)
<1>1. ch.private \in Private
  BY DEF Channel
<1>2. q \in Seq(Connections) /\ IsInjective(q) /\ Len(q) >= 2
  BY <1>1, AdapterAssumption DEF Full, LimitAboveOne, States
<1>3. f \in Connections /\ f = q[1] /\ f \in ToSet(q)
  BY <1>2 DEF ToSet
<1>4. f # c
  <2>1. 1 \in 1..Len(q) /\ 1 # Len(q)
    <3>1. Len(q) \in Nat /\ Len(q) >= 2
      BY <1>2
    <3>2. \A n \in Nat : n >= 2 => 1 \in 1..n /\ 1 # n
      OBVIOUS
    <3> QED BY <3>1, <3>2
  <2> QED BY <1>1, <1>3, <2>1 DEF Newest
<1>5. /\ \A p \in Private : In(s, f, p) => p \in PrivateIds(f)
      /\ Registered(s, f)
      /\ s.stage[f] = "added"
      /\ Channels[f] # <<>>
  <2>1. Registered(s, f)
    BY <1>1, <1>3 DEF Registered
  <2>2. f \in Connections \ {c}
    BY <1>3, <1>4
  <2> HIDE DEF f
  <2>3. s.stage[f] = "added" /\ \A p \in Private : In(s, f, p) => p \in PrivateIds(f)
    BY <2>1, <2>2, OwnChannels
  <2>4. Channels[f] # <<>>
    BY <2>2, <2>3, OwnChannels
  <2> QED BY <2>1, <2>3, <2>4
<1>6. Inv(s, {c} \cup {f})
  BY Exempt
<1>7. u \in States
  BY <1>3, DeleteType
<1>8. Inv(u, {c} \cup {f}) /\ ~Registered(u, f)
  BY <1>3, <1>5, <1>6, DeleteInv
<1>9. MakeRoom(s, ch) = t
  BY <1>3, <1>7, <1>8, CloseUnregistered DEF MakeRoom
<1>10. t.connections = u.connections
  BY <1>3, <1>7, ShutParts
<1>11. ch.private \in PrivateIds(f)
  BY <1>1, <1>3, <1>5 DEF In
<1>12. t.connections[ch.private] = RemoveFirst(q, f)
  BY <1>1, <1>3, <1>10, <1>11, DeleteParts
<1>13. Len(RemoveFirst(q, f)) = Len(q) - 1
  BY <1>2, <1>3, RemoveFirstPresent
<1>14. f = Oldest(s, ch)
  BY DEF Oldest
<1>15. Evicted(s, ch, f)
  <2> HIDE DEF f
  <2> QED BY <1>5, <1>7, <1>8, <1>9, <1>10 DEF Evicted
<1> HIDE DEF f, t
<1> QED BY <1>1, <1>2, <1>3, <1>4, <1>8, <1>9, <1>12, <1>13, <1>14, <1>15

LEMMA MakeRoomInv ==
  ASSUME LimitAboveOne, PublicIdsAreUnambiguous,
         NEW s \in States, NEW c \in Connections, NEW ch \in Channel,
         Inv(s, {c}), Newest(s, c)
  PROVE  LET t == MakeRoom(s, ch)
         IN  /\ Inv(t, {c}) /\ SameFor(s, t, c) /\ Newest(t, c)
             /\ \A p \in Private : In(t, c, p) <=> In(s, c, p)
             /\ \A k \in 1..Len(Channels[c]) :
                  In(s, c, Channels[c][k].private) /\ Resolves(s, c, k)
                    => Resolves(t, c, k)
             /\ ~(Full(s, ch) /\ t.connections[ch.private] = <<>>)
<1>1. CASE ~Full(s, ch)
  BY <1>1 DEF MakeRoom, SameFor
<1>2. CASE Full(s, ch)
  <2> DEFINE q == s.connections[ch.private]
             f == Oldest(s, ch)
             u == Delete(s, f)
             t == MakeRoom(s, ch)
  <2>a. /\ f \in Connections \ {c} /\ Evicted(s, ch, f)
        /\ Inv(u, {c} \cup {f})
        /\ Len(q) >= 2 /\ q \in Seq(Connections)
        /\ Len(t.connections[ch.private]) = Len(q) - 1
    BY <1>2, EvictsTheOldestMember
  <2>1. /\ f \in Connections /\ f # c
        /\ \A p \in Private : In(s, f, p) => p \in PrivateIds(f)
        /\ s.stage[f] = "added" /\ Channels[f] # <<>>
        /\ u \in States /\ Inv(u, {c} \cup {f}) /\ ~Registered(u, f)
        /\ t = Shut(u, f)
    BY <2>a DEF Evicted
  <2>2. Inv(t, {c})
    <3>1. u.stage = s.stage
      BY <2>1, DeleteParts
    <3> QED BY <2>1, <3>1, ShutUnregistered
  <2>3. /\ t.connections = u.connections /\ t.pubChannels = u.pubChannels
        /\ t.stage = u.stage
        /\ t.active[c] = u.active[c] /\ t.socket[c] = u.socket[c]
    <3>1. c \in Connections \ {f}
      BY <2>1
    <3> HIDE DEF u, f, t
    <3> QED BY <2>1, <3>1, ShutParts
  <2>4. SameFor(s, t, c)
    BY <2>1, <2>3, DeleteParts DEF SameFor
  <2>5. Newest(t, c)
    BY <2>1, <2>3, NewestAfterDelete DEF Newest
  <2>6. \A p \in Private : In(t, c, p) <=> In(s, c, p)
    BY <2>1, <2>3, DeleteMembers DEF In
  <2>7. ASSUME NEW k \in 1..Len(Channels[c]),
               In(s, c, Channels[c][k].private), Resolves(s, c, k)
        PROVE  Resolves(t, c, k)
    BY <2>1, <2>3, <2>7, DeleteKeepsNames DEF Resolves
  <2>8. t.connections[ch.private] # <<>>
    BY <2>a
  <2> HIDE DEF t
  <2> QED BY <2>2, <2>4, <2>5, <2>6, <2>7, <2>8 DEF t
<1> QED BY <1>1, <1>2

LEMMA JoinMembers ==
  ASSUME NEW s \in States, NEW c \in Connections, NEW ch \in Channel, Newest(s, c)
  PROVE  LET t == Join(s, c, ch)
         IN  /\ \A p \in Private, d \in Connections :
                  In(t, d, p) <=> In(s, d, p) \/ (d = c /\ p = ch.private)
             /\ Newest(t, c)
             /\ t.pubChannels = s.pubChannels /\ t.active = s.active
             /\ t.socket = s.socket /\ t.stage = s.stage
<1> DEFINE t == Join(s, c, ch)
           q == s.connections[ch.private]
<1>1. ch.private \in Private /\ q \in Seq(Connections) /\ IsInjective(q)
  BY DEF Channel, States
<1>2. /\ t.pubChannels = s.pubChannels /\ t.active = s.active
      /\ t.socket = s.socket /\ t.stage = s.stage
      /\ \A p \in Private : t.connections[p] =
           IF p = ch.private THEN IF c \in ToSet(q) THEN q ELSE Append(q, c)
                             ELSE s.connections[p]
  BY <1>1 DEF Join, States
<1> HIDE DEF t
<1>3. CASE c \in ToSet(q)
  <2>1. \A p \in Private : t.connections[p] = s.connections[p]
    BY <1>1, <1>2, <1>3
  <2> QED BY <1>1, <1>2, <1>3, <2>1 DEF In, Newest, t
<1>4. CASE c \notin ToSet(q)
  <2>1. ToSet(Append(q, c)) = ToSet(q) \cup {c}
    BY <1>1, <1>4, AppendType
  <2>2. \A p \in Private, d \in Connections :
          In(t, d, p) <=> In(s, d, p) \/ (d = c /\ p = ch.private)
    BY <1>1, <1>2, <1>4, <2>1 DEF In
  <2>3. ASSUME NEW j \in 1..Len(Append(q, c)), Append(q, c)[j] = c
        PROVE  j = Len(Append(q, c))
    BY <1>1, <1>4, <2>3 DEF ToSet
  <2>4. Newest(t, c)
    <3> SUFFICES ASSUME NEW p \in Private, NEW j \in 1..Len(t.connections[p]),
                        t.connections[p][j] = c
                 PROVE  j = Len(t.connections[p])
      BY DEF Newest
    <3>1. CASE p = ch.private
      BY <1>2, <1>4, <2>3, <3>1
    <3>2. CASE p # ch.private
      BY <1>2, <3>2 DEF Newest
    <3> QED BY <3>1, <3>2
  <2> QED BY <1>2, <2>2, <2>4 DEF t
<1> QED BY <1>3, <1>4

LEMMA AddChannelInv ==
  ASSUME LimitAboveOne, PublicIdsAreUnambiguous,
         NEW s, NEW t \in States, NEW c \in Connections,
         NEW i \in 1..Len(Channels[c]), Newcomer(s, t, c, i - 1)
  PROVE  Newcomer(s, AddChannel(t, c, Channels[c][i]), c, i)
<1> DEFINE ch == Channels[c][i]
           m == MakeRoom(t, ch)
           u == Join(m, c, ch)
           v == IF ch.public = NoId THEN u
                                    ELSE [u EXCEPT !.pubChannels[ch.public] = ch.private]
<1>1. /\ ch \in Channel /\ ch.private \in Private /\ ch.public \in Public \cup {NoId}
      /\ i \in Nat /\ i \in 1..Len(Channels[c])
      /\ \A k \in 1..i : k \in 1..Len(Channels[c])
      /\ \A k \in 1..i : k \in 1..(i-1) \/ k = i
      /\ \A k \in 1..(i-1) : k \in 1..i
  BY ChannelType
<1>2. /\ Inv(m, {c}) /\ SameFor(t, m, c) /\ Newest(m, c)
      /\ \A p \in Private : In(m, c, p) <=> In(t, c, p)
      /\ \A k \in 1..Len(Channels[c]) :
           In(t, c, Channels[c][k].private) /\ Resolves(t, c, k) => Resolves(m, c, k)
      /\ ~(Full(t, ch) /\ m.connections[ch.private] = <<>>)
  BY <1>1, MakeRoomInv DEF Newcomer
<1>3. AddChannel(t, c, ch) = v
  BY <1>2 DEF AddChannel
<1>4. m \in States
  BY <1>1, MakeRoomType
<1>5. /\ \A p \in Private, d \in Connections :
           In(u, d, p) <=> In(m, d, p) \/ (d = c /\ p = ch.private)
      /\ Newest(u, c)
      /\ u.pubChannels = m.pubChannels /\ u.active = m.active
      /\ u.socket = m.socket /\ u.stage = m.stage
      /\ u \in States
  BY <1>1, <1>2, <1>4, JoinMembers, JoinType
<1> HIDE DEF m, u, ch
<1>6. /\ v.connections = u.connections /\ v.active = u.active
      /\ v.socket = u.socket /\ v.stage = u.stage
      /\ ch.public = NoId => v.pubChannels = u.pubChannels
      /\ ch.public # NoId =>
           \A q \in Public : v.pubChannels[q] =
              IF q = ch.public THEN ch.private ELSE u.pubChannels[q]
  BY <1>1, <1>5 DEF States
<1> HIDE DEF v
<1>7. \A d \in Connections, p \in Private :
        In(v, d, p) <=> In(m, d, p) \/ (d = c /\ p = ch.private)
  BY <1>5, <1>6 DEF In
<1>8. \A d \in Connections \ {c} : Registered(v, d) <=> Registered(m, d)
  BY <1>7 DEF Registered, In
<1>9. ASSUME NEW d \in Connections, NEW k \in 1..Len(Channels[d]), Resolves(m, d, k)
      PROVE  Resolves(v, d, k)
  <2>1. /\ Channels[d][k].public \in Public \cup {NoId}
        /\ k \in DOMAIN Channels[d] /\ i \in DOMAIN Channels[c]
    BY <1>1, ChannelType
  <2>2. CASE Channels[d][k].public = ch.public /\ ch.public # NoId
    <3>1. Channels[d][k].private = ch.private
      BY <2>1, <2>2 DEF PublicIdsAreUnambiguous, ch
    <3> QED BY <1>1, <1>6, <2>2, <3>1 DEF Resolves
  <2>3. CASE ~(Channels[d][k].public = ch.public /\ ch.public # NoId)
    BY <1>5, <1>6, <1>9, <2>1, <2>3 DEF Resolves
  <2> QED BY <2>2, <2>3
<1>10. Inv(v, {c})
  <2>1. Enrolled(v, {c})
    BY <1>2, <1>5, <1>6, <1>7 DEF Inv, Enrolled
  <2>2. Whole(v, {c})
    BY <1>2, <1>7, <1>8, ChannelType DEF Inv, Whole
  <2>3. Open(v, {c}) /\ Live(v, {c}) /\ Unanswered(v) /\ Started(v, {c})
    BY <1>2, <1>5, <1>6, <1>8 DEF Inv, Open, Live, Unanswered, Started
  <2>4. Named(v, {c})
    BY <1>2, <1>8, <1>9 DEF Inv, Named
  <2> QED BY <2>1, <2>2, <2>3, <2>4 DEF Inv
<1>11. SameFor(s, v, c)
  BY <1>2, <1>5, <1>6 DEF SameFor, Newcomer
<1>12. Newest(v, c)
  BY <1>5, <1>6 DEF Newest
<1>13. ASSUME NEW p \in Private
       PROVE  In(v, c, p) <=> \E k \in 1..i : Channels[c][k].private = p
  <2>1. In(v, c, p) <=> In(t, c, p) \/ p = ch.private
    BY <1>2, <1>7
  <2>2. In(t, c, p) <=> \E k \in 1..(i-1) : Channels[c][k].private = p
    BY DEF Newcomer
  <2>3. i \in 1..i
    BY <1>1
  <2> QED BY <1>1, <2>1, <2>2, <2>3 DEF ch
<1>14. ASSUME NEW k \in 1..i PROVE Resolves(v, c, k)
  <2>1. CASE k \in 1..(i-1)
    <3>1. Resolves(t, c, k) /\ k \in 1..Len(Channels[c])
      BY <1>1, <2>1 DEF Newcomer
    <3>2. Channels[c][k].private \in Private
      BY <3>1, ChannelType
    <3>3. In(t, c, Channels[c][k].private)
      BY <2>1, <3>2 DEF Newcomer
    <3>4. Resolves(m, c, k)
      BY <1>2, <3>1, <3>3
    <3> QED BY <1>9, <3>1, <3>4
  <2>2. CASE k = i
    BY <1>1, <1>6, <2>2 DEF Resolves, ch
  <2> QED BY <1>1, <2>1, <2>2
<1> QED BY <1>3, <1>10, <1>11, <1>12, <1>13, <1>14 DEF Newcomer, ch

LEMMA AddChannelsInv ==
  ASSUME LimitAboveOne, PublicIdsAreUnambiguous,
         NEW s \in States, NEW c \in Connections, Newcomer(s, s, c, 0)
  PROVE  /\ AddChannels(s, c) \in States
         /\ Newcomer(s, AddChannels(s, c), c, Len(Channels[c]))
<1>1. PICK f \in [0..Len(Channels[c]) -> States] :
         /\ f[0] = s
         /\ \A i \in 1..Len(Channels[c]) :
              f[i] = AddChannel(f[i-1], c, Channels[c][i])
         /\ AddChannels(s, c) = f[Len(Channels[c])]
  BY AddChannelsRounds
<1> DEFINE n == Len(Channels[c])
           Good == {i \in 0..n : Newcomer(s, f[i], c, i)}
<1>2. n \in Nat /\ n \in 0..n /\ 0 \in 0..n
  BY ChannelType
<1>3. 0 \in Good
  BY <1>1, <1>2
<1>4. ASSUME NEW k \in 1..n, k - 1 \in Good PROVE k \in Good
  <2>1. f[k-1] \in States /\ Newcomer(s, f[k-1], c, k-1) /\ k \in 0..n
    BY <1>2, <1>4
  <2>2. Newcomer(s, AddChannel(f[k-1], c, Channels[c][k]), c, k)
    BY <2>1, AddChannelInv
  <2> QED BY <1>1, <2>1, <2>2
<1> HIDE DEF Good
<1>5. 0..n \subseteq Good
  BY <1>2, <1>3, <1>4, UpToInduction
<1> QED BY <1>1, <1>2, <1>5 DEF Good

LEMMA AddInv ==
  ASSUME LimitAboveOne, PublicIdsAreUnambiguous,
         NEW s \in States, NEW c \in Connections, Inv(s, {}),
         s.stage[c] # "added", Channels[c] # <<>>
  PROVE  /\ Inv(Add(s, c), {})
         /\ \A d \in Connections \ {c} : Add(s, c).stage[d] = s.stage[d]
<1>0. ~Registered(s, c) /\ \A p \in Private : ~In(s, c, p)
  BY OwnChannels DEF Registered, In
<1>1. CASE ~IsActive(s, c)
  <2> DEFINE t == [s EXCEPT !.stage[c] = "refused"]
  <2>1. Add(s, c) = t
    BY <1>1 DEF Add
  <2>2. /\ t.connections = s.connections /\ t.pubChannels = s.pubChannels
        /\ t.active = s.active /\ t.socket = s.socket
        /\ \A d \in Connections \ {c} : t.stage[d] = s.stage[d]
        /\ t.stage[c] = "refused"
    BY DEF States
  <2> HIDE DEF t
  <2>3. \A d : Registered(t, d) <=> Registered(s, d)
    BY <2>2 DEF Registered
  <2>4. Enrolled(t, {}) /\ Whole(t, {}) /\ Open(t, {}) /\ Live(t, {})
    BY <1>0, <2>2, <2>3 DEF Inv, Enrolled, Whole, Open, Live, In
  <2>5. Unanswered(t) /\ Started(t, {}) /\ Named(t, {})
    BY <2>2, <2>3 DEF Inv, Unanswered, Started, Named, Resolves
  <2> QED BY <2>1, <2>2, <2>4, <2>5 DEF Inv
<1>2. CASE IsActive(s, c)
  <2> DEFINE n == Len(Channels[c])
             s1 == Count(s, c, 1)
             u == AddChannels(s1, c)
             t == [u EXCEPT !.stage[c] = "added"]
  <2>1. Add(s, c) = t
    BY <1>2 DEF Add
  <2>2. /\ s1 \in States
        /\ s1.connections = s.connections /\ s1.pubChannels = s.pubChannels
        /\ s1.active = s.active /\ s1.socket = s.socket /\ s1.stage = s.stage
    <3>1. Count(s, c, 1) \in States
      BY CountType
    <3> QED BY <3>1 DEF Count, States
  <2> HIDE DEF s1
  <2>3. Inv(s1, {c})
    <3>1. Inv(s, {} \cup {c})
      BY Exempt
    <3> QED BY <2>2, <3>1 DEF Inv, Enrolled, Whole, Open, Live, Unanswered,
                              Started, Named, Registered, In, Resolves
  <2>4. Newest(s1, c)
    <3> SUFFICES ASSUME NEW p \in Private, NEW j \in 1..Len(s1.connections[p]),
                        s1.connections[p][j] = c
                 PROVE  FALSE
      BY DEF Newest
    <3>1. In(s, c, p)
      BY <2>2 DEF In, ToSet, States
    <3> QED BY <1>0, <3>1
  <2>5. Newcomer(s1, s1, c, 0)
    BY <1>0, <2>2, <2>3, <2>4 DEF Newcomer, SameFor, In
  <2>6. u \in States /\ Newcomer(s1, u, c, n)
    BY <2>2, <2>5, AddChannelsInv
  <2> HIDE DEF u
  <2>7. /\ t.connections = u.connections /\ t.pubChannels = u.pubChannels
        /\ t.active = u.active /\ t.socket = u.socket
        /\ \A d \in Connections \ {c} : t.stage[d] = u.stage[d]
        /\ t.stage[c] = "added"
    BY <2>6 DEF States
  <2>8. \A d : Registered(t, d) <=> Registered(u, d)
    BY <2>7 DEF Registered
  <2>9. /\ Inv(u, {c})
        /\ u.active[c] = s.active[c] /\ u.socket[c] = s.socket[c] /\ u.stage = s.stage
        /\ \A p \in Private : In(u, c, p) <=> \E k \in 1..n : Channels[c][k].private = p
        /\ \A k \in 1..n : Resolves(u, c, k)
    BY <2>2, <2>6 DEF Newcomer, SameFor
  <2>10. \A p \in Private : In(u, c, p) <=> p \in PrivateIds(c)
    BY <2>9, ChannelType DEF PrivateIds
  <2>11. Registered(u, c)
    <3>1. 1 \in 1..n
      BY ChannelType
    <3>2. Channels[c][1].private \in Private
      BY <3>1, ChannelType
    <3>3. In(u, c, Channels[c][1].private)
      BY <2>9, <3>1, <3>2
    <3> QED BY <3>2, <3>3 DEF Registered, In
  <2> HIDE DEF t, n
  <2>12. Enrolled(t, {})
    BY <2>7, <2>9, <2>10 DEF Inv, Enrolled, In
  <2>13. Whole(t, {})
    BY <2>7, <2>8, <2>9, <2>10, ChannelType DEF Inv, Whole, In
  <2>14. Open(t, {}) /\ Started(t, {})
    BY <2>7, <2>8, <2>9, <2>11 DEF Inv, Open, Started
  <2>15. Live(t, {}) /\ Unanswered(t)
    BY <1>2, <2>7, <2>8, <2>9 DEF Inv, Live, Unanswered, IsActive, Polls
  <2>16. Named(t, {})
    BY <2>7, <2>8, <2>9 DEF Inv, Named, Resolves, n
  <2> QED BY <2>1, <2>7, <2>9, <2>12, <2>13, <2>14, <2>15, <2>16 DEF Inv
<1> QED BY <1>1, <1>2

-----------------------------------------------------------------------------
(***************************************************************************)
(* The invariant holds.                                                    *)
(***************************************************************************)
LEMMA InitInv == Init => RegistryInv
<1> SUFFICES ASSUME Init PROVE RegistryInv
  OBVIOUS
<1>1. TypeOK
  <2>1. IsInjective(<<>>)
    BY DEF IsInjective
  <2> QED BY <2>1 DEF Init, TypeOK, Socket, Stage
<1>2. \A c : \A p \in Private : ~In(State, c, p)
  BY DEF Init, State, In, ToSet
<1>3. \A c : ~Registered(State, c)
  BY <1>2 DEF Registered, In
<1>4. \A c \in Connections : State.stage[c] = "new" /\ State.active[c] = FALSE
  BY DEF Init, State
<1>5. Inv(State, {})
  BY <1>2, <1>3, <1>4 DEF Inv, Enrolled, Whole, Open, Live, Unanswered, Started, Named, Polls
<1> QED BY <1>1, <1>5 DEF RegistryInv

LEMMA BecomesInv ==
  ASSUME NEW t \in States, Becomes(t), Inv(t, {})
  PROVE  RegistryInv' /\ stage' = t.stage
<1>1. TypeOK' /\ stage' = t.stage
  BY BecomesType DEF Becomes
<1>2. State' = t
  BY DEF Becomes, State, States
<1>3. Inv(State, {})' <=> Inv(t, {})
  BY <1>2 DEF Inv, Enrolled, Whole, Open, Live, Unanswered, Started, Named,
              Registered, In, Resolves
<1> QED BY <1>1, <1>3 DEF RegistryInv

(***************************************************************************)
(* Every callback keeps it, and no connection stops being an added one.    *)
(***************************************************************************)
StaysAdded == \A c \in Connections : stage[c] = "added" => stage'[c] = "added"

LEMMA StateInv ==
  ASSUME RegistryInv
  PROVE  State \in States /\ Inv(State, {}) /\ State.stage = stage
         /\ State.socket = socket /\ State.active = active
BY StateType DEF RegistryInv, State

LEMMA SetStage ==
  ASSUME NEW t \in States, Inv(t, {}), NEW c \in Connections, ~Registered(t, c),
         NEW v \in {"refused", "loading"}, v = "loading" => Channels[c] # <<>>
  PROVE  /\ [t EXCEPT !.stage[c] = v] \in States
         /\ Inv([t EXCEPT !.stage[c] = v], {})
         /\ \A d \in Connections \ {c} : [t EXCEPT !.stage[c] = v].stage[d] = t.stage[d]
<1> DEFINE x == [t EXCEPT !.stage[c] = v]
<1>1. \A p \in Private : ~In(t, c, p)
  BY DEF Registered, In
<1>2. x \in States
  BY FieldType DEF Stage
<1>3. /\ x.connections = t.connections /\ x.pubChannels = t.pubChannels
      /\ x.active = t.active /\ x.socket = t.socket
      /\ x.stage[c] = v
      /\ \A d \in Connections \ {c} : x.stage[d] = t.stage[d]
  BY DEF States
<1> HIDE DEF x
<1>4. \A d : Registered(x, d) <=> Registered(t, d)
  BY <1>3 DEF Registered
<1>5. Enrolled(x, {}) /\ Whole(x, {}) /\ Open(x, {}) /\ Live(x, {})
  BY <1>1, <1>3, <1>4 DEF Inv, Enrolled, Whole, Open, Live, In
<1>6. Unanswered(x) /\ Started(x, {}) /\ Named(x, {})
  BY <1>3, <1>4 DEF Inv, Unanswered, Started, Named, Resolves
<1> QED BY <1>2, <1>3, <1>5, <1>6 DEF Inv, x

LEMMA CloseStillUnregistered ==
  ASSUME NEW s \in States, NEW c \in Connections, ~Registered(s, c)
  PROVE  ~Registered(Close(s, c), c)
<1>1. Close(s, c) = Shut(s, c)
  BY CloseUnregistered
<1>2. Shut(s, c).connections = s.connections
  BY ShutParts
<1> QED BY <1>1, <1>2 DEF Registered

LEMMA SubscribeInv ==
  ASSUME LimitAboveOne, PublicIdsAreUnambiguous, RegistryInv,
         NEW c \in Connections, Subscribe(c)
  PROVE  RegistryInv' /\ StaysAdded
<1>1. PICK now \in {"open", "closed"} :
        /\ now = "closed" => CloudMode /\ c \in Polls
        /\ LET s == [State EXCEPT !.active[c] = TRUE, !.socket[c] = now]
           IN  Becomes(IF Channels[c] = <<>>
                         THEN [Close(s, c) EXCEPT !.stage[c] = "refused"]
                       ELSE IF c \in WithMid
                         THEN [s EXCEPT !.stage[c] = "loading"]
                         ELSE Add(s, c))
  BY DEF Subscribe
<1> DEFINE s == [State EXCEPT !.active[c] = TRUE, !.socket[c] = now]
<1>2. /\ State \in States /\ Inv(State, {}) /\ State.stage = stage /\ stage[c] = "new"
  BY StateInv DEF Subscribe
<1>3. now \in Socket /\ TRUE \in BOOLEAN
  BY DEF Socket
<1>4. s \in States
  BY <1>2, <1>3, FieldType
<1>5. s.connections = State.connections /\ s.stage = stage
  BY <1>2
<1>6. Inv(s, {} \cup {c})
  <2>1. Inv(State, {} \cup {c}) /\ c \in {} \cup {c}
    BY <1>2, Exempt
  <2>2. c \in Polls /\ TRUE => now # "closing" /\ (now = "closed" => CloudMode)
    BY <1>1
  <2> QED BY <1>2, <1>3, <2>1, <2>2, ChangeExempt
<1>7. ~Registered(s, c)
  <2>1. ~Registered(State, c)
    BY <1>2, OwnChannels
  <2> QED BY <1>5, <2>1 DEF Registered
<1> HIDE DEF s
<1>8. Inv(s, {})
  BY <1>2, <1>4, <1>5, <1>6, <1>7, Readmit
<1>10. CASE Channels[c] = <<>>
  <2>2. Close(s, c) \in States /\ Inv(Close(s, c), {}) /\ Close(s, c).stage = stage
    BY <1>4, <1>5, <1>8, CloseType, CloseInv, CloseStage
  <2>3. ~Registered(Close(s, c), c)
    BY <1>4, <1>7, CloseStillUnregistered
  <2> DEFINE t == [Close(s, c) EXCEPT !.stage[c] = "refused"]
  <2>4. t \in States /\ Inv(t, {}) /\ \A d \in Connections \ {c} : t.stage[d] = stage[d]
    BY <2>2, <2>3, SetStage
  <2>5. Becomes(t)
    BY <1>1, <1>10 DEF s
  <2> HIDE DEF t
  <2> QED BY <1>2, <2>4, <2>5, BecomesInv DEF StaysAdded
<1>11. CASE Channels[c] # <<>> /\ c \in WithMid
  <2> DEFINE t == [s EXCEPT !.stage[c] = "loading"]
  <2>1. t \in States /\ Inv(t, {}) /\ \A d \in Connections \ {c} : t.stage[d] = stage[d]
    BY <1>4, <1>5, <1>7, <1>8, <1>11, SetStage
  <2>2. Becomes(t)
    BY <1>1, <1>11 DEF s
  <2> HIDE DEF t
  <2> QED BY <1>2, <2>1, <2>2, BecomesInv DEF StaysAdded
<1>12. CASE Channels[c] # <<>> /\ c \notin WithMid
  <2>1. Becomes(Add(s, c))
    BY <1>1, <1>12 DEF s
  <2>2. Add(s, c) \in States
    BY <1>4, AddType
  <2>3. Inv(Add(s, c), {}) /\ \A d \in Connections \ {c} : Add(s, c).stage[d] = stage[d]
    BY <1>2, <1>4, <1>5, <1>8, <1>12, AddInv
  <2> QED BY <1>2, <2>1, <2>2, <2>3, BecomesInv DEF StaysAdded
<1> QED BY <1>10, <1>11, <1>12

LEMMA LoadedInv ==
  ASSUME LimitAboveOne, PublicIdsAreUnambiguous, RegistryInv,
         NEW c \in Connections, Loaded(c)
  PROVE  RegistryInv' /\ StaysAdded
<1>1. PICK missed \in BOOLEAN :
        Becomes(Add(IF missed THEN Send(State, c) ELSE State, c))
  BY DEF Loaded
<1> DEFINE s == IF missed THEN Send(State, c) ELSE State
<1>2. /\ State \in States /\ Inv(State, {}) /\ State.stage = stage
      /\ stage[c] = "loading"
  BY StateInv DEF Loaded
<1>3. s \in States /\ Inv(s, {}) /\ s.stage = stage
  BY <1>2, SendType, SendInv
<1>4. Channels[c] # <<>>
  BY <1>2, OwnChannels
<1>5. Becomes(Add(s, c))
  BY <1>1
<1> HIDE DEF s
<1>6. /\ Add(s, c) \in States /\ Inv(Add(s, c), {})
      /\ \A d \in Connections \ {c} : Add(s, c).stage[d] = stage[d]
  BY <1>2, <1>3, <1>4, AddType, AddInv
<1> QED BY <1>2, <1>5, <1>6, BecomesInv DEF StaysAdded

LEMMA LoadFailedInv ==
  ASSUME PublicIdsAreUnambiguous, RegistryInv, NEW c \in Connections, LoadFailed(c)
  PROVE  RegistryInv' /\ StaysAdded
<1>1. /\ State \in States /\ Inv(State, {}) /\ State.stage = stage
      /\ stage[c] = "loading"
  BY StateInv DEF LoadFailed
<1>2. ~Registered(State, c)
  BY <1>1, OwnChannels
<1>3. /\ Close(State, c) \in States /\ Inv(Close(State, c), {})
      /\ Close(State, c).stage = stage /\ ~Registered(Close(State, c), c)
  BY <1>1, <1>2, CloseType, CloseInv, CloseStage, CloseStillUnregistered
<1> DEFINE t == [Close(State, c) EXCEPT !.stage[c] = "refused"]
<1>4. t \in States /\ Inv(t, {}) /\ \A d \in Connections \ {c} : t.stage[d] = stage[d]
  BY <1>3, SetStage
<1>5. Becomes(t)
  BY DEF LoadFailed
<1> HIDE DEF t
<1> QED BY <1>1, <1>4, <1>5, BecomesInv DEF StaysAdded

(***************************************************************************)
(* The handlers of a websocket that do not touch the registry.             *)
(***************************************************************************)
LEMMA WebsocketFieldInv ==
  ASSUME RegistryInv, NEW c \in Websockets, NEW a \in BOOLEAN,
         NEW w \in {"open", "closing", "terminated"},
         w = "open" => socket[c] = "open",
         Becomes([State EXCEPT !.active[c] = a, !.socket[c] = w])
  PROVE  RegistryInv' /\ StaysAdded
<1> DEFINE t == [State EXCEPT !.active[c] = a, !.socket[c] = w]
<1>1. /\ State \in States /\ Inv(State, {}) /\ State.stage = stage
      /\ State.socket = socket /\ c \in Connections
  BY StateInv, AdapterAssumption
<1>2. t \in States
  BY <1>1, FieldType DEF Socket
<1>3. /\ t.connections = State.connections /\ t.pubChannels = State.pubChannels
      /\ t.stage = stage /\ t.active[c] = a /\ t.socket[c] = w
      /\ \A d \in Connections \ {c} : /\ t.active[d] = State.active[d]
                                      /\ t.socket[d] = socket[d]
  BY <1>1 DEF States
<1> HIDE DEF t
<1>4. \A d : Registered(t, d) <=> Registered(State, d)
  BY <1>3 DEF Registered
<1>5. Enrolled(t, {}) /\ Whole(t, {})
  BY <1>1, <1>3, <1>4 DEF Inv, Enrolled, Whole, In
<1>6. Open(t, {}) /\ Live(t, {})
  BY <1>1, <1>3, <1>4 DEF Inv, Open, Live, Polls
<1>7. Unanswered(t) /\ Started(t, {}) /\ Named(t, {})
  BY <1>1, <1>3, <1>4 DEF Inv, Unanswered, Started, Named, Resolves, Polls
<1>8. Inv(t, {}) /\ Becomes(t)
  BY <1>5, <1>6, <1>7 DEF Inv, t
<1> QED BY <1>1, <1>2, <1>3, <1>8, BecomesInv DEF StaysAdded

LEMMA SocketClosedInv ==
  ASSUME PublicIdsAreUnambiguous, RegistryInv, NEW c \in Connections, SocketClosed(c)
  PROVE  RegistryInv' /\ StaysAdded
<1> DEFINE s == [State EXCEPT !.socket[c] = "closed"]
           t == [State EXCEPT !.active[c] = FALSE, !.socket[c] = "closed"]
<1>1. State \in States /\ Inv(State, {}) /\ State.stage = stage
  BY StateInv
<1>2. [s EXCEPT !.active[c] = FALSE] = t
  BY <1>1 DEF States
<1>3. EmitClose(s, c) = IF stage[c] = "added" THEN Delete(t, c) ELSE t
  BY <1>1, <1>2 DEF EmitClose
<1>4. /\ t \in States /\ t.connections = State.connections /\ t.stage = stage
      /\ t.socket[c] = "closed"
  <2>1. FALSE \in BOOLEAN /\ "closed" \in Socket
    BY DEF Socket
  <2>2. t \in States
    BY <1>1, <2>1, FieldType
  <2> QED BY <1>1, <2>2 DEF States
<1>5. Inv(t, {} \cup {c})
  <2>1. /\ Inv(State, {} \cup {c}) /\ c \in {} \cup {c}
        /\ FALSE \in BOOLEAN /\ "closed" \in Socket
        /\ ~(c \in Polls /\ FALSE)
    BY <1>1, Exempt DEF Socket
  <2> QED BY <1>1, <2>1, ChangeExempt, Zenon
<1>6. Becomes(EmitClose(s, c))
  BY DEF SocketClosed
<1> HIDE DEF s, t
<1>7. /\ \A p \in Private : In(t, c, p) => p \in PrivateIds(c)
      /\ Registered(t, c) => stage[c] = "added"
      /\ stage[c] \in {"loading", "added"} => Channels[c] # <<>>
  BY <1>1, <1>4, OwnChannels DEF In, Registered
<1>8. CASE stage[c] = "added"
  <2>1. Inv(Delete(t, c), {} \cup {c}) /\ ~Registered(Delete(t, c), c)
    BY <1>4, <1>5, <1>7, DeleteInv
  <2>2. /\ Delete(t, c) \in States /\ Delete(t, c).stage = stage
        /\ Delete(t, c).socket[c] # "open"
    BY <1>4, DeleteType, DeleteParts
  <2>3. Inv(Delete(t, c), {})
    BY <1>7, <2>1, <2>2, Readmit
  <2> QED BY <1>3, <1>6, <1>8, <2>2, <2>3, BecomesInv DEF StaysAdded
<1>9. CASE stage[c] # "added"
  <2>1. Inv(t, {})
    BY <1>4, <1>5, <1>7, <1>9, Readmit
  <2> QED BY <1>3, <1>4, <1>6, <1>9, <2>1, BecomesInv DEF StaysAdded
<1> QED BY <1>8, <1>9

LEMMA NextInv ==
  ASSUME LimitAboveOne, PublicIdsAreUnambiguous, RegistryInv, Next
  PROVE  RegistryInv' /\ StaysAdded
<1>1. State \in States /\ Inv(State, {}) /\ State.stage = stage /\ Polls \subseteq Connections
  BY StateInv DEF Polls
<1>2. ASSUME NEW c \in Connections, PollTimeout(c) PROVE RegistryInv' /\ StaysAdded
  BY <1>1, <1>2, CloseType, CloseInv, CloseStage, BecomesInv DEF PollTimeout, StaysAdded
<1>3. ASSUME NEW c \in Connections, Ping(c) PROVE RegistryInv' /\ StaysAdded
  <2>1. CASE active[c]
    <3>1. [State EXCEPT !.active[c] = FALSE]
            = [State EXCEPT !.active[c] = FALSE, !.socket[c] = socket[c]]
      BY <1>1, StateInv DEF States
    <3> QED BY <1>3, <2>1, <3>1, WebsocketFieldInv DEF Ping
  <2>2. CASE ~active[c]
    <3>1. [State EXCEPT !.socket[c] = "terminated"]
            = [State EXCEPT !.active[c] = active[c], !.socket[c] = "terminated"]
      BY <1>1, StateInv DEF States
    <3>2. active[c] \in BOOLEAN
      BY <1>1, StateInv DEF States
    <3> QED BY <1>3, <2>2, <3>1, <3>2, WebsocketFieldInv DEF Ping
  <2> QED BY <2>1, <2>2
<1>4. ASSUME NEW c \in Connections, Pong(c) PROVE RegistryInv' /\ StaysAdded
  <2>1. [State EXCEPT !.active[c] = TRUE]
          = [State EXCEPT !.active[c] = TRUE, !.socket[c] = socket[c]]
    BY <1>1, StateInv DEF States
  <2> QED BY <1>4, <2>1, WebsocketFieldInv DEF Pong
<1>5. ASSUME NEW c \in Connections, PeerCloses(c) PROVE RegistryInv' /\ StaysAdded
  <2>1. [State EXCEPT !.socket[c] = "closing"]
          = [State EXCEPT !.active[c] = active[c], !.socket[c] = "closing"]
    BY <1>1, StateInv DEF States
  <2>2. active[c] \in BOOLEAN
    BY <1>1, StateInv DEF States
  <2> QED BY <1>5, <2>1, <2>2, WebsocketFieldInv DEF PeerCloses
<1>6. ASSUME NEW rs \in Messages, Broadcast(rs) PROVE RegistryInv' /\ StaysAdded
  <2>1. rs \in Seq(Receiver) /\ Len(rs) \in 0..Len(rs)
    BY AdapterAssumption DEF Messages
  <2>2. SendToReceivers(State, rs) \in States
    BY <1>1, <2>1, SendToReceiversRounds
  <2>3. Inv(SendToReceivers(State, rs), {}) /\ SendToReceivers(State, rs).stage = stage
    BY <1>1, <2>1, SendToReceiversInv
  <2> QED BY <1>6, <2>2, <2>3, BecomesInv DEF Broadcast, StaysAdded
<1> QED BY <1>2, <1>3, <1>4, <1>5, <1>6,
           SubscribeInv, LoadedInv, LoadFailedInv, SocketClosedInv DEF Next

(***************************************************************************)
(* What the invariant says of the properties checked in Adapter.           *)
(***************************************************************************)
LEMMA InvImpliesProperties ==
  ASSUME RegistryInv
  PROVE  /\ AllOrNothing /\ OpenSubscriberIsRegistered
         /\ RegisteredPollIsUnanswered /\ NoGhost /\ PublicIdResolves
<1>1. State \in States /\ Inv(State, {})
  BY StateInv
<1>2. /\ \A c, p : In(State, c, p) <=> c \in Members(p)
      /\ \A c : Registered(State, c) <=> IsRegistered(c)
      /\ State.stage = stage /\ State.socket = socket /\ State.active = active
      /\ State.pubChannels = pubChannels
  BY DEF In, Members, IsRegistered, State
<1>3. AllOrNothing
  BY <1>1, <1>2 DEF Inv, Enrolled, Whole, AllOrNothing, SubscribesTo
<1>4. OpenSubscriberIsRegistered
  BY <1>1, <1>2 DEF Inv, Open, Whole, OpenSubscriberIsRegistered
<1>5. RegisteredPollIsUnanswered
  BY <1>1, <1>2 DEF Inv, Live, Unanswered, RegisteredPollIsUnanswered, Polls
<1>6. NoGhost
  BY <1>1, <1>2 DEF Inv, Live, Unanswered, NoGhost, Polls
<1>7. PublicIdResolves
  BY <1>1, <1>2, ChannelType DEF Inv, Named, Resolves, PublicIdResolves
<1> QED BY <1>3, <1>4, <1>5, <1>6, <1>7

LEMMA RegistryInvariant ==
  ASSUME LimitAboveOne, PublicIdsAreUnambiguous
  PROVE  Spec => []RegistryInv
<1>1. RegistryInv /\ [Next]_vars => RegistryInv'
  <2> SUFFICES ASSUME RegistryInv, [Next]_vars PROVE RegistryInv'
    OBVIOUS
  <2>1. CASE Next
    BY <2>1, NextInv
  <2>2. CASE UNCHANGED vars
    <3>1. State' = State /\ TypeOK'
      BY <2>2 DEF vars, State, RegistryInv, TypeOK
    <3> QED BY <3>1 DEF RegistryInv, Inv, Enrolled, Whole, Open, Live, Unanswered,
                        Started, Named, Registered, In, Resolves
  <2> QED BY <2>1, <2>2
<1> QED BY <1>1, InitInv, PTL DEF Spec

(* Evicting, closing and adding keep a connection in all its channels or none. *)
THEOREM RegistrationIsAllOrNothing ==
  ASSUME LimitAboveOne, PublicIdsAreUnambiguous
  PROVE  Spec => []AllOrNothing
<1>1. Spec => []RegistryInv
  BY RegistryInvariant
<1>2. RegistryInv => AllOrNothing
  BY InvImpliesProperties
<1> QED BY <1>1, <1>2, PTL

(* No added connection with an open transport is deaf. *)
THEOREM NoDeafSubscriber ==
  ASSUME LimitAboveOne, PublicIdsAreUnambiguous
  PROVE  Spec => []OpenSubscriberIsRegistered
<1>1. Spec => []RegistryInv
  BY RegistryInvariant
<1>2. RegistryInv => OpenSubscriberIsRegistered
  BY InvImpliesProperties
<1> QED BY <1>1, <1>2, PTL

(* No handler of the registry answers a poll twice. *)
THEOREM RegisteredPollsCanBeAnswered ==
  ASSUME LimitAboveOne, PublicIdsAreUnambiguous
  PROVE  Spec => []RegisteredPollIsUnanswered
<1>1. Spec => []RegistryInv
  BY RegistryInvariant
<1>2. RegistryInv => RegisteredPollIsUnanswered
  BY InvImpliesProperties
<1> QED BY <1>1, <1>2, PTL

(* Nobody stays registered without a transport, polls of the cloud aside. *)
THEOREM NoGhostSubscriber ==
  ASSUME LimitAboveOne, PublicIdsAreUnambiguous
  PROVE  Spec => []NoGhost
<1>1. Spec => []RegistryInv
  BY RegistryInvariant
<1>2. RegistryInv => NoGhost
  BY InvImpliesProperties
<1> QED BY <1>1, <1>2, PTL

(* The public id of a registered subscriber's channel resolves. *)
THEOREM PublicIdsResolve ==
  ASSUME LimitAboveOne, PublicIdsAreUnambiguous
  PROVE  Spec => []PublicIdResolves
<1>1. Spec => []RegistryInv
  BY RegistryInvariant
<1>2. RegistryInv => PublicIdResolves
  BY InvImpliesProperties
<1> QED BY <1>1, <1>2, PTL

(* A connection leaves a channel only when its transport is going away. *)
THEOREM RemovalClosesTheTransport ==
  ASSUME LimitAboveOne, PublicIdsAreUnambiguous
  PROVE  Spec => NoSilentRemoval
<1> DEFINE A == \A c \in Connections, p \in Private :
                  c \in Members(p) /\ c \notin Members(p)' => socket'[c] # "open"
<1>a. RegistryInv => OpenSubscriberIsRegistered
  BY InvImpliesProperties
<1>b. RegistryInv' => OpenSubscriberIsRegistered'
  BY <1>a, PTL
<1>1. RegistryInv /\ RegistryInv' /\ [Next]_vars => [A]_vars
  <2> SUFFICES ASSUME RegistryInv, RegistryInv', Next,
                      NEW c \in Connections, NEW p \in Private,
                      c \in Members(p), c \notin Members(p)'
               PROVE  socket'[c] # "open"
    BY DEF Members, vars
  <2>1. Inv(State, {}) /\ In(State, c, p)
    BY StateInv DEF In, Members, State
  <2>2. p \in PrivateIds(c) /\ stage[c] = "added"
    BY <2>1, StateInv DEF Inv, Enrolled
  <2>3. stage'[c] = "added"
    BY <2>2, NextInv DEF StaysAdded
  <2>4. OpenSubscriberIsRegistered'
    BY <1>b
  <2> QED BY <2>2, <2>3, <2>4 DEF OpenSubscriberIsRegistered
<1>2. Spec => []RegistryInv
  BY RegistryInvariant
<1> QED BY <1>1, <1>2, PTL DEF Spec, NoSilentRemoval

-----------------------------------------------------------------------------
(***************************************************************************)
(* What the registry keeps about its channels, apart from who is in them:  *)
(* their size, their public ids and the counters of the statistics.  The   *)
(* newcomer in X is counted before it joins its first channel.             *)
(***************************************************************************)
AlwaysNamed(p) ==
  \A c \in Connections : \A i \in DOMAIN Channels[c] :
    Channels[c][i].private = p => Channels[c][i].public # NoId

Capped(s) ==
  \A p \in Private : AlwaysNamed(p) => Len(s.connections[p]) <= MaxConnPerChannel

ListedAs(p, q) ==
  \E d \in Connections : \E i \in DOMAIN Channels[d] :
    Channels[d][i].private = p /\ Channels[d][i].public = q

Tight(s) ==
  UniformChannels => \A q \in Public : s.pubChannels[q] # NoId =>
    /\ s.connections[s.pubChannels[q]] # <<>>
    /\ ListedAs(s.pubChannels[q], q)

Counted(s, X, S) == {d \in S : d \in X \/ Registered(s, d)}

IsSizeOf(n, S) == IsFiniteSet(S) /\ n = Cardinality(S)

Tallied(s, X) ==
  /\ IsSizeOf(s.websockets, Counted(s, X, Websockets))
  /\ IsSizeOf(s.pollings, Counted(s, X, Polls))

Ledger(s, X) == Capped(s) /\ Tight(s) /\ Tallied(s, X)

LEMMA LedgerSame ==
  ASSUME NEW s, NEW t, NEW X, Ledger(s, X),
         t.connections = s.connections, t.pubChannels = s.pubChannels,
         t.websockets = s.websockets, t.pollings = s.pollings
  PROVE  Ledger(t, X)
<1>1. \A S : Counted(t, X, S) = Counted(s, X, S)
  BY DEF Counted, Registered
<1> QED BY <1>1 DEF Ledger, Capped, Tight, Tallied

(* Of the channels a connection lists under one private id there is a first. *)
LEMMA FirstListing ==
  ASSUME NEW c \in Connections, NEW p \in PrivateIds(c)
  PROVE  \E j \in DOMAIN Channels[c] :
           /\ Channels[c][j].private = p
           /\ \A k \in 1..(j - 1) : Channels[c][k].private # p
<1> DEFINE n == Len(Channels[c])
           None == {i \in 0..n : \A k \in 1..i : Channels[c][k].private # p}
<1>0. n \in Nat /\ DOMAIN Channels[c] = 1..n
  BY ChannelType
<1> SUFFICES ASSUME \A j \in 1..n :
                      (\A k \in 1..(j - 1) : Channels[c][k].private # p)
                        => Channels[c][j].private # p
             PROVE  FALSE
  BY <1>0
<1>1. 0 \in None
  BY <1>0
<1>2. ASSUME NEW k \in 1..n, k - 1 \in None PROVE k \in None
  <2>1. \A i \in 1..k : i \in 1..(k - 1) \/ i = k
    BY <1>0
  <2> QED BY <1>0, <1>2, <2>1
<1> HIDE DEF None
<1>3. 0..n \subseteq None
  BY <1>0, <1>1, <1>2, UpToInduction
<1>4. \A k \in 1..n : Channels[c][k].private # p
  BY <1>0, <1>3 DEF None
<1> QED BY <1>0, <1>4 DEF PrivateIds

-----------------------------------------------------------------------------
LEMMA DeleteCounters ==
  ASSUME NEW s \in States, NEW c \in Connections
  PROVE  LET t == Delete(s, c)
             less == IF Registered(s, c) THEN 1 ELSE 0
         IN  /\ t.websockets = IF c \in Websockets THEN s.websockets - less ELSE s.websockets
             /\ t.pollings = IF c \in Websockets THEN s.pollings ELSE s.pollings - less
<1> DEFINE conns == [p \in Private |->
                       IF p \in PrivateIds(c) THEN RemoveFirst(s.connections[p], c)
                                              ELSE s.connections[p]]
           pubs == [q \in Public |->
                      IF q \in ReleasedPublicIds(s, c) THEN NoId ELSE s.pubChannels[q]]
           t == [s EXCEPT !.connections = conns, !.pubChannels = pubs]
<1>1. Delete(s, c) = IF Registered(s, c) THEN Count(t, c, -1) ELSE t
  BY DEF Delete
<1> HIDE DEF conns, pubs
<1>2. t.websockets = s.websockets /\ t.pollings = s.pollings
  BY DEF States
<1>3. s.websockets \in Int /\ s.pollings \in Int /\ DOMAIN t = DOMAIN s
      /\ "websockets" \in DOMAIN s /\ "pollings" \in DOMAIN s
  BY DEF States
<1> HIDE DEF t
<1> QED BY <1>1, <1>2, <1>3 DEF Count

LEMMA OneLess ==
  ASSUME NEW n, NEW S, IsSizeOf(n, S), NEW e
  PROVE  /\ e \in S => IsSizeOf(n - 1, S \ {e})
         /\ e \notin S => IsSizeOf(n, S \ {e})
<1>1. CASE e \in S
  BY <1>1, FS_RemoveElement DEF IsSizeOf
<1>2. CASE e \notin S
  <2>1. S \ {e} = S
    BY <1>2
  <2> QED BY <1>2, <2>1
<1> QED BY <1>1, <1>2

LEMMA DeleteLedger ==
  ASSUME NEW s \in States, NEW X, NEW f \in Connections \ X, Ledger(s, X),
         \A p \in Private : In(s, f, p) => p \in PrivateIds(f)
  PROVE  Ledger(Delete(s, f), X)
<1> DEFINE t == Delete(s, f)
<1>1. /\ \A p \in Private, d \in Connections : In(t, d, p) <=> In(s, d, p) /\ d # f
      /\ ~Registered(t, f)
      /\ \A d \in Connections \ {f} : Registered(t, d) <=> Registered(s, d)
  BY DeleteMembers
<1>2. /\ \A p \in Private : t.connections[p] =
            IF p \in PrivateIds(f) THEN RemoveFirst(s.connections[p], f)
                                   ELSE s.connections[p]
      /\ \A q \in Public : t.pubChannels[q] =
            IF q \in ReleasedPublicIds(s, f) THEN NoId ELSE s.pubChannels[q]
  BY DeleteParts
<1>3. \A p \in Private : s.connections[p] \in Seq(Connections) /\ IsInjective(s.connections[p])
  BY DEF States
<1>4. Tallied(t, X)
  <2> DEFINE less == IF Registered(s, f) THEN 1 ELSE 0
  <2>1. /\ t.websockets = IF f \in Websockets THEN s.websockets - less ELSE s.websockets
        /\ t.pollings = IF f \in Websockets THEN s.pollings ELSE s.pollings - less
    BY DeleteCounters
  <2>2. Websockets \subseteq Connections /\ Polls \subseteq Connections
    BY AdapterAssumption DEF Polls
  <2>3. /\ Counted(t, X, Websockets) = Counted(s, X, Websockets) \ {f}
        /\ Counted(t, X, Polls) = Counted(s, X, Polls) \ {f}
    BY <1>1, <2>2 DEF Counted
  <2>4. /\ f \in Counted(s, X, Websockets) <=> f \in Websockets /\ Registered(s, f)
        /\ f \in Counted(s, X, Polls) <=> f \notin Websockets /\ Registered(s, f)
    BY DEF Counted, Polls
  <2>5. s.websockets \in Int /\ s.pollings \in Int
    BY DEF States
  <2>6. IsSizeOf(t.websockets, Counted(s, X, Websockets) \ {f})
    BY <2>1, <2>4, <2>5, OneLess DEF Ledger, Tallied
  <2>7. IsSizeOf(t.pollings, Counted(s, X, Polls) \ {f})
    BY <2>1, <2>4, <2>5, OneLess DEF Ledger, Tallied
  <2> QED BY <2>3, <2>6, <2>7 DEF Tallied
<1>5. Capped(t)
  <2> SUFFICES ASSUME NEW p \in Private, AlwaysNamed(p)
               PROVE  Len(t.connections[p]) <= MaxConnPerChannel
    BY DEF Capped
  <2>1. Len(s.connections[p]) <= MaxConnPerChannel
    BY DEF Ledger, Capped
  <2>2. CASE t.connections[p] = s.connections[p]
    BY <2>1, <2>2
  <2>3. CASE t.connections[p] = RemoveFirst(s.connections[p], f)
    <3>1. CASE f \in ToSet(s.connections[p])
      <4>1. Len(t.connections[p]) = Len(s.connections[p]) - 1
        BY <1>3, <2>3, <3>1, RemoveFirstPresent
      <4> QED BY <1>3, <2>1, <4>1, AdapterAssumption
    <3>2. CASE f \notin ToSet(s.connections[p])
      BY <1>3, <2>1, <2>3, <3>2, RemoveFirstAbsent
    <3> QED BY <3>1, <3>2
  <2> QED BY <1>2, <2>2, <2>3
<1>6. Tight(t)
  <2> SUFFICES ASSUME UniformChannels, NEW q \in Public, t.pubChannels[q] # NoId
               PROVE  t.connections[t.pubChannels[q]] # <<>> /\ ListedAs(t.pubChannels[q], q)
    BY DEF Tight
  <2> DEFINE p == s.pubChannels[q]
  <2>1. t.pubChannels[q] = p /\ p # NoId /\ q \notin ReleasedPublicIds(s, f)
    BY <1>2
  <2>2. p \in Private /\ s.connections[p] # <<>> /\ ListedAs(p, q)
    BY <2>1 DEF Ledger, Tight, States
  <2> HIDE DEF t, p
  <2>3. CASE s.connections[p] = <<f>>
    <3>1. f \in ToSet(s.connections[p])
      BY <2>3 DEF ToSet
    <3>2. p \in PrivateIds(f)
      BY <2>2, <3>1 DEF In
    <3>3. PICK j \in DOMAIN Channels[f] :
            /\ Channels[f][j].private = p
            /\ \A k \in 1..(j - 1) : Channels[f][k].private # p
      BY <3>2, FirstListing
    <3>4. Channels[f][j].public = q
      BY <2>2, <3>3 DEF ListedAs, UniformChannels
    <3>5. q \in ReleasedPublicIds(s, f)
      BY <2>3, <3>3, <3>4 DEF ReleasedPublicIds, LastMember
    <3> QED BY <2>1, <3>5
  <2>4. CASE s.connections[p] # <<f>>
    <3>1. t.connections[p] # <<>>
      <4>1. CASE f \in ToSet(s.connections[p])
        <5>1. Len(s.connections[p]) # 1
          BY <1>3, <2>2, <2>4, <4>1 DEF ToSet
        <5>2. t.connections[p] = s.connections[p]
               \/ Len(t.connections[p]) = Len(s.connections[p]) - 1
          BY <1>2, <1>3, <2>2, <4>1, RemoveFirstPresent
        <5>3. Len(s.connections[p]) \in Nat /\ Len(s.connections[p]) # 0
          BY <1>3, <2>2
        <5>4. \A n \in Nat : n # 0 /\ n # 1 => n - 1 # 0
          OBVIOUS
        <5>5. Len(t.connections[p]) # 0
          BY <2>2, <5>1, <5>2, <5>3, <5>4
        <5> QED BY <5>5
      <4>2. CASE f \notin ToSet(s.connections[p])
        BY <1>2, <1>3, <2>2, <4>2, RemoveFirstAbsent
      <4> QED BY <4>1, <4>2
    <3> QED BY <2>1, <2>2, <3>1
  <2> QED BY <2>3, <2>4
<1> QED BY <1>4, <1>5, <1>6 DEF Ledger

LEMMA ShutLedger ==
  ASSUME NEW s \in States, NEW X, NEW c \in Connections, Ledger(s, X)
  PROVE  Ledger(Shut(s, c), X)
<1>1. /\ Shut(s, c).connections = s.connections
      /\ Shut(s, c).pubChannels = s.pubChannels
      /\ Shut(s, c).websockets = s.websockets
      /\ Shut(s, c).pollings = s.pollings
  BY DEF Shut, States
<1> QED BY <1>1, LedgerSame

LEMMA CloseLedger ==
  ASSUME NEW s \in States, NEW c \in Connections, Inv(s, {}), Ledger(s, {})
  PROVE  Ledger(Close(s, c), {})
<1> DEFINE t == Shut(s, c)
<1>1. /\ t \in States /\ t.connections = s.connections /\ t.stage = s.stage
      /\ Ledger(t, {}) /\ c \in Connections \ {}
  BY ShutParts, ShutLedger
<1>2. \A p \in Private : In(t, c, p) => p \in PrivateIds(c)
  BY <1>1, OwnChannels DEF In
<1>3. Close(s, c) = IF c \in Websockets THEN t ELSE EmitClose(t, c)
  BY DEF Close, Shut
<1>4. EmitClose(t, c) = IF t.stage[c] = "added" THEN Delete(t, c) ELSE t
  <2>1. [t EXCEPT !.active[c] = FALSE] = t
    BY ShutParts
  <2> QED BY <2>1 DEF EmitClose
<1> HIDE DEF t
<1>5. Ledger(Delete(t, c), {})
  BY <1>1, <1>2, DeleteLedger
<1> QED BY <1>1, <1>3, <1>4, <1>5

(***************************************************************************)
(* The loops of Adapter.broadcast keep what Connection.send keeps.         *)
(***************************************************************************)
LEMMA SendAllKeeps ==
  ASSUME NEW G \in SUBSET States, \A x \in G, c \in Connections : Send(x, c) \in G,
         NEW s \in G, NEW members \in Seq(Connections)
  PROVE  SendAll(s, members) \in G
<1>1. PICK f \in [0..Len(members) -> States] :
         /\ f[0] = s
         /\ \A i \in 1..Len(members) : f[i] = Send(f[i-1], members[i])
         /\ SendAll(s, members) = f[Len(members)]
  BY SendAllRounds
<1> DEFINE Good == {i \in 0..Len(members) : f[i] \in G}
<1>2. 0 \in Good
  BY <1>1
<1>3. ASSUME NEW k \in 1..Len(members), k - 1 \in Good PROVE k \in Good
  <2>1. f[k-1] \in G /\ members[k] \in Connections
    BY <1>3
  <2> QED BY <1>1, <2>1
<1> HIDE DEF Good
<1>4. 0..Len(members) \subseteq Good
  <2>1. Len(members) \in Nat
    OBVIOUS
  <2> QED BY <1>2, <1>3, <2>1, UpToInduction, Zenon
<1>5. Len(members) \in 0..Len(members)
  OBVIOUS
<1> QED BY <1>1, <1>4, <1>5 DEF Good

LEMMA SendToReceiversKeeps ==
  ASSUME NEW G \in SUBSET States, \A x \in G, c \in Connections : Send(x, c) \in G,
         NEW s \in G, NEW rs \in Seq(Receiver)
  PROVE  SendToReceivers(s, rs) \in G
<1>1. PICK f \in [0..Len(rs) -> States] :
         /\ f[0] = s
         /\ \A i \in 1..Len(rs) : f[i] = SendTo(f[i-1], rs[i])
         /\ SendToReceivers(s, rs) = f[Len(rs)]
  BY SendToReceiversRounds
<1> DEFINE Good == {i \in 0..Len(rs) : f[i] \in G}
<1>2. 0 \in Good
  BY <1>1
<1>3. ASSUME NEW x \in G, NEW r \in Receiver PROVE SendTo(x, r) \in G
  <2>1. CASE Resolve(x, r) = NoId
    BY <2>1 DEF SendTo
  <2>2. CASE Resolve(x, r) # NoId
    <3>0. x \in States
      OBVIOUS
    <3>1. Resolve(x, r) \in Private
      BY <2>2, <3>0 DEF Resolve, Receiver, States
    <3>2. x.connections[Resolve(x, r)] \in Seq(Connections)
      BY <3>0, <3>1 DEF States
    <3> QED BY <2>2, <3>2, SendAllKeeps DEF SendTo
  <2> QED BY <2>1, <2>2
<1>4. ASSUME NEW k \in 1..Len(rs), k - 1 \in Good PROVE k \in Good
  <2>1. f[k-1] \in G /\ rs[k] \in Receiver
    BY <1>4
  <2>2. SendTo(f[k-1], rs[k]) \in G
    BY <1>3, <2>1
  <2> QED BY <1>1, <2>2
<1> HIDE DEF Good
<1>5. 0..Len(rs) \subseteq Good
  <2>1. Len(rs) \in Nat
    OBVIOUS
  <2> QED BY <1>2, <1>4, <2>1, UpToInduction, Zenon
<1>6. Len(rs) \in 0..Len(rs)
  OBVIOUS
<1> QED BY <1>1, <1>5, <1>6 DEF Good

LEMMA BeforeRemoval ==
  ASSUME NEW S, NEW q \in Seq(S), IsInjective(q), NEW e, NEW x, NEW y,
         Before(RemoveFirst(q, e), x, y)
  PROVE  Before(q, x, y)
<1>1. CASE e \notin ToSet(q)
  BY <1>1, RemoveFirstAbsent
<1>2. CASE e \in ToSet(q)
  <2>1. PICK k \in 1..Len(q) : q[k] = e
    BY <1>2 DEF ToSet
  <2> DEFINE r == RemoveFirst(q, e)
  <2>2. /\ Len(r) = Len(q) - 1
        /\ \A j \in 1..(Len(q) - 1) : r[j] = IF j < k THEN q[j] ELSE q[j+1]
    BY <2>1, RemoveFirstIsRemoveAt, RemoveAtPosition
  <2>3. PICK i, j \in 1..Len(r) : r[i] = x /\ r[j] = y /\ i < j
    BY DEF Before
  <2> HIDE DEF r
  <2> DEFINE up(n) == IF n < k THEN n ELSE n + 1
  <2>4. up(i) \in 1..Len(q) /\ up(j) \in 1..Len(q) /\ up(i) < up(j)
    BY <2>2, <2>3
  <2>5. q[up(i)] = x /\ q[up(j)] = y
    BY <2>2, <2>3
  <2> QED BY <2>4, <2>5 DEF Before
<1> QED BY <1>1, <1>2

(* Those who stay in a Set from s to t keep their order. *)
SameOrder(s, t) ==
  \A p \in Private, x, y \in Connections :
    Before(t.connections[p], x, y) => Before(s.connections[p], x, y)

LEMMA DeleteOrder ==
  ASSUME NEW s \in States, NEW c \in Connections
  PROVE  SameOrder(s, Delete(s, c))
<1> SUFFICES ASSUME NEW p \in Private, NEW x \in Connections, NEW y \in Connections,
                    Before(Delete(s, c).connections[p], x, y)
             PROVE  Before(s.connections[p], x, y)
  BY DEF SameOrder
<1>1. s.connections[p] \in Seq(Connections) /\ IsInjective(s.connections[p])
  BY DEF States
<1>2. \/ Delete(s, c).connections[p] = s.connections[p]
      \/ Delete(s, c).connections[p] = RemoveFirst(s.connections[p], c)
  BY DeleteParts
<1> QED BY <1>1, <1>2, BeforeRemoval

LEMMA SameOrderKept ==
  ASSUME NEW s, NEW t, t.connections = s.connections
  PROVE  SameOrder(s, t)
BY DEF SameOrder

(***************************************************************************)
(* From s to t connections only leave the registry.                        *)
(***************************************************************************)
Recedes(s, t) ==
  /\ t \in States /\ Inv(t, {}) /\ Ledger(t, {})
  /\ \A c \in Connections, p \in Private : In(t, c, p) => In(s, c, p)
  /\ SameOrder(s, t)
  /\ t.stage = s.stage

LEMMA CloseRecedes ==
  ASSUME PublicIdsAreUnambiguous,
         NEW s \in States, NEW c \in Connections, Inv(s, {}), Ledger(s, {})
  PROVE  Recedes(s, Close(s, c))
<1> DEFINE t == Shut(s, c)
<1>1. /\ Close(s, c) \in States /\ Inv(Close(s, c), {}) /\ Ledger(Close(s, c), {})
      /\ Close(s, c).stage = s.stage
  BY CloseType, CloseInv, CloseStage, CloseLedger
<1>2. Close(s, c) = t \/ Close(s, c) = Delete(t, c)
  <2>1. Close(s, c) = IF c \in Websockets THEN t ELSE EmitClose(t, c)
    BY DEF Close, Shut
  <2>2. [t EXCEPT !.active[c] = FALSE] = t
    BY ShutParts
  <2> QED BY <2>1, <2>2 DEF EmitClose
<1>3. t \in States /\ t.connections = s.connections
  BY ShutParts
<1> HIDE DEF t
<1>4. \A d \in Connections, p \in Private : In(t, d, p) <=> In(s, d, p)
  BY <1>3 DEF In
<1>5. \A p \in Private : In(t, c, p) => p \in PrivateIds(c)
  BY <1>4, OwnChannels
<1>6. \A d \in Connections, p \in Private : In(Delete(t, c), d, p) => In(s, d, p)
  BY <1>3, <1>4, <1>5, DeleteMembers
<1>7. SameOrder(s, t) /\ SameOrder(s, Delete(t, c))
  BY <1>3, DeleteOrder DEF SameOrder
<1> QED BY <1>1, <1>2, <1>4, <1>6, <1>7 DEF Recedes

LEMMA SendToReceiversRecedes ==
  ASSUME PublicIdsAreUnambiguous,
         NEW s \in States, NEW rs \in Seq(Receiver), Inv(s, {}), Ledger(s, {})
  PROVE  Recedes(s, SendToReceivers(s, rs))
<1> DEFINE G == {x \in States : Recedes(s, x)}
<1>1. ASSUME NEW x \in G, NEW c \in Connections PROVE Send(x, c) \in G
  <2>1. x \in States /\ Recedes(s, x)
    OBVIOUS
  <2>2. Recedes(x, Close(x, c))
    BY <2>1, CloseRecedes DEF Recedes
  <2>3. Recedes(s, Close(x, c))
    BY <2>1, <2>2 DEF Recedes, SameOrder
  <2>4. Recedes(s, Send(x, c))
    BY <2>1, <2>3 DEF Send
  <2> QED BY <2>4 DEF Recedes
<1>2. G \in SUBSET States /\ s \in G
  BY DEF Recedes, SameOrder
<1> HIDE DEF G
<1>3. SendToReceivers(s, rs) \in G
  BY <1>1, <1>2, SendToReceiversKeeps
<1> QED BY <1>3 DEF G

-----------------------------------------------------------------------------
LEMMA MakeRoomLedger ==
  ASSUME LimitAboveOne, PublicIdsAreUnambiguous,
         NEW s \in States, NEW c \in Connections, NEW ch \in Channel,
         Inv(s, {c}), Newest(s, c), Ledger(s, {c})
  PROVE  /\ Ledger(MakeRoom(s, ch), {c})
         /\ AlwaysNamed(ch.private) /\ ch.public # NoId
              => Len(MakeRoom(s, ch).connections[ch.private]) + 1 <= MaxConnPerChannel
<1> DEFINE q == s.connections[ch.private]
<1>1. ch.private \in Private /\ q \in Seq(Connections) /\ Len(q) \in Nat
      /\ MaxConnPerChannel \in Nat /\ MaxConnPerChannel >= 2
  BY AdapterAssumption DEF Channel, States, LimitAboveOne
<1>2. AlwaysNamed(ch.private) => Len(q) <= MaxConnPerChannel
  BY <1>1 DEF Ledger, Capped
<1>3. CASE Full(s, ch)
  <2> DEFINE f == Oldest(s, ch)
  <2>1. /\ f \in Connections \ {c} /\ Evicted(s, ch, f)
        /\ Len(MakeRoom(s, ch).connections[ch.private]) = Len(q) - 1
    BY <1>3, EvictsTheOldestMember
  <2> HIDE DEF f
  <2>2. Ledger(Delete(s, f), {c})
    BY <2>1, DeleteLedger DEF Evicted
  <2>3. Ledger(Shut(Delete(s, f), f), {c})
    BY <2>1, <2>2, ShutLedger DEF Evicted
  <2> QED BY <1>1, <1>2, <2>1, <2>3 DEF Evicted
<1>4. CASE ~Full(s, ch)
  <2>1. MakeRoom(s, ch) = s
    BY <1>4 DEF MakeRoom
  <2>2. ch.public # NoId => Len(q) < MaxConnPerChannel \/ Len(q) = 0
    BY <1>1, <1>4 DEF Full
  <2> QED BY <1>1, <2>1, <2>2
<1> QED BY <1>3, <1>4

LEMMA AddChannelParts ==
  ASSUME LimitAboveOne, PublicIdsAreUnambiguous,
         NEW s \in States, NEW c \in Connections, NEW ch \in Channel,
         Inv(s, {c}), Newest(s, c)
  PROVE  LET m == MakeRoom(s, ch)
             v == AddChannel(s, c, ch)
         IN  /\ \A p \in Private : v.connections[p] =
                  IF p = ch.private /\ c \notin ToSet(m.connections[p])
                    THEN Append(m.connections[p], c) ELSE m.connections[p]
             /\ \A q \in Public : v.pubChannels[q] =
                  IF q = ch.public THEN ch.private ELSE m.pubChannels[q]
             /\ v.websockets = m.websockets /\ v.pollings = m.pollings
             /\ v.active = m.active /\ v.socket = m.socket /\ v.stage = m.stage
<1> DEFINE m == MakeRoom(s, ch)
           u == Join(m, c, ch)
           v == IF ch.public = NoId THEN u
                                    ELSE [u EXCEPT !.pubChannels[ch.public] = ch.private]
<1>1. ~(Full(s, ch) /\ m.connections[ch.private] = <<>>)
  BY MakeRoomInv
<1>2. AddChannel(s, c, ch) = v
  BY <1>1 DEF AddChannel
<1>3. m \in States /\ ch.private \in Private /\ ch.public \in Public \cup {NoId}
  BY MakeRoomType DEF Channel
<1> HIDE DEF m
<1>4. /\ \A p \in Private : u.connections[p] =
           IF p = ch.private /\ c \notin ToSet(m.connections[p])
             THEN Append(m.connections[p], c) ELSE m.connections[p]
      /\ u.pubChannels = m.pubChannels
      /\ u.websockets = m.websockets /\ u.pollings = m.pollings
      /\ u.active = m.active /\ u.socket = m.socket /\ u.stage = m.stage
      /\ u \in States
  <2>1. u \in States
    BY <1>3, JoinType
  <2>2. u = [m EXCEPT !.connections[ch.private] =
               IF c \in ToSet(m.connections[ch.private])
                 THEN m.connections[ch.private]
                 ELSE Append(m.connections[ch.private], c)]
    BY DEF Join
  <2>3. /\ m.connections \in [Private -> Seq(Connections)]
        /\ DOMAIN m = {"connections", "pubChannels", "websockets", "pollings",
                       "active", "socket", "stage"}
    BY <1>3 DEF States
  <2> HIDE DEF u
  <2>4. /\ u.connections = [m.connections EXCEPT ![ch.private] =
               IF c \in ToSet(m.connections[ch.private])
                 THEN m.connections[ch.private]
                 ELSE Append(m.connections[ch.private], c)]
        /\ u.pubChannels = m.pubChannels
        /\ u.websockets = m.websockets /\ u.pollings = m.pollings
        /\ u.active = m.active /\ u.socket = m.socket /\ u.stage = m.stage
    BY <2>2, <2>3
  <2> QED BY <1>3, <2>1, <2>3, <2>4
<1> HIDE DEF u
<1>5. /\ v.connections = u.connections
      /\ \A q \in Public : v.pubChannels[q] =
           IF q = ch.public THEN ch.private ELSE m.pubChannels[q]
      /\ v.websockets = m.websockets /\ v.pollings = m.pollings
      /\ v.active = m.active /\ v.socket = m.socket /\ v.stage = m.stage
  BY <1>3, <1>4, AdapterAssumption DEF States
<1> HIDE DEF v
<1> QED BY <1>2, <1>4, <1>5 DEF m

LEMMA AddChannelLedger ==
  ASSUME LimitAboveOne, PublicIdsAreUnambiguous,
         NEW s \in States, NEW c \in Connections, NEW i \in DOMAIN Channels[c],
         Inv(s, {c}), Newest(s, c), Ledger(s, {c})
  PROVE  Ledger(AddChannel(s, c, Channels[c][i]), {c})
<1> DEFINE ch == Channels[c][i]
           m == MakeRoom(s, ch)
           v == AddChannel(s, c, ch)
<1>1. ch \in Channel /\ ch.private \in Private
  BY ChannelType
<1>2. /\ Ledger(m, {c})
      /\ AlwaysNamed(ch.private) /\ ch.public # NoId
           => Len(m.connections[ch.private]) + 1 <= MaxConnPerChannel
  BY <1>1, MakeRoomLedger
<1>3. /\ \A p \in Private : v.connections[p] =
           IF p = ch.private /\ c \notin ToSet(m.connections[p])
             THEN Append(m.connections[p], c) ELSE m.connections[p]
      /\ \A q \in Public : v.pubChannels[q] =
           IF q = ch.public THEN ch.private ELSE m.pubChannels[q]
      /\ v.websockets = m.websockets /\ v.pollings = m.pollings
  BY <1>1, AddChannelParts
<1>4. \A p \in Private : m.connections[p] \in Seq(Connections) /\ IsInjective(m.connections[p])
  BY <1>1, MakeRoomType DEF States
<1>a. m.pubChannels \in [Public -> Private \cup {NoId}]
  BY <1>1, MakeRoomType DEF States
<1>b. AlwaysNamed(ch.private) => ch.public # NoId
  BY DEF AlwaysNamed
<1>c. ListedAs(ch.private, ch.public)
  BY DEF ListedAs
<1> HIDE DEF v, m, ch
<1>5. \A p \in Private : c \notin ToSet(m.connections[p]) =>
        /\ Len(Append(m.connections[p], c)) = Len(m.connections[p]) + 1
        /\ ToSet(Append(m.connections[p], c)) = ToSet(m.connections[p]) \cup {c}
  <2> TAKE p \in Private
  <2> HAVE c \notin ToSet(m.connections[p])
  <2> QED BY <1>4, AppendType
<1>6. /\ \A p \in Private : \A d : In(v, d, p) <=> In(m, d, p) \/ (d = c /\ p = ch.private)
  BY <1>3, <1>5 DEF In
<1>7. \A S : Counted(v, {c}, S) = Counted(m, {c}, S)
  BY <1>6 DEF Counted, Registered, In
<1>8. Tallied(v, {c})
  BY <1>2, <1>3, <1>7 DEF Ledger, Tallied
<1>9. Capped(v)
  <2> SUFFICES ASSUME NEW p \in Private, AlwaysNamed(p)
               PROVE  Len(v.connections[p]) <= MaxConnPerChannel
    BY DEF Capped
  <2>1. Len(m.connections[p]) <= MaxConnPerChannel
    BY <1>2 DEF Ledger, Capped
  <2>2. CASE v.connections[p] = m.connections[p]
    BY <2>1, <2>2
  <2>3. CASE p = ch.private /\ c \notin ToSet(m.connections[p])
    BY <1>2, <1>3, <1>5, <1>b, <2>3
  <2> QED BY <1>3, <2>2, <2>3
<1>10. Tight(v)
  <2> SUFFICES ASSUME UniformChannels, NEW q \in Public, v.pubChannels[q] # NoId
               PROVE  /\ v.connections[v.pubChannels[q]] # <<>>
                      /\ ListedAs(v.pubChannels[q], q)
    BY DEF Tight
  <2>1. CASE q = ch.public
    <3>1. v.pubChannels[q] = ch.private /\ In(v, c, ch.private)
      BY <1>1, <1>3, <1>6, <2>1
    <3>2. v.connections[ch.private] # <<>>
      BY <3>1 DEF In, ToSet
    <3> QED BY <1>c, <2>1, <3>1, <3>2
  <2>2. CASE q # ch.public
    <3> DEFINE p == m.pubChannels[q]
    <3>1. v.pubChannels[q] = p /\ p \in Private
      BY <1>3, <1>a, <2>2
    <3>2. m.connections[p] # <<>> /\ ListedAs(p, q)
      BY <1>2, <3>1 DEF Ledger, Tight
    <3> HIDE DEF p
    <3>3. PICK d : In(m, d, p)
      <4>1. m.connections[p][1] \in ToSet(m.connections[p])
        BY <1>4, <3>1, <3>2 DEF ToSet
      <4> QED BY <4>1 DEF In
    <3>4. In(v, d, p)
      BY <1>6, <3>1, <3>3
    <3>5. v.connections[p] # <<>>
      BY <3>4 DEF In, ToSet
    <3> QED BY <3>1, <3>2, <3>5
  <2> QED BY <2>1, <2>2
<1> QED BY <1>8, <1>9, <1>10 DEF Ledger, v, ch

(***************************************************************************)
(* What every round of the loop of Adapter.add keeps, the loop keeps.      *)
(***************************************************************************)
LEMMA AddChannelsKeeps ==
  ASSUME LimitAboveOne, PublicIdsAreUnambiguous,
         NEW s \in States, NEW c \in Connections, Newcomer(s, s, c, 0),
         NEW G, s \in G,
         \A t \in States, i \in 1..Len(Channels[c]) :
           Newcomer(s, t, c, i - 1) /\ t \in G => AddChannel(t, c, Channels[c][i]) \in G
  PROVE  AddChannels(s, c) \in G
<1>1. PICK f \in [0..Len(Channels[c]) -> States] :
         /\ f[0] = s
         /\ \A i \in 1..Len(Channels[c]) :
              f[i] = AddChannel(f[i-1], c, Channels[c][i])
         /\ AddChannels(s, c) = f[Len(Channels[c])]
  BY AddChannelsRounds
<1> DEFINE n == Len(Channels[c])
           Good == {i \in 0..n : Newcomer(s, f[i], c, i) /\ f[i] \in G}
<1>2. n \in Nat /\ n \in 0..n /\ 0 \in 0..n
  BY ChannelType
<1>3. 0 \in Good
  BY <1>1, <1>2
<1>4. ASSUME NEW k \in 1..n, k - 1 \in Good PROVE k \in Good
  <2>1. /\ f[k-1] \in States /\ Newcomer(s, f[k-1], c, k-1) /\ f[k-1] \in G
        /\ k \in 0..n
    BY <1>2, <1>4
  <2>2. Newcomer(s, AddChannel(f[k-1], c, Channels[c][k]), c, k)
    BY <2>1, AddChannelInv
  <2>3. AddChannel(f[k-1], c, Channels[c][k]) \in G
    BY <2>1
  <2> QED BY <1>1, <2>1, <2>2, <2>3
<1> HIDE DEF Good
<1>5. 0..n \subseteq Good
  BY <1>2, <1>3, <1>4, UpToInduction
<1> QED BY <1>1, <1>2, <1>5 DEF Good

(* Adapter.add begins with an active connection that was in no Set. *)
LEMMA AddBegins ==
  ASSUME NEW s \in States, NEW c \in Connections, Inv(s, {}), s.stage[c] # "added"
  PROVE  LET b == Count(s, c, 1)
         IN  /\ b \in States /\ Newcomer(b, b, c, 0)
             /\ b.connections = s.connections /\ b.pubChannels = s.pubChannels
             /\ b.active = s.active /\ b.socket = s.socket /\ b.stage = s.stage
             /\ b.websockets = IF c \in Websockets THEN s.websockets + 1 ELSE s.websockets
             /\ b.pollings = IF c \in Websockets THEN s.pollings ELSE s.pollings + 1
<1> DEFINE b == Count(s, c, 1)
<1>1. /\ b \in States
      /\ b.connections = s.connections /\ b.pubChannels = s.pubChannels
      /\ b.active = s.active /\ b.socket = s.socket /\ b.stage = s.stage
      /\ b.websockets = IF c \in Websockets THEN s.websockets + 1 ELSE s.websockets
      /\ b.pollings = IF c \in Websockets THEN s.pollings ELSE s.pollings + 1
  <2>1. Count(s, c, 1) \in States
    BY CountType
  <2> QED BY <2>1 DEF Count, States
<1> HIDE DEF b
<1>2. ~Registered(s, c) /\ \A p \in Private : ~In(s, c, p)
  BY OwnChannels DEF Registered, In
<1>3. Inv(b, {c})
  <2>1. Inv(s, {} \cup {c})
    BY Exempt
  <2> QED BY <1>1, <2>1 DEF Inv, Enrolled, Whole, Open, Live, Unanswered,
                            Started, Named, Registered, In, Resolves
<1>4. Newest(b, c)
  <2> SUFFICES ASSUME NEW p \in Private, NEW j \in 1..Len(b.connections[p]),
                      b.connections[p][j] = c
               PROVE  FALSE
    BY DEF Newest
  <2>1. In(s, c, p)
    BY <1>1 DEF In, ToSet, States
  <2> QED BY <1>2, <2>1
<1>5. Newcomer(b, b, c, 0)
  BY <1>1, <1>2, <1>3, <1>4 DEF Newcomer, SameFor, In
<1> QED BY <1>1, <1>5 DEF b

(* ... and ends with the connection in all its Sets. *)
LEMMA AddEnds ==
  ASSUME NEW s, NEW t \in States, NEW c \in Connections, Channels[c] # <<>>,
         Newcomer(s, t, c, Len(Channels[c]))
  PROVE  /\ Registered(t, c)
         /\ \A p \in Private : In(t, c, p) <=> p \in PrivateIds(c)
<1>1. \A p \in Private : In(t, c, p) <=>
        \E k \in 1..Len(Channels[c]) : Channels[c][k].private = p
  BY DEF Newcomer
<1>2. \A p \in Private : In(t, c, p) <=> p \in PrivateIds(c)
  BY <1>1, ChannelType DEF PrivateIds
<1>3. 1 \in 1..Len(Channels[c]) /\ Channels[c][1].private \in Private
  BY ChannelType
<1> QED BY <1>1, <1>2, <1>3 DEF Registered, In

LEMMA AddLedger ==
  ASSUME LimitAboveOne, PublicIdsAreUnambiguous,
         NEW s \in States, NEW c \in Connections, Inv(s, {}), Ledger(s, {}),
         s.stage[c] # "added", Channels[c] # <<>>
  PROVE  Ledger(Add(s, c), {})
<1>1. CASE ~IsActive(s, c)
  <2>1. Add(s, c) = [s EXCEPT !.stage[c] = "refused"]
    BY <1>1 DEF Add
  <2> QED BY <2>1, LedgerSame DEF States
<1>2. CASE IsActive(s, c)
  <2> DEFINE b == Count(s, c, 1)
             u == AddChannels(b, c)
             G == {t \in States : Ledger(t, {c})}
  <2>1. /\ b \in States /\ Newcomer(b, b, c, 0)
        /\ b.connections = s.connections /\ b.pubChannels = s.pubChannels
        /\ b.websockets = IF c \in Websockets THEN s.websockets + 1 ELSE s.websockets
        /\ b.pollings = IF c \in Websockets THEN s.pollings ELSE s.pollings + 1
    BY AddBegins
  <2>2. Add(s, c) = [u EXCEPT !.stage[c] = "added"]
    BY <1>2 DEF Add
  <2> HIDE DEF b
  <2>3. Ledger(b, {c})
    <3>1. ~Registered(s, c)
      BY OwnChannels
    <3>2. ASSUME NEW S
          PROVE  /\ c \in S => Counted(b, {c}, S) = Counted(s, {}, S) \cup {c}
                 /\ c \notin S => Counted(b, {c}, S) = Counted(s, {}, S)
                 /\ c \notin Counted(s, {}, S)
      BY <2>1, <3>1 DEF Counted, Registered
    <3>3. /\ IsSizeOf(s.websockets, Counted(s, {}, Websockets))
          /\ IsSizeOf(s.pollings, Counted(s, {}, Polls))
      BY DEF Ledger, Tallied
    <3>4. ASSUME NEW n, NEW S, IsSizeOf(n, S), c \notin S
          PROVE  IsSizeOf(n + 1, S \cup {c})
      BY <3>4, FS_AddElement DEF IsSizeOf
    <3>5. c \in Websockets <=> c \notin Polls
      BY DEF Polls
    <3>6. IsSizeOf(b.websockets, Counted(b, {c}, Websockets))
      <4>1. CASE c \in Websockets
        <5>1. IsSizeOf(s.websockets + 1, Counted(s, {}, Websockets) \cup {c})
          BY <3>2, <3>3, <3>4, Zenon
        <5> QED BY <2>1, <3>2, <4>1, <5>1
      <4>2. CASE c \notin Websockets
        BY <2>1, <3>2, <3>3, <4>2
      <4> QED BY <4>1, <4>2
    <3>7. IsSizeOf(b.pollings, Counted(b, {c}, Polls))
      <4>1. CASE c \notin Websockets
        <5>1. IsSizeOf(s.pollings + 1, Counted(s, {}, Polls) \cup {c})
          BY <3>2, <3>3, <3>4, Zenon
        <5> QED BY <2>1, <3>2, <3>5, <4>1, <5>1
      <4>2. CASE c \in Websockets
        BY <2>1, <3>2, <3>3, <3>5, <4>2
      <4> QED BY <4>1, <4>2
    <3> QED BY <2>1, <3>6, <3>7 DEF Ledger, Capped, Tight, Tallied
  <2>4. ASSUME NEW t \in States, NEW i \in 1..Len(Channels[c]),
               Newcomer(b, t, c, i - 1), t \in G
        PROVE  AddChannel(t, c, Channels[c][i]) \in G
    <3>1. Inv(t, {c}) /\ Newest(t, c) /\ Ledger(t, {c}) /\ i \in DOMAIN Channels[c]
      BY <2>4, ChannelType DEF Newcomer
    <3>2. Ledger(AddChannel(t, c, Channels[c][i]), {c})
      BY <3>1, AddChannelLedger
    <3>3. AddChannel(t, c, Channels[c][i]) \in States
      BY AddChannelType, ChannelType
    <3> QED BY <3>2, <3>3
  <2>5. b \in G
    BY <2>1, <2>3
  <2> HIDE DEF G
  <2>6. u \in G
    BY <2>1, <2>4, <2>5, AddChannelsKeeps
  <2>7. u \in States /\ Newcomer(b, u, c, Len(Channels[c]))
    BY <2>1, AddChannelsInv
  <2> HIDE DEF u
  <2>8. Registered(u, c) /\ Ledger(u, {c})
    BY <2>6, <2>7, AddEnds DEF G
  <2>9. \A S : Counted(u, {c}, S) = Counted(u, {}, S)
    BY <2>8 DEF Counted
  <2>10. Ledger(u, {})
    BY <2>8, <2>9 DEF Ledger, Tallied
  <2>11. /\ Add(s, c).connections = u.connections
         /\ Add(s, c).pubChannels = u.pubChannels
         /\ Add(s, c).websockets = u.websockets /\ Add(s, c).pollings = u.pollings
    BY <2>2, <2>7 DEF States
  <2> QED BY <2>10, <2>11, LedgerSame
<1> QED BY <1>1, <1>2

-----------------------------------------------------------------------------
(***************************************************************************)
(* A callback either lets connections leave, or is the end of addToAdapter *)
(* for one that is not in the registry.                                    *)
(***************************************************************************)
LedgerInv == RegistryInv /\ Ledger(State, {})

Departure(t) ==
  /\ Becomes(t) /\ t \in States /\ Inv(t, {}) /\ Ledger(t, {})
  /\ \A c \in Connections, p \in Private : In(t, c, p) => In(State, c, p)
  /\ SameOrder(State, t)
  /\ t.stage = stage \/ t.connections = connections
  /\ \A c \in Connections : t.stage[c] = "added" <=> stage[c] = "added"

Arrival(s, c) ==
  /\ Becomes(Add(s, c)) /\ s \in States /\ Inv(s, {}) /\ Ledger(s, {})
  /\ s.connections = connections /\ s.stage = stage
  /\ stage[c] # "added" /\ Channels[c] # <<>>

CallbackForm ==
  \/ \E t \in States : Departure(t)
  \/ \E s \in States, c \in Connections : Arrival(s, c)

LEMMA StateLedger ==
  ASSUME LedgerInv
  PROVE  /\ State \in States /\ Inv(State, {}) /\ Ledger(State, {})
         /\ State.stage = stage /\ State.connections = connections
         /\ State.active = active /\ State.socket = socket
BY StateInv DEF LedgerInv, State

LEMMA RecedingDeparts ==
  ASSUME LedgerInv, NEW t, Recedes(State, t), Becomes(t)
  PROVE  CallbackForm
BY StateLedger DEF Recedes, Departure, CallbackForm

LEMMA RefusedDeparts ==
  ASSUME LedgerInv, NEW s, NEW c \in Connections, NEW v \in {"refused", "loading"},
         Recedes(State, s), s.connections = connections, stage[c] # "added",
         v = "loading" => Channels[c] # <<>>,
         Becomes([s EXCEPT !.stage[c] = v])
  PROVE  CallbackForm
<1> DEFINE t == [s EXCEPT !.stage[c] = v]
<1>1. s \in States /\ Inv(s, {}) /\ Ledger(s, {}) /\ s.stage = stage
  BY StateLedger DEF Recedes
<1>2. ~Registered(s, c)
  BY <1>1, OwnChannels
<1>3. /\ t \in States /\ Inv(t, {})
      /\ \A d \in Connections \ {c} : t.stage[d] = s.stage[d]
  <2>1. Channels[c] # <<>> \/ v # "loading"
    OBVIOUS
  <2> QED BY <1>1, <1>2, <2>1, SetStage
<1>4. t.connections = s.connections /\ t.stage[c] = v
      /\ t.pubChannels = s.pubChannels
      /\ t.websockets = s.websockets /\ t.pollings = s.pollings
  BY <1>1 DEF States
<1>5. Becomes(t)
  OBVIOUS
<1> HIDE DEF t
<1>6. Ledger(t, {})
  BY <1>1, <1>4, LedgerSame
<1>7. SameOrder(State, t) /\ t.connections = connections
  BY <1>4, StateLedger, SameOrderKept
<1>8. Departure(t)
  BY <1>1, <1>3, <1>4, <1>5, <1>6, <1>7 DEF Departure, Recedes, In
<1> QED BY <1>3, <1>8 DEF CallbackForm

(* The state in which a subscription gets its connection object. *)
LEMMA SubscribeStarts ==
  ASSUME LedgerInv, NEW c \in Connections, stage[c] = "new",
         NEW now \in {"open", "closed"}, now = "closed" => CloudMode /\ c \in Polls
  PROVE  LET s == [State EXCEPT !.active[c] = TRUE, !.socket[c] = now]
         IN  Recedes(State, s) /\ s.connections = connections
<1> DEFINE s == [State EXCEPT !.active[c] = TRUE, !.socket[c] = now]
<1>1. /\ State \in States /\ Inv(State, {}) /\ Ledger(State, {})
      /\ State.stage = stage /\ State.connections = connections
  BY StateLedger
<1>2. now \in Socket /\ TRUE \in BOOLEAN
  BY DEF Socket
<1>3. s \in States
  BY <1>1, <1>2, FieldType
<1>4. /\ s.connections = State.connections /\ s.stage = State.stage
      /\ s.pubChannels = State.pubChannels
      /\ s.websockets = State.websockets /\ s.pollings = State.pollings
  BY <1>1 DEF States
<1>5. Inv(s, {} \cup {c})
  <2>1. Inv(State, {} \cup {c}) /\ c \in {} \cup {c}
    BY <1>1, Exempt
  <2>2. c \in Polls /\ TRUE => now # "closing" /\ (now = "closed" => CloudMode)
    OBVIOUS
  <2> QED BY <1>1, <1>2, <2>1, <2>2, ChangeExempt
<1>6. ~Registered(s, c)
  <2>1. ~Registered(State, c)
    BY <1>1, OwnChannels
  <2> QED BY <1>4, <2>1 DEF Registered
<1> HIDE DEF s
<1>7. Inv(s, {})
  BY <1>1, <1>3, <1>4, <1>5, <1>6, Readmit
<1>8. Ledger(s, {})
  BY <1>1, <1>4, LedgerSame
<1>9. SameOrder(State, s)
  BY <1>4, SameOrderKept
<1> QED BY <1>1, <1>3, <1>4, <1>7, <1>8, <1>9 DEF Recedes, In, s

LEMMA RecedesTransitive ==
  ASSUME NEW r, NEW s, NEW t, Recedes(r, s), Recedes(s, t)
  PROVE  Recedes(r, t)
BY DEF Recedes, SameOrder

(* Closing a connection that is not registered leaves the Sets alone. *)
LEMMA CloseKeepsTheSets ==
  ASSUME NEW s \in States, NEW c \in Connections, ~Registered(s, c)
  PROVE  Close(s, c).connections = s.connections
<1>1. Close(s, c) = Shut(s, c)
  BY CloseUnregistered
<1>2. Shut(s, c).connections = s.connections
  BY ShutParts
<1> QED BY <1>1, <1>2

LEMMA SubscribeForm ==
  ASSUME PublicIdsAreUnambiguous, LedgerInv, NEW c \in Connections, Subscribe(c)
  PROVE  CallbackForm
<1>1. PICK now \in {"open", "closed"} :
        /\ now = "closed" => CloudMode /\ c \in Polls
        /\ LET s == [State EXCEPT !.active[c] = TRUE, !.socket[c] = now]
           IN  Becomes(IF Channels[c] = <<>>
                         THEN [Close(s, c) EXCEPT !.stage[c] = "refused"]
                       ELSE IF c \in WithMid
                         THEN [s EXCEPT !.stage[c] = "loading"]
                         ELSE Add(s, c))
  BY DEF Subscribe
<1> DEFINE s == [State EXCEPT !.active[c] = TRUE, !.socket[c] = now]
<1>2. stage[c] = "new"
  BY DEF Subscribe
<1>3. Recedes(State, s) /\ s.connections = connections
  BY <1>1, <1>2, SubscribeStarts
<1>4. CASE Channels[c] = <<>>
  <2>1. Becomes([Close(s, c) EXCEPT !.stage[c] = "refused"])
    BY <1>1, <1>4
  <2> HIDE DEF s
  <2>2. Recedes(State, Close(s, c))
    <3>1. Recedes(s, Close(s, c))
      BY <1>3, CloseRecedes DEF Recedes
    <3> QED BY <1>3, <3>1, RecedesTransitive
  <2>3. Close(s, c).connections = connections
    <3>1. s \in States /\ ~Registered(s, c)
      BY <1>2, <1>3, OwnChannels, StateLedger DEF Recedes
    <3> QED BY <1>3, <3>1, CloseKeepsTheSets
  <2> QED BY <1>2, <2>1, <2>2, <2>3, RefusedDeparts
<1>5. CASE Channels[c] # <<>> /\ c \in WithMid
  <2>1. Becomes([s EXCEPT !.stage[c] = "loading"])
    BY <1>1, <1>5
  <2> HIDE DEF s
  <2> QED BY <1>2, <1>3, <1>5, <2>1, RefusedDeparts
<1>6. CASE Channels[c] # <<>> /\ c \notin WithMid
  <2>1. Becomes(Add(s, c))
    BY <1>1, <1>6
  <2> HIDE DEF s
  <2>2. Arrival(s, c)
    BY <1>2, <1>3, <1>6, <2>1, StateLedger DEF Arrival, Recedes
  <2> QED BY <2>2 DEF CallbackForm, Arrival
<1> QED BY <1>4, <1>5, <1>6

LEMMA LoadedForm ==
  ASSUME PublicIdsAreUnambiguous, LedgerInv, NEW c \in Connections, Loaded(c)
  PROVE  CallbackForm
<1>1. PICK missed \in BOOLEAN :
        Becomes(Add(IF missed THEN Send(State, c) ELSE State, c))
  BY DEF Loaded
<1> DEFINE s == IF missed THEN Send(State, c) ELSE State
<1>2. /\ State \in States /\ Inv(State, {}) /\ Ledger(State, {})
      /\ State.stage = stage /\ State.connections = connections
      /\ stage[c] = "loading"
  BY StateLedger DEF Loaded
<1>3. ~Registered(State, c) /\ Channels[c] # <<>>
  BY <1>2, OwnChannels
<1>4. Recedes(State, Close(State, c))
  BY <1>2, CloseRecedes
<1>5. Close(State, c).connections = connections
  BY <1>2, <1>3, CloseKeepsTheSets
<1>6. s = State \/ s = Close(State, c)
  BY DEF Send
<1>7. Becomes(Add(s, c))
  BY <1>1
<1> HIDE DEF s
<1>8. Arrival(s, c)
  BY <1>2, <1>3, <1>4, <1>5, <1>6, <1>7 DEF Arrival, Recedes
<1> QED BY <1>8 DEF CallbackForm, Arrival

LEMMA LoadFailedForm ==
  ASSUME PublicIdsAreUnambiguous, LedgerInv, NEW c \in Connections, LoadFailed(c)
  PROVE  CallbackForm
<1>1. Recedes(State, Close(State, c)) /\ stage[c] # "added"
  BY StateLedger, CloseRecedes DEF LoadFailed
<1>2. Becomes([Close(State, c) EXCEPT !.stage[c] = "refused"])
  BY DEF LoadFailed
<1>3. Close(State, c).connections = connections
  <2>1. ~Registered(State, c) /\ State \in States
    BY <1>1, StateLedger, OwnChannels
  <2> QED BY <2>1, StateLedger, CloseKeepsTheSets
<1> QED BY <1>1, <1>2, <1>3, RefusedDeparts

(* The registry is as it was, or has lost a connection. *)
LEMMA KeptInvDeparts ==
  ASSUME LedgerInv, RegistryInv', NEW t \in States, Becomes(t), Ledger(t, {}),
         \A c \in Connections, p \in Private : In(t, c, p) => In(State, c, p),
         SameOrder(State, t), t.stage = stage
  PROVE  CallbackForm
<1>1. State' = t
  BY DEF Becomes, State, States
<1>2. Inv(State, {})' <=> Inv(t, {})
  BY <1>1 DEF Inv, Enrolled, Whole, Open, Live, Unanswered, Started, Named,
              Registered, In, Resolves
<1>3. Departure(t)
  BY <1>2 DEF Departure, RegistryInv
<1> QED BY <1>3 DEF CallbackForm

LEMMA FieldForm ==
  ASSUME LedgerInv, RegistryInv', NEW c \in Connections, NEW a \in BOOLEAN,
         NEW w \in Socket, Becomes([State EXCEPT !.active[c] = a, !.socket[c] = w])
  PROVE  CallbackForm
<1> DEFINE t == [State EXCEPT !.active[c] = a, !.socket[c] = w]
<1>1. State \in States /\ Ledger(State, {}) /\ State.stage = stage
  BY StateLedger
<1>2. t \in States
  BY <1>1, FieldType
<1>3. /\ t.connections = State.connections /\ t.stage = State.stage
      /\ t.pubChannels = State.pubChannels
      /\ t.websockets = State.websockets /\ t.pollings = State.pollings
  BY <1>1 DEF States
<1>4. Becomes(t)
  OBVIOUS
<1> HIDE DEF t
<1>5. Ledger(t, {})
  BY <1>1, <1>3, LedgerSame
<1>6. SameOrder(State, t)
  BY <1>3, SameOrderKept
<1> QED BY <1>1, <1>2, <1>3, <1>4, <1>5, <1>6, KeptInvDeparts DEF In

LEMMA SocketClosedForm ==
  ASSUME LedgerInv, RegistryInv', NEW c \in Connections, SocketClosed(c)
  PROVE  CallbackForm
<1> DEFINE s == [State EXCEPT !.socket[c] = "closed"]
           t == [State EXCEPT !.active[c] = FALSE, !.socket[c] = "closed"]
<1>1. /\ State \in States /\ Inv(State, {}) /\ Ledger(State, {})
      /\ State.stage = stage
  BY StateLedger
<1>2. [s EXCEPT !.active[c] = FALSE] = t /\ s.stage = stage
  BY <1>1 DEF States
<1>3. EmitClose(s, c) = t \/ EmitClose(s, c) = Delete(t, c)
  BY <1>2 DEF EmitClose
<1>4. FALSE \in BOOLEAN /\ "closed" \in Socket
  BY DEF Socket
<1>5. t \in States
  BY <1>1, <1>4, FieldType
<1>6. /\ t.connections = State.connections /\ t.stage = State.stage
      /\ t.pubChannels = State.pubChannels
      /\ t.websockets = State.websockets /\ t.pollings = State.pollings
  BY <1>1 DEF States
<1>7. Becomes(EmitClose(s, c))
  BY DEF SocketClosed
<1> HIDE DEF s
<1>8. CASE EmitClose(s, c) = t
  BY <1>4, <1>7, <1>8, FieldForm
<1> HIDE DEF t
<1>9. CASE EmitClose(s, c) = Delete(t, c)
  <2>1. \A p \in Private : In(t, c, p) => p \in PrivateIds(c)
    BY <1>1, <1>6, OwnChannels DEF In
  <2>2. Ledger(t, {})
    BY <1>1, <1>6, LedgerSame
  <2>3. Ledger(Delete(t, c), {})
    BY <1>5, <2>1, <2>2, DeleteLedger
  <2>4. Delete(t, c) \in States /\ Delete(t, c).stage = stage
    BY <1>1, <1>5, <1>6, DeleteType, DeleteParts
  <2>5. \A d \in Connections, p \in Private : In(Delete(t, c), d, p) => In(State, d, p)
    BY <1>5, <1>6, <2>1, DeleteMembers DEF In
  <2>6. SameOrder(State, Delete(t, c))
    BY <1>5, <1>6, DeleteOrder DEF SameOrder
  <2> QED BY <1>7, <1>9, <2>3, <2>4, <2>5, <2>6, KeptInvDeparts
<1> QED BY <1>3, <1>8, <1>9

LEMMA NextForm ==
  ASSUME LimitAboveOne, PublicIdsAreUnambiguous, LedgerInv, Next
  PROVE  CallbackForm
<1>1. /\ State \in States /\ Inv(State, {}) /\ Ledger(State, {})
      /\ State.active = active /\ State.socket = socket
  BY StateLedger
<1>2. RegistryInv'
  BY NextInv DEF LedgerInv
<1>3. active \in [Connections -> BOOLEAN] /\ socket \in [Connections -> Socket]
  BY <1>1 DEF States
<1>4. Websockets \subseteq Connections /\ Polls \subseteq Connections
  BY AdapterAssumption DEF Polls
<1>5. ASSUME NEW c \in Connections, PollTimeout(c) PROVE CallbackForm
  BY <1>1, <1>5, CloseRecedes, RecedingDeparts DEF PollTimeout
<1>6. ASSUME NEW c \in Connections, NEW a \in BOOLEAN,
             Becomes([State EXCEPT !.active[c] = a])
      PROVE  CallbackForm
  <2>1. [State EXCEPT !.active[c] = a]
          = [State EXCEPT !.active[c] = a, !.socket[c] = socket[c]]
    BY <1>1, <1>3 DEF States
  <2> QED BY <1>2, <1>3, <1>6, <2>1, FieldForm
<1>7. ASSUME NEW c \in Connections, NEW w \in Socket,
             Becomes([State EXCEPT !.socket[c] = w])
      PROVE  CallbackForm
  <2>1. [State EXCEPT !.socket[c] = w]
          = [State EXCEPT !.active[c] = active[c], !.socket[c] = w]
    BY <1>1, <1>3 DEF States
  <2> QED BY <1>2, <1>3, <1>7, <2>1, FieldForm
<1>8. ASSUME NEW c \in Connections, Ping(c) \/ Pong(c) \/ PeerCloses(c)
      PROVE  CallbackForm
  <2>1. "terminated" \in Socket /\ "closing" \in Socket
    BY DEF Socket
  <2> QED BY <1>6, <1>7, <1>8, <2>1 DEF Ping, Pong, PeerCloses
<1>9. ASSUME NEW rs \in Messages, Broadcast(rs) PROVE CallbackForm
  <2>1. rs \in Seq(Receiver)
    BY AdapterAssumption DEF Messages
  <2>2. Recedes(State, SendToReceivers(State, rs))
    BY <1>1, <2>1, SendToReceiversRecedes
  <2> QED BY <1>9, <2>2, RecedingDeparts DEF Broadcast
<1> QED BY <1>2, <1>5, <1>8, <1>9,
           SubscribeForm, LoadedForm, LoadFailedForm, SocketClosedForm DEF Next

LEMMA LedgerInvariant ==
  ASSUME LimitAboveOne, PublicIdsAreUnambiguous
  PROVE  Spec => []LedgerInv
<1>1. Init => LedgerInv
  <2> SUFFICES ASSUME Init PROVE Ledger(State, {})
    BY InitInv DEF LedgerInv
  <2>1. /\ \A p \in Private : State.connections[p] = <<>>
        /\ \A q \in Public : State.pubChannels[q] = NoId
        /\ State.websockets = 0 /\ State.pollings = 0
    BY DEF Init, State
  <2>2. \A S : Counted(State, {}, S) = {}
    BY <2>1 DEF Counted, Registered, ToSet
  <2>3. Tallied(State, {})
    BY <2>1, <2>2, FS_EmptySet DEF Tallied, IsSizeOf
  <2>4. Capped(State)
    BY <2>1, AdapterAssumption DEF Capped
  <2>5. Tight(State)
    BY <2>1 DEF Tight
  <2> QED BY <2>3, <2>4, <2>5 DEF Ledger
<1>2. LedgerInv /\ [Next]_vars => LedgerInv'
  <2> SUFFICES ASSUME LedgerInv, [Next]_vars PROVE LedgerInv'
    OBVIOUS
  <2>1. ASSUME NEW t \in States, Becomes(t), Ledger(t, {})
        PROVE  Ledger(State, {})'
    <3>1. State' = t
      BY <2>1 DEF Becomes, State, States
    <3> QED BY <2>1, <3>1 DEF Ledger, Capped, Tight, Tallied, Counted, Registered
  <2>2. CASE Next
    <3>1. RegistryInv' /\ CallbackForm
      BY <2>2, NextInv, NextForm DEF LedgerInv
    <3>2. ASSUME NEW s, NEW c \in Connections, Arrival(s, c)
          PROVE  Ledger(State, {})'
      <4>1. Ledger(Add(s, c), {}) /\ Add(s, c) \in States
        BY <3>2, AddLedger, AddType DEF Arrival
      <4> QED BY <2>1, <3>2, <4>1 DEF Arrival
    <3> QED BY <2>1, <3>1, <3>2 DEF CallbackForm, Departure, LedgerInv
  <2>3. CASE UNCHANGED vars
    <3>1. State' = State /\ TypeOK'
      BY <2>3 DEF vars, State, LedgerInv, RegistryInv, TypeOK
    <3> QED BY <3>1 DEF LedgerInv, RegistryInv, Inv, Enrolled, Whole, Open, Live,
                        Unanswered, Started, Named, Registered, In, Resolves,
                        Ledger, Capped, Tight, Tallied, Counted
  <2> QED BY <2>2, <2>3
<1> QED BY <1>1, <1>2, PTL DEF Spec

(* The counters of the statistics are the numbers of registered connections. *)
THEOREM StatisticsAreExact ==
  ASSUME LimitAboveOne, PublicIdsAreUnambiguous
  PROVE  Spec => []StatisticsCount
<1>1. Spec => []LedgerInv
  BY LedgerInvariant
<1>2. LedgerInv => StatisticsCount
  <2> SUFFICES ASSUME LedgerInv PROVE StatisticsCount
    OBVIOUS
  <2>1. /\ Counted(State, {}, Websockets) = {c \in Websockets : IsRegistered(c)}
        /\ Counted(State, {}, Polls) = {c \in Polls : IsRegistered(c)}
    BY DEF Counted, IsRegistered
  <2>2. State.websockets = websockets /\ State.pollings = pollings
    BY DEF State
  <2> QED BY <2>1, <2>2 DEF LedgerInv, Ledger, Tallied, IsSizeOf, StatisticsCount
<1> QED BY <1>1, <1>2, PTL

(* A channel everybody lists with its public id never has too many members. *)
THEOREM ChannelsKeepTheLimit ==
  ASSUME LimitAboveOne, PublicIdsAreUnambiguous
  PROVE  Spec => []ChannelCapacity
<1>1. Spec => []LedgerInv
  BY LedgerInvariant
<1>2. LedgerInv => ChannelCapacity
  BY DEF LedgerInv, Ledger, Capped, AlwaysNamed, ChannelCapacity, State
<1> QED BY <1>1, <1>2, PTL

(* The last member of a channel takes its public id along. *)
THEOREM PublicIdsAreReleased ==
  ASSUME LimitAboveOne, PublicIdsAreUnambiguous
  PROVE  Spec => []NoLeakedPublicId
<1>1. Spec => []LedgerInv
  BY LedgerInvariant
<1>2. LedgerInv => NoLeakedPublicId
  BY DEF LedgerInv, Ledger, Tight, NoLeakedPublicId, State
<1> QED BY <1>1, <1>2, PTL

(* An insertion-ordered Set is as long as it has members. *)
LEMMA SetSize ==
  ASSUME NEW S, NEW q \in Seq(S), IsInjective(q)
  PROVE  IsFiniteSet(ToSet(q)) /\ Cardinality(ToSet(q)) = Len(q)
<1> DEFINE n == Len(q)
<1>1. n \in Nat /\ DOMAIN q = 1..n /\ q \in [1..n -> ToSet(q)]
  BY DEF ToSet
<1>2. q \in Bijection(1..n, ToSet(q))
  BY <1>1 DEF Bijection, Injection, Surjection, IsInjective, ToSet
<1>3. ExistsBijection(1..n, ToSet(q))
  BY <1>2 DEF ExistsBijection
<1>4. IsFiniteSet(1..n) /\ Cardinality(1..n) = n
  BY <1>1, FS_Interval
<1> QED BY <1>3, <1>4, FS_Bijection

LEMMA SetSizes ==
  ASSUME NEW S, NEW q \in Seq(S), NEW r \in Seq(S), IsInjective(q), IsInjective(r),
         ToSet(q) \subseteq ToSet(r)
  PROVE  Len(q) <= Len(r)
<1>1. /\ IsFiniteSet(ToSet(r)) /\ Cardinality(ToSet(r)) = Len(r)
      /\ Cardinality(ToSet(q)) = Len(q)
  BY SetSize
<1> QED BY <1>1, FS_Subset

LEMMA SetSizePlus ==
  ASSUME NEW S, NEW q \in Seq(S), NEW r \in Seq(S), IsInjective(q), IsInjective(r),
         NEW e, ToSet(q) \subseteq ToSet(r) \cup {e}
  PROVE  Len(q) <= Len(r) + 1
<1>1. /\ IsFiniteSet(ToSet(r)) /\ Cardinality(ToSet(r)) = Len(r)
      /\ Cardinality(ToSet(q)) = Len(q)
  BY SetSize
<1>2. /\ IsFiniteSet(ToSet(r) \cup {e})
      /\ Cardinality(ToSet(r) \cup {e}) \in {Len(r), Len(r) + 1}
  BY <1>1, FS_AddElement
<1>3. Len(q) <= Cardinality(ToSet(r) \cup {e})
  BY <1>1, <1>2, FS_Subset
<1> QED BY <1>2, <1>3

-----------------------------------------------------------------------------
(***************************************************************************)
(* Whom Adapter.add evicts.  Sets keep their order of insertion, so the    *)
(* head of a full channel is older than whoever stays in it.               *)
(***************************************************************************)
LEMMA BeforeAppended ==
  ASSUME NEW S, NEW q \in Seq(S), NEW c \in S, NEW x, NEW y, x # c, y # c,
         Before(Append(q, c), x, y)
  PROVE  Before(q, x, y)
<1>1. PICK i, j \in 1..Len(Append(q, c)) :
        Append(q, c)[i] = x /\ Append(q, c)[j] = y /\ i < j
  BY DEF Before
<1>2. Len(Append(q, c)) = Len(q) + 1 /\ Append(q, c)[Len(q) + 1] = c
      /\ \A n \in 1..Len(q) : Append(q, c)[n] = q[n]
  BY AppendProperties
<1>3. i \in 1..Len(q) /\ j \in 1..Len(q)
  BY <1>1, <1>2
<1> QED BY <1>1, <1>2, <1>3 DEF Before

(* A connection lists a private id once. *)
NoRepeats ==
  \A c \in Connections : \A i, j \in DOMAIN Channels[c] :
    Channels[c][i].private = Channels[c][j].private => i = j

(* f lost its place to the newcomer c between b and t. *)
Displaced(b, t, c, f) ==
  \E i \in DOMAIN Channels[c] :
    /\ In(b, f, Channels[c][i].private)
    /\ LimitReached(b, c, i)
    /\ \A d \in Connections \ {c} :
         In(b, d, Channels[c][i].private) /\ Registered(t, d)
           => Before(b.connections[Channels[c][i].private], f, d)

(* After some rounds of the loop of add, which began in b. *)
Evictions(b, t, c) ==
  /\ \A d \in Connections \ {c}, p \in Private : In(t, d, p) => In(b, d, p)
  /\ \A p \in Private : \A x, y \in Connections \ {c} :
       Before(t.connections[p], x, y) => Before(b.connections[p], x, y)
  /\ \A f \in Connections \ {c} :
       Registered(b, f) /\ ~Registered(t, f) => Displaced(b, t, c, f)

LEMMA AddChannelEvicts ==
  ASSUME LimitAboveOne, PublicIdsAreUnambiguous,
         NEW b \in States, NEW t \in States, NEW c \in Connections,
         NEW i \in 1..Len(Channels[c]), Inv(b, {c}), Newcomer(b, t, c, i - 1),
         \A p \in Private : ~In(b, c, p), Evictions(b, t, c)
  PROVE  Evictions(b, AddChannel(t, c, Channels[c][i]), c)
<1> DEFINE ch == Channels[c][i]
           m == MakeRoom(t, ch)
           v == AddChannel(t, c, ch)
           f == Oldest(t, ch)
<1>1. /\ ch \in Channel /\ ch.private \in Private /\ i \in DOMAIN Channels[c]
      /\ ch.private \in PrivateIds(c)
  BY ChannelType DEF PrivateIds
<1>2. Inv(t, {c}) /\ Newest(t, c)
  BY DEF Newcomer
<1>3. \A p \in Private : v.connections[p] =
        IF p = ch.private /\ c \notin ToSet(m.connections[p])
          THEN Append(m.connections[p], c) ELSE m.connections[p]
  BY <1>1, <1>2, AddChannelParts
<1>4. /\ \A p \in Private : m.connections[p] \in Seq(Connections) /\ IsInjective(m.connections[p])
      /\ \A p \in Private : t.connections[p] \in Seq(Connections) /\ IsInjective(t.connections[p])
      /\ \A p \in Private : b.connections[p] \in Seq(Connections) /\ IsInjective(b.connections[p])
  BY <1>1, MakeRoomType DEF States
<1>5. \/ m = t
      \/ /\ Full(t, ch) /\ f \in Connections \ {c} /\ f = t.connections[ch.private][1]
         /\ Len(t.connections[ch.private]) >= 2
         /\ \A p \in Private : In(t, f, p) => p \in PrivateIds(f)
         /\ m.connections = Delete(t, f).connections
  <2>1. CASE Full(t, ch)
    BY <1>1, <1>2, <2>1, EvictsTheOldestMember DEF Evicted
  <2>2. CASE ~Full(t, ch)
    BY <2>2 DEF MakeRoom
  <2> QED BY <2>1, <2>2
<1> HIDE DEF v, m, f
<1>6. \A d \in Connections, p \in Private :
        In(m, d, p) <=> In(t, d, p) /\ ~(m # t /\ d = f)
  <2>1. CASE m # t
    <3>1. \A d \in Connections, p \in Private :
            In(Delete(t, f), d, p) <=> In(t, d, p) /\ d # f
      BY <1>5, <2>1, DeleteMembers
    <3> QED BY <1>5, <2>1, <3>1 DEF In
  <2> QED BY <2>1
<1>7. \A d \in Connections \ {c}, p \in Private : In(v, d, p) <=> In(m, d, p)
  <2> TAKE d \in Connections \ {c}, p \in Private
  <2>1. ToSet(Append(m.connections[p], c)) = ToSet(m.connections[p]) \cup {c}
          \/ c \in ToSet(m.connections[p])
    BY <1>4, AppendType
  <2> QED BY <1>3, <2>1 DEF In
<1>8. \A d \in Connections \ {c} : Registered(v, d) <=> Registered(t, d) /\ ~(m # t /\ d = f)
  BY <1>6, <1>7 DEF Registered, In
<1>9. ASSUME NEW p \in Private, NEW x \in Connections \ {c}, NEW y \in Connections \ {c},
             Before(v.connections[p], x, y)
      PROVE  Before(b.connections[p], x, y)
  <2>1. Before(m.connections[p], x, y)
    BY <1>3, <1>4, <1>9, BeforeAppended
  <2>2. m.connections[p] = t.connections[p] \/ m.connections[p] = RemoveFirst(t.connections[p], f)
    BY <1>5, DeleteParts
  <2>3. Before(t.connections[p], x, y)
    BY <1>4, <2>1, <2>2, BeforeRemoval
  <2> QED BY <2>3 DEF Evictions
<1>10. ASSUME NEW e \in Connections \ {c}, Registered(b, e), ~Registered(v, e)
       PROVE  Displaced(b, v, c, e)
  <2>1. CASE ~Registered(t, e)
    <3>1. Displaced(b, t, c, e)
      BY <1>10, <2>1 DEF Evictions
    <3> QED BY <1>8, <3>1 DEF Displaced
  <2>2. CASE Registered(t, e)
    <3> DEFINE p == ch.private
    <3>1. e = f /\ m # t
      BY <1>8, <1>10, <2>2
    <3>2. /\ Full(t, ch) /\ f = t.connections[p][1] /\ Len(t.connections[p]) >= 2
          /\ \A r \in Private : In(t, f, r) => r \in PrivateIds(f)
      BY <1>5, <3>1
    <3>3. In(t, f, p)
      <4>1. 1 \in DOMAIN t.connections[p]
        BY <1>1, <1>4, <3>2
      <4> QED BY <3>2, <4>1 DEF In, ToSet
    <3>4. In(b, e, p)
      BY <1>1, <3>1, <3>3 DEF Evictions
    <3>5. ASSUME NEW d \in Connections \ {c}, In(b, d, p), Registered(v, d)
          PROVE  Before(b.connections[p], e, d)
      <4>1. Registered(t, d) /\ d # f
        BY <1>8, <3>1, <3>5
      <4>2. p \in PrivateIds(d)
        BY <1>1, <3>5 DEF Inv, Enrolled
      <4>3. In(t, d, p)
        BY <1>2, <4>1, <4>2 DEF Inv, Whole
      <4>4. PICK j \in 1..Len(t.connections[p]) : t.connections[p][j] = d
        BY <1>1, <1>4, <4>3 DEF In, ToSet
      <4>5. 1 \in 1..Len(t.connections[p]) /\ 1 < j
        BY <1>1, <1>4, <3>2, <4>1, <4>4
      <4>6. Before(t.connections[p], f, d)
        BY <3>2, <4>4, <4>5 DEF Before
      <4> QED BY <1>1, <3>1, <4>6 DEF Evictions
    <3>6. LimitReached(b, c, i)
      <4> DEFINE own == \E k \in 1..(i - 1) : Channels[c][k].private = p
      <4>1. In(t, c, p) <=> own
        BY <1>1 DEF Newcomer
      <4>2. Len(t.connections[p]) <= Len(b.connections[p]) + (IF own THEN 1 ELSE 0)
        <5>1. \A d \in ToSet(t.connections[p]) : d \in Connections
          BY <1>1, <1>4 DEF ToSet
        <5>2. ToSet(t.connections[p]) \subseteq
                ToSet(b.connections[p]) \cup (IF own THEN {c} ELSE {})
          BY <1>1, <4>1, <5>1 DEF Evictions, In
        <5>3. /\ t.connections[p] \in Seq(Connections) /\ IsInjective(t.connections[p])
              /\ b.connections[p] \in Seq(Connections) /\ IsInjective(b.connections[p])
          BY <1>1, <1>4
        <5>4. own => ToSet(t.connections[p]) \subseteq ToSet(b.connections[p]) \cup {c}
          BY <5>2
        <5>5. ~own => ToSet(t.connections[p]) \subseteq ToSet(b.connections[p])
          BY <5>2
        <5> HIDE DEF own, p
        <5>6. own => Len(t.connections[p]) <= Len(b.connections[p]) + 1
          BY <5>3, <5>4, SetSizePlus
        <5>7. ~own => Len(t.connections[p]) <= Len(b.connections[p])
          BY <5>3, <5>5, SetSizes
        <5>8. Len(b.connections[p]) \in Nat
          BY <5>3
        <5>9. CASE own
          BY <5>6, <5>9
        <5>10. CASE ~own
          BY <5>7, <5>8, <5>10
        <5> QED BY <5>9, <5>10
      <4>3. Len(t.connections[p]) >= MaxConnPerChannel /\ ch.public # NoId
        BY <3>2 DEF Full
      <4>4. Len(t.connections[p]) \in Nat /\ Len(b.connections[p]) \in Nat
        BY <1>1, <1>4
      <4>5. Len(b.connections[p]) + (IF own THEN 1 ELSE 0) >= MaxConnPerChannel
        <5>0. MaxConnPerChannel \in Nat
          BY AdapterAssumption
        <5>1. CASE own
          <6>1. Len(t.connections[p]) <= Len(b.connections[p]) + 1
            BY <4>2, <5>1
          <6> HIDE DEF own, p
          <6> QED BY <4>3, <4>4, <5>0, <5>1, <6>1
        <5>2. CASE ~own
          <6>1. Len(t.connections[p]) <= Len(b.connections[p])
            BY <4>2, <4>4, <5>2
          <6> HIDE DEF own, p
          <6> QED BY <4>3, <4>4, <5>0, <5>2, <6>1
        <5> QED BY <5>1, <5>2
      <4> QED BY <4>3, <4>5 DEF LimitReached
    <3>7. i \in DOMAIN Channels[c]
      BY <1>1
    <3> QED BY <3>1, <3>4, <3>5, <3>6, <3>7 DEF Displaced
  <2> QED BY <2>1, <2>2
<1>11. \A d \in Connections \ {c}, p \in Private : In(v, d, p) => In(b, d, p)
  BY <1>6, <1>7 DEF Evictions
<1> HIDE DEF ch
<1> QED BY <1>9, <1>10, <1>11 DEF Evictions, v, ch

(* What Adapter.add does to the registry. *)
LEMMA AddOutcome ==
  ASSUME LimitAboveOne, PublicIdsAreUnambiguous,
         NEW s \in States, NEW c \in Connections, Inv(s, {}),
         s.stage[c] # "added", Channels[c] # <<>>
  PROVE  LET t == Add(s, c)
         IN  /\ t \in States
             /\ \A p \in Private : ~In(s, c, p)
             /\ \A d \in Connections \ {c} : t.stage[d] = s.stage[d]
             /\ \/ t.connections = s.connections /\ t.stage[c] = "refused"
                \/ /\ \A p \in Private : In(t, c, p) <=> p \in PrivateIds(c)
                   /\ t.stage[c] = "added"
                   /\ Evictions(s, t, c) /\ Newest(t, c)
<1> DEFINE t == Add(s, c)
<1>1. t \in States /\ \A d \in Connections \ {c} : t.stage[d] = s.stage[d]
  BY AddType, AddInv
<1>2. \A p \in Private : ~In(s, c, p)
  BY OwnChannels DEF Registered, In
<1>3. CASE ~IsActive(s, c)
  <2>1. t = [s EXCEPT !.stage[c] = "refused"]
    BY <1>3 DEF Add
  <2>2. t.connections = s.connections /\ t.stage[c] = "refused"
    BY <2>1 DEF States
  <2> QED BY <1>1, <1>2, <2>2
<1>4. CASE IsActive(s, c)
  <2> DEFINE b == Count(s, c, 1)
             u == AddChannels(b, c)
             G == {x \in States : Evictions(b, x, c)}
  <2>1. t = [u EXCEPT !.stage[c] = "added"]
    BY <1>4 DEF Add
  <2>2. b \in States /\ Newcomer(b, b, c, 0) /\ b.connections = s.connections
    BY AddBegins
  <2> HIDE DEF b
  <2>3. u \in States /\ Newcomer(b, u, c, Len(Channels[c]))
    BY <2>2, AddChannelsInv
  <2>4. \A p \in Private : ~In(b, c, p)
    BY <1>2, <2>2 DEF In
  <2>5. Inv(b, {c})
    BY <2>2 DEF Newcomer
  <2>6. ASSUME NEW x \in States, NEW i \in 1..Len(Channels[c]),
               Newcomer(b, x, c, i - 1), x \in G
        PROVE  AddChannel(x, c, Channels[c][i]) \in G
    <3>1. AddChannel(x, c, Channels[c][i]) \in States
      BY AddChannelType, ChannelType
    <3>2. Evictions(b, AddChannel(x, c, Channels[c][i]), c)
      BY <2>2, <2>4, <2>5, <2>6, AddChannelEvicts
    <3> QED BY <3>1, <3>2
  <2>7. b \in G
    BY <2>2 DEF Evictions
  <2> HIDE DEF G
  <2>8. u \in G
    BY <2>2, <2>6, <2>7, AddChannelsKeeps
  <2>9. Evictions(b, u, c)
    BY <2>8 DEF G
  <2> HIDE DEF u
  <2>10. t.connections = u.connections /\ t.stage[c] = "added"
    BY <2>1, <2>3 DEF States
  <2>11. \A p \in Private : In(u, c, p) <=> p \in PrivateIds(c)
    BY <2>3, AddEnds
  <2> HIDE DEF t
  <2>12. Evictions(s, t, c)
    BY <2>2, <2>9, <2>10 DEF Evictions, Displaced, LimitReached, Registered, In
  <2>13. \A p \in Private : In(t, c, p) <=> p \in PrivateIds(c)
    BY <2>10, <2>11 DEF In
  <2>14. Newest(t, c)
    BY <2>3, <2>10 DEF Newcomer, Newest
  <2> QED BY <1>1, <1>2, <2>10, <2>12, <2>13, <2>14 DEF t
<1> QED BY <1>3, <1>4

LEMMA NewState ==
  ASSUME NEW t \in States, Becomes(t)
  PROVE  /\ \A c, p : c \in Members(p)' <=> In(t, c, p)
         /\ \A p : Members(p)' = ToSet(t.connections[p])
         /\ \A c : IsRegistered(c)' <=> Registered(t, c)
         /\ stage' = t.stage
<1>1. connections' = t.connections /\ stage' = t.stage
  BY DEF Becomes
<1>2. \A p : Members(p)' = ToSet(t.connections[p])
  BY <1>1 DEF Members
<1>3. \A c : IsRegistered(c)' <=> Registered(t, c)
  BY <1>1 DEF IsRegistered, Registered, State
<1> QED BY <1>1, <1>2, <1>3 DEF In

(* The newcomer stands behind everybody else. *)
LEMMA NewestIsLast ==
  ASSUME NEW t \in States, NEW c \in Connections, Newest(t, c),
         NEW p \in Private, NEW y \in Connections \ {c}
  PROVE  ~Before(t.connections[p], c, y)
BY DEF Newest, Before, States

(***************************************************************************)
(* A newcomer displaces the oldest members of its full channels and nobody *)
(* else, and those who stay in a channel keep their order in it.           *)
(***************************************************************************)
THEOREM OldestMembersGoFirst ==
  ASSUME LimitAboveOne, PublicIdsAreUnambiguous
  PROVE  Spec => EvictsTheOldest
<1> DEFINE Chosen(n, c) == \E i \in DOMAIN Channels[n] :
             LET p == Channels[n][i].private
             IN  /\ c \in Members(p) /\ LimitReached(State, n, i)
                 /\ \A d \in Members(p) : IsRegistered(d)' => Before(connections[p], c, d)
<1>1. LedgerInv /\ Next => KeepsTheOrder /\ MakesRoomForTheNewcomer
  <2> SUFFICES ASSUME LedgerInv, Next PROVE KeepsTheOrder /\ MakesRoomForTheNewcomer
    OBVIOUS
  <2>0. /\ State \in States /\ State.connections = connections /\ State.stage = stage
        /\ \A d : Registered(State, d) <=> IsRegistered(d)
    BY StateLedger DEF IsRegistered
  <2>1. ASSUME NEW t \in States, Departure(t) PROVE KeepsTheOrder /\ MakesRoomForTheNewcomer
    <3>1. /\ connections' = t.connections /\ stage' = t.stage
          /\ \A d : IsRegistered(d)' <=> Registered(t, d)
      BY <2>1, NewState DEF Departure, Becomes
    <3>2. KeepsTheOrder
      BY <2>0, <2>1, <3>1 DEF Departure, SameOrder, KeepsTheOrder
    <3>3. t.stage = stage \/ \A d : Registered(t, d) <=> IsRegistered(d)
      BY <2>0, <2>1 DEF Departure, Registered
    <3> QED BY <3>1, <3>2, <3>3 DEF MakesRoomForTheNewcomer
  <2>2. ASSUME NEW s \in States, NEW a \in Connections, Arrival(s, a)
        PROVE  KeepsTheOrder /\ MakesRoomForTheNewcomer
    <3> DEFINE t == Add(s, a)
    <3>1. /\ s.connections = connections /\ s.stage = stage /\ Channels[a] # <<>>
          /\ \A d : Registered(s, d) <=> IsRegistered(d)
      BY <2>0, <2>2 DEF Arrival, Registered
    <3>2. /\ t \in States /\ Becomes(t)
          /\ \A p \in Private : ~In(s, a, p)
          /\ \A d \in Connections \ {a} : t.stage[d] = s.stage[d]
          /\ \/ t.connections = s.connections
             \/ /\ \A p \in Private : In(t, a, p) <=> p \in PrivateIds(a)
                /\ Evictions(s, t, a) /\ Newest(t, a)
      BY <2>2, AddOutcome DEF Arrival
    <3> HIDE DEF t
    <3>3. /\ connections' = t.connections /\ stage' = t.stage
          /\ \A d : IsRegistered(d)' <=> Registered(t, d)
      BY <3>2, NewState DEF Becomes
    <3>4. CASE t.connections = s.connections
      <4>1. KeepsTheOrder
        BY <3>1, <3>3, <3>4 DEF KeepsTheOrder
      <4>2. \A d : IsRegistered(d)' <=> IsRegistered(d)
        BY <3>1, <3>3, <3>4 DEF Registered
      <4> QED BY <4>1, <4>2 DEF MakesRoomForTheNewcomer
    <3>5. CASE /\ \A p \in Private : In(t, a, p) <=> p \in PrivateIds(a)
               /\ Evictions(s, t, a) /\ Newest(t, a)
      <4>1. ASSUME NEW p \in Private, NEW x \in Connections, NEW y \in Connections,
                   Before(connections'[p], x, y), y \in Members(p)
            PROVE  Before(connections[p], x, y)
        <5>1. y # a
          BY <3>1, <3>2, <4>1 DEF Members, In
        <5>2. x # a
          BY <3>2, <3>3, <3>5, <4>1, <5>1, NewestIsLast
        <5> QED BY <3>1, <3>3, <3>5, <4>1, <5>1, <5>2 DEF Evictions
      <4>2. KeepsTheOrder
        BY <4>1 DEF KeepsTheOrder
      <4>3. Registered(t, a)
        <5>1. 1 \in DOMAIN Channels[a] /\ Channels[a][1].private \in Private
          BY <3>1, ChannelType
        <5>2. Channels[a][1].private \in PrivateIds(a)
          BY <5>1 DEF PrivateIds
        <5> QED BY <3>5, <5>1, <5>2 DEF Registered, In
      <4>4. ASSUME NEW n \in Connections, stage'[n] # stage[n],
                   NEW c \in Connections, IsRegistered(c), ~IsRegistered(c)'
            PROVE  IsRegistered(n)' /\ Chosen(n, c)
        <5>1. n = a
          BY <3>1, <3>2, <3>3, <4>4
        <5>2. c # a /\ Registered(s, c) /\ ~Registered(t, c)
          BY <3>1, <3>3, <4>3, <4>4
        <5>3. Displaced(s, t, a, c)
          BY <3>5, <5>2 DEF Evictions
        <5>4. PICK i \in DOMAIN Channels[a] :
                /\ In(s, c, Channels[a][i].private)
                /\ LimitReached(s, a, i)
                /\ \A d \in Connections \ {a} :
                     In(s, d, Channels[a][i].private) /\ Registered(t, d)
                       => Before(s.connections[Channels[a][i].private], c, d)
          BY <5>3 DEF Displaced
        <5> DEFINE p == Channels[a][i].private
        <5>5. p \in Private
          BY ChannelType
        <5>6. \A d \in Members(p) : d \in Connections \ {a} /\ In(s, d, p)
          BY <2>0, <3>1, <3>2, <5>5 DEF Members, In, ToSet, States
        <5>7. \A d \in Members(p) : IsRegistered(d)' => Before(connections[p], c, d)
          BY <3>1, <3>3, <5>4, <5>6
        <5>8. c \in Members(p) /\ LimitReached(State, a, i)
          BY <2>0, <3>1, <5>4 DEF Members, In, LimitReached
        <5> QED BY <3>3, <4>3, <5>1, <5>7, <5>8
      <4>5. MakesRoomForTheNewcomer
        BY <4>4 DEF MakesRoomForTheNewcomer
      <4> QED BY <4>2, <4>5
    <3> QED BY <3>2, <3>4, <3>5
  <2> QED BY <2>1, <2>2, NextForm DEF CallbackForm
<1>2. LedgerInv /\ [Next]_vars => [KeepsTheOrder /\ MakesRoomForTheNewcomer]_vars
  BY <1>1
<1>3. Spec => []LedgerInv
  BY LedgerInvariant
<1> QED BY <1>2, <1>3, PTL DEF Spec, EvictsTheOldest

-----------------------------------------------------------------------------
(***************************************************************************)
(* The registry implements the abstract directory, when a connection lists *)
(* a private id once: with <<A, A>> the second round of the loop may evict *)
(* a member although the channel had not reached the limit before.         *)
(***************************************************************************)
Mem == [p \in Private |-> ToSet(connections[p])]
Left == {c \in Connections : stage[c] = "added" /\ ~Registered(State, c)}

LEMMA DepartureLeaves ==
  ASSUME LedgerInv, NEW t \in States, Departure(t)
  PROVE  \E gone \in SUBSET Connections : Directory!Leave(gone)
<1> DEFINE Gone == {d \in Connections : Registered(State, d) /\ ~Registered(t, d)}
<1>0. PICK gone \in SUBSET Connections : gone = Gone
  OBVIOUS
<1>1. /\ State \in States /\ Inv(State, {}) /\ State.connections = connections
      /\ State.stage = stage
  BY StateLedger
<1>2. /\ Becomes(t) /\ Inv(t, {})
      /\ \A c \in Connections, p \in Private : In(t, c, p) => In(State, c, p)
      /\ \A c \in Connections : t.stage[c] = "added" <=> stage[c] = "added"
  BY DEF Departure
<1>3. /\ Mem' = [p \in Private |-> ToSet(t.connections[p])]
      /\ Left' = {c \in Connections : t.stage[c] = "added" /\ ~Registered(t, c)}
  BY <1>2, NewState DEF Mem, Left, Members, IsRegistered
<1>4. \A p \in Private : /\ ToSet(connections[p]) \subseteq Connections
                         /\ ToSet(t.connections[p]) \subseteq Connections
  BY <1>1 DEF States, ToSet
<1>5. \A c \in Connections : Registered(t, c) => Registered(State, c)
  BY <1>2 DEF Registered, In
<1>6. ASSUME NEW p \in Private PROVE ToSet(t.connections[p]) = ToSet(connections[p]) \ gone
  <2>1. ASSUME NEW d \in Connections, In(t, d, p) PROVE In(State, d, p) /\ d \notin gone
    BY <1>0, <1>2, <2>1 DEF Registered, In
  <2>2. ASSUME NEW d \in Connections, In(State, d, p), d \notin gone PROVE In(t, d, p)
    <3>1. Registered(t, d)
      BY <1>0, <2>2 DEF Registered, In
    <3>2. p \in PrivateIds(d)
      BY <1>1, <2>2 DEF Inv, Enrolled
    <3> QED BY <1>2, <3>1, <3>2 DEF Inv, Whole
  <2> QED BY <1>1, <1>4, <2>1, <2>2 DEF In
<1>7. \A c \in gone : \E p \in Private : c \in ToSet(connections[p])
  BY <1>0, <1>1 DEF Registered
<1>8. \A c \in gone : stage[c] = "added"
  BY <1>0, <1>1, OwnChannels
<1>9. Left' = Left \cup gone
  BY <1>0, <1>2, <1>3, <1>5, <1>8 DEF Left
<1>10. Mem' = [p \in Private |-> Mem[p] \ gone]
  BY <1>3, <1>6 DEF Mem
<1>11. Directory!Leave(gone)
  <2>1. \A c \in gone : Directory!Entered(c)
    BY <1>7 DEF Directory!Entered
  <2> QED BY <1>9, <1>10, <2>1 DEF Directory!Leave, Directory!Remaining, Mem, Left
<1> QED BY <1>11

LEMMA ArrivalEnters ==
  ASSUME LimitAboveOne, PublicIdsAreUnambiguous, NoRepeats,
         LedgerInv, NEW s \in States, NEW a \in Connections, Arrival(s, a)
  PROVE  Directory!Enter(a) \/ (Mem' = Mem /\ Left' = Left)
<1> DEFINE t == Add(s, a)
           gone == {d \in Connections \ {a} : Registered(s, d) /\ ~Registered(t, d)}
<1>1. /\ State \in States /\ Inv(State, {}) /\ State.connections = connections
      /\ State.stage = stage
  BY StateLedger
<1>2. /\ Becomes(t) /\ Inv(s, {}) /\ s.connections = connections /\ s.stage = stage
      /\ stage[a] # "added" /\ Channels[a] # <<>>
  BY DEF Arrival
<1>3. /\ t \in States
      /\ \A p \in Private : ~In(s, a, p)
      /\ \A d \in Connections \ {a} : t.stage[d] = s.stage[d]
      /\ \/ t.connections = s.connections /\ t.stage[a] = "refused"
         \/ /\ \A p \in Private : In(t, a, p) <=> p \in PrivateIds(a)
            /\ t.stage[a] = "added"
            /\ Evictions(s, t, a)
  BY <1>2, AddOutcome
<1>4. Inv(t, {})
  BY <1>2, AddInv
<1> HIDE DEF t
<1>5. /\ Mem' = [p \in Private |-> ToSet(t.connections[p])]
      /\ Left' = {c \in Connections : t.stage[c] = "added" /\ ~Registered(t, c)}
  BY <1>2, <1>3, NewState DEF Mem, Left, Members, IsRegistered
<1>6. \A c : Registered(s, c) <=> Registered(State, c)
  BY <1>1, <1>2 DEF Registered
<1>7. CASE t.connections = s.connections /\ t.stage[a] = "refused"
  <2>1. \A c : Registered(t, c) <=> Registered(State, c)
    BY <1>6, <1>7 DEF Registered
  <2> QED BY <1>2, <1>3, <1>5, <1>7, <2>1 DEF Mem, Left
<1>8. CASE /\ \A p \in Private : In(t, a, p) <=> p \in PrivateIds(a)
           /\ t.stage[a] = "added"
           /\ Evictions(s, t, a)
  <2>1. \A p \in Private : /\ ToSet(connections[p]) \subseteq Connections
                           /\ ToSet(t.connections[p]) \subseteq Connections
    BY <1>1, <1>3 DEF States, ToSet
  <2>2. \A c \in Connections \ {a} : Registered(t, c) => Registered(s, c)
    BY <1>8 DEF Evictions, Registered, In
  <2>3. ASSUME NEW p \in Private
        PROVE  ToSet(t.connections[p]) =
                 (ToSet(connections[p]) \ gone) \cup (IF p \in PrivateIds(a) THEN {a} ELSE {})
    <3>1. ASSUME NEW d \in Connections \ {a}, In(t, d, p) PROVE In(s, d, p) /\ d \notin gone
      BY <1>8, <3>1 DEF Registered, In, Evictions
    <3>2. ASSUME NEW d \in Connections \ {a}, In(s, d, p), d \notin gone PROVE In(t, d, p)
      <4>1. Registered(t, d)
        BY <3>2 DEF Registered, In
      <4>2. p \in PrivateIds(d)
        BY <1>2, <3>2 DEF Inv, Enrolled
      <4> QED BY <1>4, <4>1, <4>2 DEF Inv, Whole
    <3>3. a \in ToSet(t.connections[p]) <=> p \in PrivateIds(a)
      BY <1>8 DEF In
    <3>4. a \notin ToSet(connections[p])
      BY <1>2, <1>3 DEF In
    <3> HIDE DEF gone
    <3>5. \A d \in Connections \ {a} :
            d \in ToSet(t.connections[p]) <=> d \in ToSet(connections[p]) /\ d \notin gone
      BY <1>2, <3>1, <3>2 DEF In
    <3> QED BY <2>1, <3>3, <3>4, <3>5
  <2>4. ~\E p \in Private : a \in Mem[p]
    BY <1>2, <1>3 DEF Mem, In
  <2>5. a \notin Left
    BY <1>2 DEF Left
  <2>6. ASSUME NEW d \in gone
        PROVE  \E p \in PrivateIds(a) : d \in Mem[p] /\ Cardinality(Mem[p]) >= MaxConnPerChannel
    <3>1. Displaced(s, t, a, d)
      BY <1>8 DEF Evictions
    <3>2. PICK i \in DOMAIN Channels[a] :
            In(s, d, Channels[a][i].private) /\ LimitReached(s, a, i)
      BY <3>1 DEF Displaced
    <3> DEFINE p == Channels[a][i].private
    <3>3. p \in Private /\ p \in PrivateIds(a) /\ i \in 1..Len(Channels[a])
      BY ChannelType DEF PrivateIds
    <3>5. ~\E j \in 1..(i - 1) : Channels[a][j].private = p
      <4>1. \A j \in 1..(i - 1) : j \in DOMAIN Channels[a] /\ j # i
        BY <3>3, ChannelType
      <4> QED BY <4>1 DEF NoRepeats
    <3>6. Len(s.connections[p]) >= MaxConnPerChannel
      BY <1>2, <3>2, <3>3, <3>5 DEF LimitReached, States
    <3> HIDE DEF p
    <3>4. Cardinality(ToSet(s.connections[p])) = Len(s.connections[p])
      BY <3>3, SetSize DEF States
    <3>7. In(s, d, p)
      BY <3>2 DEF p
    <3> QED BY <1>2, <3>3, <3>4, <3>6, <3>7 DEF Mem, In
  <2>7. \A c \in gone : stage[c] = "added"
    BY <1>2, OwnChannels
  <2>8. Registered(t, a)
    <3>1. 1 \in DOMAIN Channels[a] /\ Channels[a][1].private \in Private
      BY <1>2, ChannelType
    <3>2. Channels[a][1].private \in PrivateIds(a)
      BY <3>1 DEF PrivateIds
    <3> QED BY <1>8, <3>1, <3>2 DEF Registered, In
  <2>9. Left' = Left \cup gone
    BY <1>2, <1>3, <1>5, <1>6, <2>2, <2>7, <2>8 DEF Left
  <2>10. Mem' = [p \in Private |-> (Mem[p] \ gone) \cup (IF p \in PrivateIds(a) THEN {a} ELSE {})]
    BY <1>5, <2>3 DEF Mem
  <2>11. gone \in SUBSET {d \in Connections : \E p \in PrivateIds(a) :
                            d \in Mem[p] /\ Cardinality(Mem[p]) >= MaxConnPerChannel}
    BY <2>6
  <2> HIDE DEF gone
  <2>12. Directory!Enter(a)
    <3>1. PrivateIds(a) \subseteq Private
      BY ChannelType
    <3>2. Directory!Displaceable(a) =
            {d \in Connections : \E p \in PrivateIds(a) :
               d \in Mem[p] /\ Cardinality(Mem[p]) >= MaxConnPerChannel}
      <4>1. [c \in Connections |-> PrivateIds(c)][a] = PrivateIds(a)
        OBVIOUS
      <4> QED BY <3>1, <4>1 DEF Directory!Displaceable, Mem,
                                Directory!Cardinality, Cardinality
    <3>3. gone \in SUBSET Directory!Displaceable(a)
      BY <2>11, <3>2
    <3> QED BY <2>4, <2>5, <2>9, <2>10, <3>3
            DEF Directory!Enter, Directory!Entered, Directory!Remaining, Mem, Left
  <2> QED BY <2>12
<1> QED BY <1>3, <1>7, <1>8

(* The registry is a directory in which connections enter and leave whole. *)
THEOREM ImplementsDirectory ==
  ASSUME LimitAboveOne, PublicIdsAreUnambiguous, NoRepeats
  PROVE  Spec => DirectorySpec
<1>1. Init => Directory!Init
  <2> SUFFICES ASSUME Init PROVE Directory!Init
    OBVIOUS
  <2>1. \A p \in Private : ToSet(connections[p]) = {}
    BY DEF Init, ToSet
  <2>2. \A c \in Connections : stage[c] # "added"
    BY DEF Init
  <2> QED BY <2>1, <2>2 DEF Directory!Init
<1>2. LedgerInv /\ [Next]_vars => [Directory!Next]_(Directory!dirVars)
  <2> SUFFICES ASSUME LedgerInv, [Next]_vars
               PROVE  [Directory!Next]_(Directory!dirVars)
    OBVIOUS
  <2>1. CASE Next
    <3>1. CASE \E t \in States : Departure(t)
      BY <3>1, DepartureLeaves DEF Directory!Next
    <3>2. CASE \E s \in States, c \in Connections : Arrival(s, c)
      BY <3>2, ArrivalEnters DEF Directory!Next, Directory!dirVars, Mem, Left
    <3> QED BY <2>1, <3>1, <3>2, NextForm DEF CallbackForm
  <2>2. CASE UNCHANGED vars
    <3>1. State' = State
      BY <2>2 DEF vars, State
    <3> QED BY <2>2, <3>1 DEF vars, Directory!dirVars, Registered
  <2> QED BY <2>1, <2>2
<1> QED BY <1>1, <1>2, LedgerInvariant, PTL DEF Spec, DirectorySpec, Directory!Spec

=============================================================================
