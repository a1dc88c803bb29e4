---------------------------- MODULE ClusterProofs ----------------------------
(***************************************************************************)
(* Who is reported as live, and what is reported as online, for any number *)
(* of processes and connections and any intervals that satisfy             *)
(* ClusterAssumption.                                                      *)
(***************************************************************************)
EXTENDS Cluster, TLAPS

USE DEF None, Running

(***************************************************************************)
(* An entry, in the hash or in a reply, is at least as old as its process  *)
(* is dead: nobody writes for a process that has crashed.                  *)
(***************************************************************************)
EntriesAreOlder ==
  /\ \A q \in up : dead[q] = 0
  /\ \A q \in Process : entry[q] # None => dead[q] <= entry[q]
  /\ \A p, q \in Process : reply[p] # <<>> /\ reply[p][q] # None => dead[q] <= reply[p][q]

(***************************************************************************)
(* A pong was sent by a client that was there.  It waits for Rtt ticks, or *)
(* for as long as its process is blocked; a process that runs again        *)
(* handles it before the next tick.                                        *)
(***************************************************************************)
PongDelay(p) == Rtt - 1 + (IF stall[p] = Running THEN MaxStall ELSE stall[p])

PongsAreRecent ==
  /\ \A c \in Conn : peer[c] => seen = 0
  /\ \A c \in Conn : pong[c] # None =>
       /\ state[c] # "none" /\ Home[c] \in up
       /\ IF pong[c] < Rtt THEN seen <= pong[c] ELSE seen <= PongDelay(Home[c])

(***************************************************************************)
(* Without a disturbance a process is late by at most MaxLate: when it is  *)
(* blocked by as long as it is, and when it runs again by no more.         *)
(***************************************************************************)
Late(p) == IF stall[p] = Running THEN MaxLate ELSE stall[p]

ShortStalls == calm > 0 => \A p \in up : stall[p] <= MaxLate

(***************************************************************************)
(* An entry is not older than the last report that was due, once there was *)
(* one since the disturbance.  A reply from before that report may be      *)
(* handled after it, by MaxLate at most, and have the entry deleted; the   *)
(* report after that one brings it back for good.                          *)
(***************************************************************************)
SinceReport(q) == StatTTL - due[q] + (IF due[q] = 0 THEN Late(q) ELSE 0)

Reports ==
  \A q \in up :
    /\ calm > SinceReport(q) => entry[q] <= SinceReport(q)
    /\ calm > SinceReport(q) + StatTTL + 2 * MaxLate => entry[q] # None

Replies ==
  \A p, q \in up : reply[p] # <<>> =>
    /\ calm > StatTTL + MaxLate + Late(p) => reply[p][q] <= StatTTL + MaxLate + Late(p)
    /\ calm > 2 * StatTTL + 3 * MaxLate + Late(p) => reply[p][q] # None

(***************************************************************************)
(* A crash takes the websockets of the process with it.  The channel was   *)
(* set online by the last pong, or when c was added.  As long as the next  *)
(* pong is awaited, that was before the last ping.                         *)
(***************************************************************************)
Homes == \A c \in Conn : state[c] # "none" => Home[c] \in up

SinceOnline(c) ==
  IF pong[c] = None
  THEN PingInterval - ping[c] + (IF ping[c] = 0 THEN Late(Home[c]) ELSE 0)
  ELSE PingInterval + MaxLate + pong[c] + (IF pong[c] = Rtt THEN Late(Home[c]) ELSE 0)

Presence ==
  /\ \A c \in Conn : pong[c] # None => ~active[c]
  /\ \A c \in Conn : state[c] = "open" /\ peer[c] /\ calm > SinceOnline(c) =>
       online + SinceOnline(c) >= KeyTTL

ClusterInv ==
  /\ TypeOK /\ EntriesAreOlder /\ PongsAreRecent /\ OnlineNeedsRecentClient
  /\ ShortStalls /\ Reports /\ Replies /\ Homes /\ Presence

-----------------------------------------------------------------------------
(* The constants that are computed. *)
LEMMA Computed ==
  /\ StatTTL \in Nat \ {0} /\ PingInterval \in Nat \ {0}
  /\ Rtt \in Nat \ {0} /\ MaxStall \in Nat \ {0}
  /\ OldAge \in Nat /\ StatTTL <= OldAge
  /\ KeyTTL \in Nat \ {0} /\ MaxSeen \in Nat /\ MaxSeen + 1 = KeyTTL + Rtt + MaxStall
  /\ MaxCalm \in Nat \ {0}
  /\ \A c \in Conn : Home[c] \in Process
BY ClusterAssumption DEF OldAge, KeyTTL, MaxSeen, MaxCalm, StatCalm, OnlineCalm

LEMMA InitInv == Init => ClusterInv
<1> SUFFICES ASSUME Init PROVE ClusterInv
  OBVIOUS
<1>1. TypeOK
  <2>1. PICK age \in [Process -> 0..StatTTL] :
          entry = age /\ due = [p \in Process |-> StatTTL - age[p]]
    BY DEF Init
  <2> QED BY <2>1, Computed, ClusterAssumption DEF Init, TypeOK
<1>2. EntriesAreOlder
  <2>1. \A q \in Process : dead[q] = 0 /\ reply[q] = <<>>
    BY DEF Init
  <2>2. \A q \in Process : entry[q] \in 0..StatTTL
    BY DEF Init
  <2> QED BY <2>1, <2>2, <1>1, ClusterAssumption DEF EntriesAreOlder, TypeOK
<1>3. PongsAreRecent
  BY DEF Init, PongsAreRecent
<1>4. OnlineNeedsRecentClient
  BY DEF Init, OnlineNeedsRecentClient, IsOnline
<1>5. ShortStalls /\ Replies /\ Homes /\ Presence
  <2>1. \A p \in up : stall[p] = Running /\ reply[p] = <<>>
    BY DEF Init
  <2>2. \A c \in Conn : state[c] = "none" /\ pong[c] = None
    BY DEF Init
  <2> QED BY <2>1, <2>2, ClusterAssumption DEF ShortStalls, Replies, Homes, Presence
<1>6. Reports
  <2> SUFFICES ASSUME NEW q \in up
               PROVE  /\ entry[q] <= SinceReport(q)
                      /\ entry[q] # None
    BY DEF Reports
  <2>1. PICK age \in [Process -> 0..StatTTL] :
          entry = age /\ due = [p \in Process |-> StatTTL - age[p]]
    BY DEF Init
  <2>2. q \in Process /\ entry[q] \in 0..StatTTL /\ due[q] = StatTTL - entry[q]
    BY <2>1 DEF Init
  <2>3. Late(q) \in Nat
    BY <2>2, ClusterAssumption DEF Init, Late
  <2> QED BY <2>2, <2>3, ClusterAssumption DEF SinceReport
<1> QED BY <1>1, <1>2, <1>3, <1>4, <1>5, <1>6 DEF ClusterInv

-----------------------------------------------------------------------------
(* The types. *)
LEMMA CommandTypes ==
  ASSUME calm \in 0..MaxCalm, Succeeds \/ Fails
  PROVE  calm' \in 0..MaxCalm
BY Computed DEF Succeeds, Fails

LEMMA StatsTypes ==
  ASSUME TypeOK, NEW p \in Process,
         SetServerStats(p) \/ GetServerStats(p) \/ StatsReplied(p)
  PROVE  TypeOK'
<1>1. UNCHANGED <<up, dead, cvars, online, seen>> /\ p \in up
  BY DEF SetServerStats, GetServerStats, StatsReplied, Runs, pvars
<1>6. calm' \in 0..MaxCalm
  <2>1. Succeeds \/ Fails \/ calm' = calm
    BY DEF SetServerStats, GetServerStats, StatsReplied
  <2> QED BY <2>1, CommandTypes DEF TypeOK
<1>7. /\ stall' \in [Process -> {Running} \cup 0..MaxStall]
      /\ \A q \in Process \ up : stall'[q] = Running
  <2>1. stall' = stall \/ stall' = [stall EXCEPT ![p] = 0]
    BY DEF SetServerStats, GetServerStats, StatsReplied, Blocks, pvars
  <2>2. 0 \in 0..MaxStall
    BY Computed
  <2> QED BY <1>1, <2>1, <2>2 DEF TypeOK
<1>2. due' \in [Process -> 0..StatTTL]
  <2>1. due' = due \/ due' = [due EXCEPT ![p] = StatTTL]
    BY DEF SetServerStats, GetServerStats, StatsReplied
  <2>2. due \in [Process -> 0..StatTTL]
    BY DEF TypeOK
  <2>3. StatTTL \in 0..StatTTL
    BY Computed
  <2> QED BY <2>1, <2>2, <2>3
<1>3. entry' \in [Process -> {None} \cup 0..OldAge + 1]
  <2>1. \/ entry' = entry \/ entry' = [entry EXCEPT ![p] = 0]
        \/ entry' = [q \in Process |-> IF q \in OldKeys(reply[p]) THEN None ELSE entry[q]]
    BY DEF SetServerStats, GetServerStats, StatsReplied
  <2>2. entry \in [Process -> {None} \cup 0..OldAge + 1]
    BY DEF TypeOK
  <2>3. 0 \in 0..OldAge + 1
    BY Computed
  <2> QED BY <2>1, <2>2, <2>3
<1>4. reply' \in [Process -> {<<>>} \cup [Process -> {None} \cup 0..OldAge + 1]]
  BY DEF SetServerStats, GetServerStats, StatsReplied, tvars, TypeOK
<1>5. \A q \in Process \ up : reply'[q] = <<>>
  BY <1>1 DEF SetServerStats, GetServerStats, StatsReplied, tvars, TypeOK
<1> QED BY <1>1, <1>2, <1>3, <1>4, <1>5, <1>6, <1>7 DEF TypeOK, cvars

LEMMA OnlineTypes ==
  ASSUME TypeOK, SetOnline
  PROVE  online' \in 0..KeyTTL /\ calm' \in 0..MaxCalm
BY Computed, CommandTypes DEF SetOnline, TypeOK

LEMMA ConnectionTypes ==
  ASSUME TypeOK, NEW c \in Conn,
         Add(c) \/ Ping(c) \/ Pong(c) \/ Close(c) \/ Closed(c) \/ Vanish(c)
  PROVE  TypeOK'
<1>1. UNCHANGED <<pvars, tvars>>
  BY DEF Add, Ping, Pong, Close, Closed, Vanish
<1>2. online' \in 0..KeyTTL /\ calm' \in 0..MaxCalm
  BY OnlineTypes DEF Add, Ping, Pong, Close, Closed, Vanish, TypeOK
<1>3. seen' \in 0..MaxSeen
  BY Computed DEF Add, Ping, Pong, Close, Closed, Vanish, TypeOK
<1>4. state' \in [Conn -> {"none", "open", "closing"}]
  BY DEF Add, Ping, Pong, Close, Closed, Vanish, Gone, TypeOK
<1>5. peer' \in [Conn -> BOOLEAN] /\ active' \in [Conn -> BOOLEAN]
  BY DEF Add, Ping, Pong, Close, Closed, Vanish, Gone, TypeOK
<1>6. ping' \in [Conn -> 0..PingInterval]
  <2>1. \/ ping' = ping \/ ping' = [ping EXCEPT ![c] = 0]
        \/ ping' = [ping EXCEPT ![c] = PingInterval]
    BY DEF Add, Ping, Pong, Close, Closed, Vanish, Gone
  <2> QED BY <2>1, Computed DEF TypeOK
<1>7. pong' \in [Conn -> {None} \cup 0..Rtt]
  <2>1. \/ pong' = pong \/ pong' = [pong EXCEPT ![c] = 0]
        \/ pong' = [pong EXCEPT ![c] = None]
    BY DEF Add, Ping, Pong, Close, Closed, Vanish, Gone
  <2>2. pong \in [Conn -> {None} \cup 0..Rtt]
    BY DEF TypeOK
  <2>3. 0 \in 0..Rtt
    BY Computed
  <2> QED BY <2>1, <2>2, <2>3
<1> QED BY <1>1, <1>2, <1>3, <1>4, <1>5, <1>6, <1>7 DEF TypeOK, pvars, tvars

LEMMA TickTypes == TypeOK /\ Tick => TypeOK'
<1> SUFFICES ASSUME TypeOK, Tick PROVE TypeOK'
  OBVIOUS
<1>1. up' = up /\ state' = state /\ peer' = peer /\ active' = active
  BY DEF Tick
<1>2. \A age \in {None} \cup 0..OldAge + 1 : Older(age) \in {None} \cup 0..OldAge + 1
  BY Computed DEF Older, Min2
<1>3. entry' \in [Process -> {None} \cup 0..OldAge + 1]
  BY <1>2 DEF Tick, TypeOK
<1>4. /\ reply' \in [Process -> {<<>>} \cup [Process -> {None} \cup 0..OldAge + 1]]
      /\ dead' \in [Process -> 0..OldAge + 1]
  <2>1. \A p \in Process : reply[p] # <<>> =>
          [q \in Process |-> Older(reply[p][q])] \in [Process -> {None} \cup 0..OldAge + 1]
    <3> SUFFICES ASSUME NEW p \in Process, reply[p] # <<>>
                 PROVE  \A q \in Process : Older(reply[p][q]) \in {None} \cup 0..OldAge + 1
      OBVIOUS
    <3>1. reply[p] \in [Process -> {None} \cup 0..OldAge + 1]
      BY DEF TypeOK
    <3> QED BY <1>2, <3>1
  <2> QED BY <2>1, Computed DEF Tick, TypeOK, Min2
<1>5. due' \in [Process -> 0..StatTTL]
  BY ClusterAssumption DEF Tick, TypeOK, Down
<1>6. stall' \in [Process -> {Running} \cup 0..MaxStall]
  <2>1. \A p \in Process : stall[p] # Running => p \in up /\ stall[p] < MaxStall
    BY DEF Tick, TypeOK
  <2> QED BY <2>1, ClusterAssumption DEF Tick, TypeOK
<1>10. \A p \in Process \ up' : reply'[p] = <<>> /\ stall'[p] = Running
  BY <1>1 DEF Tick, TypeOK
<1>7. ping' \in [Conn -> 0..PingInterval]
  BY ClusterAssumption DEF Tick, TypeOK, Down
<1>8. pong' \in [Conn -> {None} \cup 0..Rtt]
  BY ClusterAssumption DEF Tick, TypeOK, Min2
<1>9. online' \in 0..KeyTTL /\ calm' \in 0..MaxCalm /\ seen' \in 0..MaxSeen
  BY Computed DEF Tick, TypeOK, Down, Min2
<1> QED BY <1>1, <1>3, <1>4, <1>5, <1>6, <1>7, <1>8, <1>9, <1>10 DEF TypeOK

LEMMA ProcessTypes ==
  ASSUME TypeOK, NEW p \in Process, Crash(p) \/ Stall(p) \/ Resume(p)
  PROVE  TypeOK'
<1>1. CASE Crash(p)
  <2>1. /\ up' = up \ {p} /\ UNCHANGED <<entry, online, calm, seen>>
        /\ stall' = [stall EXCEPT ![p] = Running]
        /\ dead' = [dead EXCEPT ![p] = 0]
        /\ reply' = [reply EXCEPT ![p] = <<>>]
        /\ due' = [due EXCEPT ![p] = 0]
    BY <1>1 DEF Crash
  <2>2. 0 \in 0..StatTTL /\ 0 \in 0..OldAge + 1 /\ 0 \in 0..PingInterval
    BY Computed
  <2>3. /\ stall' \in [Process -> {Running} \cup 0..MaxStall]
        /\ dead' \in [Process -> 0..OldAge + 1]
        /\ due' \in [Process -> 0..StatTTL]
        /\ reply' \in [Process -> {<<>>} \cup [Process -> {None} \cup 0..OldAge + 1]]
        /\ \A q \in Process \ up' : reply'[q] = <<>> /\ stall'[q] = Running
    BY <2>1, <2>2 DEF TypeOK
  <2>4. /\ state' \in [Conn -> {"none", "open", "closing"}]
        /\ peer' \in [Conn -> BOOLEAN] /\ active' \in [Conn -> BOOLEAN]
        /\ ping' \in [Conn -> 0..PingInterval] /\ pong' \in [Conn -> {None} \cup 0..Rtt]
    BY <1>1, <2>2 DEF Crash, TypeOK
  <2> QED BY <2>1, <2>3, <2>4 DEF TypeOK
<1>2. CASE Stall(p) \/ Resume(p)
  <2>1. /\ UNCHANGED <<up, dead, tvars, cvars, online, calm, seen>>
        /\ stall' = [stall EXCEPT ![p] = 0] \/ stall' = [stall EXCEPT ![p] = Running]
        /\ p \in up
    BY <1>2 DEF Stall, Resume, Runs, Blocks
  <2>2. 0 \in 0..MaxStall
    BY Computed
  <2>3. stall' \in [Process -> {Running} \cup 0..MaxStall]
    BY <2>1, <2>2 DEF TypeOK
  <2>4. \A q \in Process \ up : stall'[q] = Running
    BY <2>1 DEF TypeOK
  <2> QED BY <2>1, <2>3, <2>4 DEF TypeOK, tvars, cvars
<1> QED BY <1>1, <1>2

LEMMA AddPollTypes == TypeOK /\ AddPoll => TypeOK'
<1> SUFFICES ASSUME TypeOK, AddPoll PROVE TypeOK'
  OBVIOUS
<1>1. online' \in 0..KeyTTL /\ calm' \in 0..MaxCalm /\ seen' \in 0..MaxSeen
  BY OnlineTypes, Computed DEF AddPoll
<1> QED BY <1>1 DEF AddPoll, TypeOK, pvars, tvars, cvars

LEMMA NextTypes == TypeOK /\ [Next]_vars => TypeOK'
<1>1. TypeOK /\ UNCHANGED vars => TypeOK'
  BY DEF TypeOK, vars, pvars, tvars, cvars
<1> QED BY <1>1, StatsTypes, ProcessTypes, ConnectionTypes, AddPollTypes, TickTypes DEF Next

-----------------------------------------------------------------------------
(* Entries, replies and the dead. *)
LEMMA EntriesStep ==
  ASSUME TypeOK, TypeOK', EntriesAreOlder, [Next]_vars
  PROVE  EntriesAreOlder'
<1> USE DEF EntriesAreOlder
<1>1. ASSUME NEW p \in Process, SetServerStats(p)
      PROVE  EntriesAreOlder'
  <2>1. /\ up' = up /\ dead' = dead /\ reply' = reply /\ p \in up
        /\ entry' = entry \/ entry' = [entry EXCEPT ![p] = 0]
    BY <1>1 DEF SetServerStats, Runs, pvars
  <2>2. p \in up /\ dead[p] = 0
    BY <1>1 DEF SetServerStats, Runs
  <2>3. ASSUME NEW q \in Process, entry'[q] # None
        PROVE  dead[q] <= entry'[q]
    <3>1. CASE entry'[q] = entry[q]
      BY <2>3, <3>1
    <3>2. CASE q = p /\ entry'[q] = 0
      BY <2>2, <3>2
    <3>3. entry'[q] = entry[q] \/ (q = p /\ entry'[q] = 0)
      BY <2>1 DEF TypeOK
    <3> QED BY <3>1, <3>2, <3>3
  <2> QED BY <2>1, <2>3
<1>2. ASSUME NEW p \in Process, GetServerStats(p)
      PROVE  EntriesAreOlder'
  <2>1. /\ up' = up /\ dead' = dead /\ entry' = entry
        /\ reply' = [reply EXCEPT ![p] = entry]
    BY <1>2 DEF GetServerStats, pvars
  <2> QED BY <2>1 DEF TypeOK
<1>3. ASSUME NEW p \in Process, StatsReplied(p)
      PROVE  EntriesAreOlder'
  <2>1. /\ up' = up /\ dead' = dead /\ reply' = [reply EXCEPT ![p] = <<>>]
        /\ \A q \in Process : entry'[q] = None \/ entry'[q] = entry[q]
    BY <1>3 DEF StatsReplied, pvars
  <2> QED BY <2>1 DEF TypeOK
<1>4. ASSUME NEW p \in Process, Crash(p)
      PROVE  EntriesAreOlder'
  <2>1. /\ up' = up \ {p} /\ dead' = [dead EXCEPT ![p] = 0] /\ entry' = entry
        /\ reply' = [reply EXCEPT ![p] = <<>>]
    BY <1>4 DEF Crash
  <2>2. \A q \in Process : dead'[q] <= dead[q]
    BY <2>1, Computed DEF TypeOK
  <2>3. \A q \in Process : entry[q] # None => dead'[q] <= entry[q]
    BY <2>2, Computed DEF TypeOK
  <2>4. ASSUME NEW r \in Process, NEW q \in Process, reply'[r] # <<>>, reply'[r][q] # None
        PROVE  dead'[q] <= reply'[r][q]
    <3>1. reply'[r] = reply[r]
      BY <2>1, <2>4 DEF TypeOK
    <3>2. dead[q] <= reply[r][q] /\ reply[r] \in [Process -> {None} \cup 0..OldAge + 1]
      BY <2>4, <3>1 DEF TypeOK
    <3>3. reply[r][q] \in 0..OldAge + 1 /\ dead[q] \in 0..OldAge + 1 /\ dead'[q] \in 0..OldAge + 1
      BY <2>4, <3>1, <3>2 DEF TypeOK
    <3> QED BY <2>2, <3>1, <3>2, <3>3, Computed
  <2> QED BY <2>1, <2>3, <2>4 DEF TypeOK
<1>5. CASE Tick
  <2>1. /\ up' = up
        /\ dead' = [p \in Process |-> IF p \in up THEN 0 ELSE Min2(dead[p] + 1, OldAge + 1)]
        /\ entry' = [p \in Process |-> Older(entry[p])]
        /\ reply' = [p \in Process |->
             IF reply[p] = <<>> THEN <<>> ELSE [q \in Process |-> Older(reply[p][q])]]
    BY <1>5 DEF Tick
  <2>2. ASSUME NEW q \in Process, NEW age \in {None} \cup 0..OldAge + 1,
               age # None => dead[q] <= age, Older(age) # None
        PROVE  dead'[q] <= Older(age)
    <3>1. age \in 0..OldAge + 1 /\ Older(age) = Min2(age + 1, OldAge + 1)
      BY <2>2 DEF Older
    <3>2. dead[q] \in 0..OldAge + 1 /\ dead[q] <= age
      BY <2>2, <3>1, Computed DEF TypeOK
    <3> QED BY <2>1, <3>1, <3>2, Computed DEF Min2
  <2>3. \A q \in Process : entry'[q] # None => dead'[q] <= entry'[q]
    BY <2>1, <2>2 DEF TypeOK
  <2>4. ASSUME NEW p \in Process, NEW q \in Process, reply'[p] # <<>>, reply'[p][q] # None
        PROVE  dead'[q] <= reply'[p][q]
    <3>1. reply[p] # <<>> /\ reply'[p][q] = Older(reply[p][q])
      BY <2>1, <2>4
    <3>2. reply[p][q] \in {None} \cup 0..OldAge + 1
      BY <3>1 DEF TypeOK
    <3> QED BY <2>2, <2>4, <3>1, <3>2
  <2> QED BY <2>1, <2>3, <2>4 DEF TypeOK
<1>6. ASSUME UNCHANGED <<up, dead, entry, reply>>
      PROVE  EntriesAreOlder'
  BY <1>6
<1>7. ASSUME NEW p \in Process, Stall(p) \/ Resume(p)
      PROVE  EntriesAreOlder'
  BY <1>6, <1>7 DEF Stall, Resume, tvars
<1>8. ASSUME NEW c \in Conn,
             Add(c) \/ Ping(c) \/ Pong(c) \/ Close(c) \/ Closed(c) \/ Vanish(c)
      PROVE  EntriesAreOlder'
  BY <1>6, <1>8 DEF Add, Ping, Pong, Close, Closed, Vanish, pvars, tvars
<1>9. CASE AddPoll \/ UNCHANGED vars
  BY <1>6, <1>9 DEF AddPoll, vars, pvars, tvars
<1> QED BY <1>1, <1>2, <1>3, <1>4, <1>5, <1>7, <1>8, <1>9 DEF Next

-----------------------------------------------------------------------------
(* Pongs, and the time since a client was there. *)
LEMMA BlocksPongs ==
  ASSUME TypeOK, TypeOK', PongsAreRecent, NEW p \in Process, Runs(p), Blocks(p),
         UNCHANGED <<up, seen, cvars>>
  PROVE  PongsAreRecent'
<1>1. UNCHANGED <<state, peer, pong>>
  BY DEF cvars
<1>2. ASSUME NEW q \in Process, q # p
      PROVE  PongDelay(q)' = PongDelay(q)
  BY <1>2 DEF Blocks, PongDelay, TypeOK
<1>3. ASSUME NEW c \in Conn, Home[c] = p, pong[c] # None
      PROVE  pong[c] < Rtt
  <2>1. state[c] # "none" /\ pong[c] # Rtt /\ pong[c] \in 0..Rtt
    BY <1>3 DEF Blocks, Due, PongsAreRecent, TypeOK
  <2> QED BY <2>1, Computed
<1> QED BY <1>1, <1>2, <1>3, Computed DEF PongsAreRecent

LEMMA PongsStep ==
  ASSUME TypeOK, TypeOK', PongsAreRecent, [Next]_vars
  PROVE  PongsAreRecent'
<1>1. CASE Tick
  <2>1. /\ up' = up /\ state' = state /\ peer' = peer
        /\ pong' = [c \in Conn |-> IF pong[c] = None THEN None ELSE Min2(pong[c] + 1, Rtt)]
        /\ stall' = [p \in Process |-> IF stall[p] = Running THEN Running ELSE stall[p] + 1]
        /\ seen' = IF \E c \in Conn : peer[c] THEN 0 ELSE Min2(seen + 1, MaxSeen)
    BY <1>1 DEF Tick
  <2>2. seen \in Nat /\ seen' \in Nat /\ seen' <= seen + 1
    BY <2>1, Computed DEF TypeOK, Min2
  <2>3. ASSUME NEW c \in Conn, pong'[c] # None
        PROVE  /\ state'[c] # "none" /\ Home[c] \in up'
               /\ IF pong'[c] < Rtt THEN seen' <= pong'[c] ELSE seen' <= PongDelay(Home[c])'
    <3>1. /\ pong[c] # None /\ pong[c] \in 0..Rtt /\ pong'[c] = Min2(pong[c] + 1, Rtt)
          /\ state[c] # "none" /\ Home[c] \in up /\ Home[c] \in Process
          /\ stall[Home[c]] = Running \/ stall[Home[c]] \in 0..MaxStall
      BY <2>1, <2>3, Computed DEF PongsAreRecent, TypeOK
    <3>2. CASE pong[c] < Rtt
      <4>1. seen <= pong[c] /\ pong'[c] = pong[c] + 1 /\ seen' <= pong'[c]
        BY <2>2, <3>1, <3>2, Computed DEF PongsAreRecent, Min2
      <4>2. CASE pong'[c] < Rtt
        BY <2>1, <3>1, <4>1, <4>2
      <4>3. CASE ~(pong'[c] < Rtt)
        <5>1. seen' <= Rtt
          BY <2>2, <3>1, <3>2, <4>1, Computed
        <5>2. PongDelay(Home[c])' >= Rtt
          BY <2>1, <3>1, Computed DEF PongDelay
        <5>3. PongDelay(Home[c])' \in Nat
          BY <2>1, <3>1, Computed DEF PongDelay
        <5> QED BY <2>1, <2>2, <3>1, <4>3, <5>1, <5>2, <5>3, Computed
      <4> QED BY <4>2, <4>3
    <3>3. CASE pong[c] = Rtt
      <4>1. Busy(Home[c])
        BY <3>1, <3>3 DEF Busy, Due
      <4>2. stall[Home[c]] \in 0..MaxStall
        BY <1>1, <3>1, <4>1 DEF Tick, Runs
      <4>3. pong'[c] = Rtt
        BY <3>1, <3>3, Computed DEF Min2
      <4>4. seen <= Rtt - 1 + stall[Home[c]]
        BY <3>1, <3>3, <4>2, Computed DEF PongsAreRecent, PongDelay
      <4>5. PongDelay(Home[c])' = Rtt - 1 + stall[Home[c]] + 1
        BY <2>1, <3>1, <4>2, Computed DEF PongDelay
      <4> QED BY <2>1, <2>2, <3>1, <4>2, <4>3, <4>4, <4>5, Computed
    <3> QED BY <3>1, <3>2, <3>3, Computed
  <2>4. \A c \in Conn : peer'[c] => seen' = 0
    BY <2>1
  <2> QED BY <2>3, <2>4 DEF PongsAreRecent
<1>2. ASSUME NEW c \in Conn, Add(c)
      PROVE  PongsAreRecent'
  <2>1. /\ UNCHANGED <<up, stall, pong>> /\ seen' = 0
        /\ \A d \in Conn : state[d] # "none" => state'[d] # "none"
    BY <1>2 DEF Add, pvars, TypeOK
  <2>2. \A p \in Process : PongDelay(p)' \in Nat
    BY Computed DEF TypeOK, PongDelay
  <2> QED BY <2>1, <2>2, Computed DEF PongsAreRecent, TypeOK
<1>3. ASSUME NEW c \in Conn, Ping(c)
      PROVE  PongsAreRecent'
  <2>1. UNCHANGED <<up, stall, seen>> /\ Home[c] \in up /\ Home[c] \in Process
    BY <1>3, Computed DEF Ping, Runs, pvars
  <2>2. CASE active[c]
    <3>1. /\ UNCHANGED <<state, peer>> /\ state[c] # "none"
          /\ pong' = [pong EXCEPT ![c] = IF peer[c] THEN 0 ELSE None]
      BY <1>3, <2>2 DEF Ping
    <3>2. ASSUME peer[c] PROVE seen = 0
      BY <3>2 DEF PongsAreRecent
    <3>3. PongsAreRecent
      OBVIOUS
    <3>4. \A d \in Conn : d # c => pong'[d] = pong[d]
      BY <3>1 DEF TypeOK
    <3>5. pong'[c] = None \/ (pong'[c] = 0 /\ seen = 0)
      BY <3>1, <3>2 DEF TypeOK
    <3>6. \A d \in Conn : PongDelay(Home[d])' = PongDelay(Home[d])
      BY <2>1 DEF PongDelay
    <3> QED BY <2>1, <3>1, <3>3, <3>4, <3>5, <3>6, Computed DEF PongsAreRecent
  <2>3. CASE ~active[c]
    <3>1. Gone(c)
      BY <1>3, <2>3 DEF Ping
    <3> QED BY <2>1, <3>1 DEF Gone, PongsAreRecent, PongDelay, TypeOK
  <2> QED BY <2>2, <2>3
<1>4. ASSUME NEW c \in Conn, Pong(c) \/ Close(c) \/ Closed(c) \/ Vanish(c)
      PROVE  PongsAreRecent'
  <2>1. UNCHANGED <<up, stall, seen>>
    BY <1>4 DEF Pong, Close, Closed, Vanish, pvars
  <2>2. \A d \in Conn : /\ peer'[d] => peer[d]
                        /\ pong'[d] # None => pong'[d] = pong[d]
                        /\ pong'[d] # None /\ state[d] # "none" => state'[d] # "none"
    BY <1>4 DEF Pong, Close, Closed, Vanish, Gone, TypeOK
  <2> QED BY <2>1, <2>2 DEF PongsAreRecent, PongDelay
<1>5. ASSUME NEW p \in Process, Crash(p)
      PROVE  PongsAreRecent'
  <2>1. up' = up \ {p} /\ seen' = seen /\ stall' = [stall EXCEPT ![p] = Running]
    BY <1>5 DEF Crash
  <2>2. \A d \in Conn : /\ state'[d] = IF Home[d] = p THEN "none" ELSE state[d]
                        /\ pong'[d] = IF Home[d] = p THEN None ELSE pong[d]
    BY <1>5 DEF Crash
  <2>3. \A d \in Conn : peer'[d] => peer[d]
    BY <1>5 DEF Crash
  <2>4. \A d \in Conn : Home[d] # p => PongDelay(Home[d])' = PongDelay(Home[d])
    BY <2>1, Computed DEF PongDelay, TypeOK
  <2> QED BY <2>1, <2>2, <2>3, <2>4 DEF PongsAreRecent
<1>6. ASSUME NEW p \in Process, Stall(p) \/ Resume(p)
      PROVE  PongsAreRecent'
  <2>1. UNCHANGED <<up, seen, state, peer, pong>>
    BY <1>6 DEF Stall, Resume, cvars
  <2>3. CASE Stall(p)
    BY <2>3, BlocksPongs DEF Stall
  <2>4. CASE Resume(p)
    <3>3. \A q \in Process : q # p => PongDelay(q)' = PongDelay(q)
      BY <2>4 DEF Resume, PongDelay, TypeOK
    <3>1. PongDelay(p) <= PongDelay(p)' /\ PongDelay(p) \in Nat /\ PongDelay(p)' \in Nat
      BY <2>4, Computed DEF Resume, PongDelay, TypeOK
    <3>2. ASSUME NEW c \in Conn, pong[c] # None, ~(pong[c] < Rtt)
          PROVE  seen <= PongDelay(Home[c])'
      <4>1. seen <= PongDelay(Home[c])
        BY <3>2 DEF PongsAreRecent
      <4>2. seen \in Nat
        BY DEF TypeOK
      <4> QED BY <3>3, <3>1, <4>1, <4>2, Computed
    <3> QED BY <2>1, <3>2 DEF PongsAreRecent
  <2> QED BY <1>6, <2>3, <2>4
<1>7. ASSUME UNCHANGED <<up, stall, state, peer, pong, seen>>
      PROVE  PongsAreRecent'
  BY <1>7 DEF PongsAreRecent, PongDelay
<1>8. ASSUME NEW p \in Process, SetServerStats(p) \/ GetServerStats(p) \/ StatsReplied(p)
      PROVE  PongsAreRecent'
  <2>1. CASE GetServerStats(p)
    <3>1. Runs(p) /\ UNCHANGED <<up, seen, cvars>>
      BY <2>1 DEF GetServerStats
    <3>2. CASE stall' = stall
      BY <1>7, <3>1, <3>2 DEF cvars
    <3> QED BY <2>1, <3>1, <3>2, BlocksPongs DEF GetServerStats
  <2>2. CASE SetServerStats(p) \/ StatsReplied(p)
    BY <1>7, <2>2 DEF SetServerStats, StatsReplied, pvars, cvars
  <2> QED BY <1>8, <2>1, <2>2
<1>9. CASE AddPoll
  <2>1. UNCHANGED <<up, stall, state, peer, pong>> /\ seen' = 0
    BY <1>9 DEF AddPoll, pvars, cvars
  <2>2. \A p \in Process : PongDelay(p)' \in Nat
    BY Computed DEF TypeOK, PongDelay
  <2> QED BY <2>1, <2>2, Computed DEF PongsAreRecent, TypeOK
<1>10. CASE UNCHANGED vars
  BY <1>7, <1>10 DEF vars, pvars, cvars
<1> QED BY <1>1, <1>2, <1>3, <1>4, <1>5, <1>6, <1>8, <1>9, <1>10 DEF Next

(* What sets the channel online: a client that is added, or a pong. *)
LEMMA SetOnlineStep ==
  ASSUME TypeOK, SetOnline, OnlineNeedsRecentClient,
         seen' \in Nat, seen' <= seen, seen' < Rtt + MaxStall
  PROVE  OnlineNeedsRecentClient'
<1>1. CASE online' = KeyTTL
  BY <1>1, Computed DEF OnlineNeedsRecentClient, IsOnline
<1>2. CASE online' = online
  BY <1>2, Computed DEF OnlineNeedsRecentClient, IsOnline, TypeOK
<1> QED BY <1>1, <1>2 DEF SetOnline

LEMMA OnlineStep ==
  ASSUME TypeOK, TypeOK', PongsAreRecent, OnlineNeedsRecentClient, [Next]_vars
  PROVE  OnlineNeedsRecentClient'
<1>1. CASE Tick
  <2>1. seen' <= seen + 1 /\ online' = Down(online)
    BY <1>1, Computed DEF Tick, Min2, TypeOK
  <2> QED BY <2>1, Computed DEF Down, OnlineNeedsRecentClient, IsOnline, TypeOK
<1>2. ASSUME AddPoll \/ \E c \in Conn : Add(c)
      PROVE  OnlineNeedsRecentClient'
  <2>1. SetOnline /\ seen' = 0
    BY <1>2 DEF AddPoll, Add
  <2> QED BY <2>1, SetOnlineStep, Computed DEF TypeOK
<1>3. ASSUME NEW c \in Conn, Pong(c)
      PROVE  OnlineNeedsRecentClient'
  <2>1. SetOnline /\ seen' = seen /\ pong[c] # None
    BY <1>3 DEF Pong
  <2>2. seen \in Nat /\ pong[c] \in 0..Rtt
    BY <2>1 DEF TypeOK
  <2>3. PongDelay(Home[c]) < Rtt + MaxStall /\ PongDelay(Home[c]) \in Nat
    <3>1. Home[c] \in Process
      BY Computed
    <3>2. stall[Home[c]] = Running \/ stall[Home[c]] \in 0..MaxStall
      BY <3>1 DEF TypeOK
    <3> QED BY <3>2, Computed DEF PongDelay
  <2>4. seen < Rtt + MaxStall
    BY <2>1, <2>2, <2>3, Computed DEF PongsAreRecent
  <2> QED BY <2>1, <2>2, <2>4, SetOnlineStep
<1>4. ASSUME online' = online, seen' = seen
      PROVE  OnlineNeedsRecentClient'
  BY <1>4 DEF OnlineNeedsRecentClient, IsOnline
<1>5. ASSUME NEW p \in Process,
             \/ SetServerStats(p) \/ GetServerStats(p) \/ StatsReplied(p)
             \/ Crash(p) \/ Stall(p) \/ Resume(p)
      PROVE  OnlineNeedsRecentClient'
  BY <1>4, <1>5 DEF SetServerStats, GetServerStats, StatsReplied, Crash, Stall, Resume
<1>6. ASSUME NEW c \in Conn, Ping(c) \/ Close(c) \/ Closed(c) \/ Vanish(c)
      PROVE  OnlineNeedsRecentClient'
  BY <1>4, <1>6 DEF Ping, Close, Closed, Vanish
<1>7. CASE UNCHANGED vars
  BY <1>4, <1>7 DEF vars
<1> QED BY <1>1, <1>2, <1>3, <1>5, <1>6, <1>7 DEF Next

-----------------------------------------------------------------------------
(* Stalls, and how late a process is. *)
LEMMA CalmComputed ==
  /\ MaxLate \in Nat /\ MaxCalm \in Nat /\ StatTTL \in Nat \ {0}
  /\ StatTTL + 2 * MaxLate <= OldAge /\ OldAge \in Nat
  /\ 2 * StatTTL + 4 * MaxLate = StatCalm
  /\ PingInterval + 2 * MaxLate + Rtt = OnlineCalm /\ OnlineCalm < KeyTTL
  /\ PingInterval \in Nat \ {0} /\ Rtt \in Nat \ {0} /\ KeyTTL \in Nat
BY Computed, ClusterAssumption DEF OldAge, KeyTTL, StatCalm, OnlineCalm

LEMMA LateBounds ==
  ASSUME TypeOK, NEW p \in Process
  PROVE  /\ Late(p) \in Nat
         /\ stall[p] = Running => Late(p) = MaxLate
         /\ ShortStalls /\ p \in up /\ calm > 0 => Late(p) <= MaxLate
BY CalmComputed, Computed DEF TypeOK, Late, ShortStalls

LEMMA CalmSteps ==
  ASSUME [Next]_vars, ~Tick
  PROVE  calm' = calm \/ calm' = 0
<1>1. ASSUME NEW p \in Process,
             \/ SetServerStats(p) \/ GetServerStats(p) \/ StatsReplied(p)
             \/ Crash(p) \/ Stall(p) \/ Resume(p)
      PROVE  calm' = calm \/ calm' = 0
  BY <1>1 DEF SetServerStats, GetServerStats, StatsReplied, Crash, Stall, Resume, Fails, Succeeds
<1>2. ASSUME NEW c \in Conn,
             Add(c) \/ Ping(c) \/ Pong(c) \/ Close(c) \/ Closed(c) \/ Vanish(c)
      PROVE  calm' = calm \/ calm' = 0
  BY <1>2 DEF Add, Ping, Pong, Close, Closed, Vanish, SetOnline, Fails, Succeeds
<1>3. CASE AddPoll \/ UNCHANGED vars
  BY <1>3 DEF AddPoll, SetOnline, Fails, Succeeds, vars
<1> QED BY <1>1, <1>2, <1>3 DEF Next

(* Actions other than Tick, and how they change the stalls. *)
LEMMA StallSteps ==
  ASSUME TypeOK, [Next]_vars, ~Tick
  PROVE  /\ up' \subseteq up
         /\ \/ UNCHANGED stall
            \/ \E p \in up : Blocks(p) /\ (GetServerStats(p) \/ Stall(p))
            \/ \E p \in up : p \notin up' /\ stall' = [stall EXCEPT ![p] = Running]
            \/ \E p \in up : Resume(p)
<1>1. ASSUME NEW p \in Process, SetServerStats(p) \/ StatsReplied(p)
      PROVE  UNCHANGED <<up, stall>>
  BY <1>1 DEF SetServerStats, StatsReplied, pvars
<1>2. ASSUME NEW p \in Process, GetServerStats(p) \/ Stall(p)
      PROVE  up' = up /\ p \in up /\ (UNCHANGED stall \/ Blocks(p))
  BY <1>2 DEF GetServerStats, Stall, Runs
<1>3. ASSUME NEW p \in Process, Crash(p)
      PROVE  up' = up \ {p} /\ p \in up /\ stall' = [stall EXCEPT ![p] = Running]
  BY <1>3 DEF Crash
<1>4. ASSUME NEW p \in Process, Resume(p)
      PROVE  up' = up /\ p \in up
  BY <1>4 DEF Resume
<1>5. ASSUME NEW c \in Conn,
             Add(c) \/ Ping(c) \/ Pong(c) \/ Close(c) \/ Closed(c) \/ Vanish(c)
      PROVE  UNCHANGED <<up, stall>>
  BY <1>5 DEF Add, Ping, Pong, Close, Closed, Vanish, pvars
<1>6. CASE AddPoll \/ UNCHANGED vars
  <2>1. UNCHANGED <<up, stall>>
    BY <1>6 DEF AddPoll, vars, pvars
  <2> QED BY <2>1
<1>7. CASE \E p \in Process : SetServerStats(p) \/ GetServerStats(p) \/ StatsReplied(p)
  BY <1>1, <1>2, <1>7
<1>8. CASE \E p \in Process : Crash(p) \/ Stall(p) \/ Resume(p)
  BY <1>2, <1>3, <1>4, <1>8
<1>9. CASE \E c \in Conn : Add(c) \/ Ping(c) \/ Pong(c) \/ Close(c) \/ Closed(c) \/ Vanish(c)
  BY <1>5, <1>9
<1> QED BY <1>6, <1>7, <1>8, <1>9 DEF Next

(* How late a process that stays up is after an action in the same tick. *)
LEMMA LateSteps ==
  ASSUME TypeOK, ShortStalls, [Next]_vars, ~Tick, calm > 0, NEW q \in up'
  PROVE  Late(q) <= Late(q)' \/ (due[q] > 0 /\ (GetServerStats(q) \/ Stall(q)))
<1>1. q \in up /\ q \in Process
  BY StallSteps DEF TypeOK
<1>2. Late(q) \in Nat /\ Late(q) <= MaxLate
  BY <1>1, LateBounds
<1>3. CASE stall'[q] = stall[q]
  BY <1>2, <1>3 DEF Late
<1>4. CASE stall'[q] = Running
  BY <1>2, <1>4 DEF Late
<1>5. CASE Blocks(q) /\ (GetServerStats(q) \/ Stall(q))
  <2>1. due[q] # 0 /\ due[q] \in 0..StatTTL
    BY <1>1, <1>5 DEF Blocks, Due, TypeOK
  <2> QED BY <1>5, <2>1, CalmComputed
<1>6. \/ stall'[q] = stall[q] \/ stall'[q] = Running
      \/ Blocks(q) /\ (GetServerStats(q) \/ Stall(q))
  <2>1. ASSUME NEW p \in up, Blocks(p), p # q
        PROVE  stall'[q] = stall[q]
    BY <1>1, <2>1 DEF Blocks, TypeOK
  <2>2. ASSUME NEW p \in up, Resume(p)
        PROVE  stall'[q] = stall[q] \/ stall'[q] = Running
    BY <1>1, <2>2 DEF Resume, TypeOK
  <2>3. ASSUME NEW p \in up, p \notin up', stall' = [stall EXCEPT ![p] = Running]
        PROVE  stall'[q] = stall[q]
    BY <1>1, <2>3 DEF TypeOK
  <2> QED BY <2>1, <2>2, <2>3, StallSteps
<1> QED BY <1>3, <1>4, <1>5, <1>6

LEMMA ShortStallsStep ==
  ASSUME TypeOK, TypeOK', ShortStalls, [Next]_vars
  PROVE  ShortStalls'
<1> SUFFICES ASSUME calm' > 0, NEW q \in up'
             PROVE  stall'[q] <= MaxLate
  BY DEF ShortStalls
<1>1. CASE Tick
  <2>1. q \in up /\ q \in Process /\ ~(stall[q] >= MaxLate)
    BY <1>1 DEF Tick, TypeOK
  <2>2. stall[q] \in Int /\ (stall'[q] = Running \/ stall'[q] = stall[q] + 1)
    BY <1>1, <2>1, Computed DEF Tick, TypeOK
  <2> QED BY <2>1, <2>2, CalmComputed
<1>2. CASE ~Tick
  <2>1. calm > 0 /\ q \in up /\ q \in Process
    BY <1>2, CalmSteps, StallSteps DEF TypeOK
  <2>2. stall[q] <= MaxLate /\ stall[q] \in Int
    BY <2>1, Computed DEF ShortStalls, TypeOK
  <2>3. stall'[q] = stall[q] \/ stall'[q] = Running \/ stall'[q] = 0
    <3>1. ASSUME NEW p \in up, Blocks(p)
          PROVE  stall'[q] = stall[q] \/ stall'[q] = 0
      BY <2>1, <3>1 DEF Blocks, TypeOK
    <3>2. ASSUME NEW p \in up, Resume(p)
          PROVE  stall'[q] = stall[q] \/ stall'[q] = Running
      BY <2>1, <3>2 DEF Resume, TypeOK
    <3>3. ASSUME NEW p \in up, p \notin up', stall' = [stall EXCEPT ![p] = Running]
          PROVE  stall'[q] = stall[q]
      BY <2>1, <3>3 DEF TypeOK
    <3> QED BY <1>2, <3>1, <3>2, <3>3, StallSteps
  <2> QED BY <2>2, <2>3, CalmComputed
<1> QED BY <1>1, <1>2

-----------------------------------------------------------------------------
(* Reports and replies. *)
LEMMA SinceBounds ==
  ASSUME TypeOK, NEW q \in Process
  PROVE  /\ SinceReport(q) \in Nat
         /\ ShortStalls /\ q \in up /\ calm > 0 => SinceReport(q) <= StatTTL + MaxLate
<1>1. due[q] \in 0..StatTTL
  BY DEF TypeOK
<1> QED BY <1>1, LateBounds, CalmComputed DEF SinceReport

LEMMA SinceNext ==
  ASSUME TypeOK', NEW q \in Process
  PROVE  Late(q)' \in Nat /\ SinceReport(q)' \in Nat
<1>1. due'[q] \in 0..StatTTL /\ (stall'[q] = Running \/ stall'[q] \in 0..MaxStall)
  BY DEF TypeOK
<1>2. Late(q)' \in Nat
  BY <1>1, CalmComputed, Computed DEF Late
<1> QED BY <1>1, <1>2, CalmComputed DEF SinceReport

LEMMA SinceSteps ==
  ASSUME TypeOK, TypeOK', ShortStalls, [Next]_vars, ~Tick, calm > 0, NEW q \in up',
         due'[q] = due[q]
  PROVE  SinceReport(q) <= SinceReport(q)'
<1>1. q \in up /\ q \in Process /\ due[q] \in 0..StatTTL
  BY StallSteps DEF TypeOK
<1>2. Late(q) \in Nat /\ Late(q)' \in Nat
  BY <1>1, LateBounds, SinceNext
<1>3. CASE due[q] = 0
  BY <1>1, <1>2, <1>3, LateSteps, CalmComputed DEF SinceReport
<1>4. CASE due[q] # 0
  BY <1>1, <1>4, CalmComputed DEF SinceReport
<1> QED BY <1>3, <1>4

LEMMA SinceTick ==
  ASSUME TypeOK, Tick, NEW q \in up
  PROVE  SinceReport(q) + 1 <= SinceReport(q)'
<1>1. q \in Process /\ due[q] \in 0..StatTTL
  BY DEF TypeOK
<1>2. due'[q] = IF due[q] = 0 THEN 0 ELSE due[q] - 1
  BY <1>1 DEF Tick, Down
<1>3. stall'[q] = IF stall[q] = Running THEN Running ELSE stall[q] + 1
  BY <1>1 DEF Tick
<1>4. stall[q] = Running \/ stall[q] \in Nat
  BY <1>1, Computed DEF TypeOK
<1>5. Late(q)' \in Nat
  BY <1>3, <1>4, CalmComputed DEF Late
<1>6. CASE due[q] = 0
  <2>1. stall[q] # Running
    BY <1>6 DEF Tick, Runs, Busy, Due
  <2>2. Late(q)' = Late(q) + 1 /\ Late(q) \in Nat
    BY <1>3, <1>4, <2>1 DEF Late
  <2> QED BY <1>2, <1>6, <2>2, CalmComputed DEF SinceReport
<1>7. CASE due[q] # 0
  BY <1>1, <1>2, <1>5, <1>7, CalmComputed DEF SinceReport
<1> QED BY <1>6, <1>7

(* The clock of the calm goes with the ticks, up to its bound. *)
LEMMA CalmTick ==
  ASSUME TypeOK, Tick
  PROVE  calm \in Nat /\ calm' \in Nat /\ calm' <= calm + 1
BY CalmComputed DEF TypeOK, Tick, Min2

LEMMA OlderAge ==
  ASSUME NEW age \in {None} \cup 0..OldAge + 1
  PROVE  Older(age) <= age + 1 /\ (age # None => Older(age) # None)
BY CalmComputed DEF Older, Min2

LEMMA ReportsTick ==
  ASSUME TypeOK, Reports, Tick
  PROVE  Reports'
<1> SUFFICES ASSUME NEW q \in up
             PROVE  /\ calm' > SinceReport(q)' => entry'[q] <= SinceReport(q)'
                    /\ calm' > SinceReport(q)' + StatTTL + 2 * MaxLate => entry'[q] # None
  BY DEF Reports, Tick
<1>1. q \in Process /\ entry[q] \in {None} \cup 0..OldAge + 1 /\ entry'[q] = Older(entry[q])
  BY DEF Tick, TypeOK
<1>2. entry'[q] <= entry[q] + 1 /\ (entry[q] # None => entry'[q] # None)
  BY <1>1, OlderAge
<1>3. SinceReport(q) \in Nat /\ SinceReport(q)' \in Nat
  BY <1>1, TickTypes, SinceBounds, SinceNext
<1>4. /\ calm > SinceReport(q) => entry[q] <= SinceReport(q)
      /\ calm > SinceReport(q) + StatTTL + 2 * MaxLate => entry[q] # None
  BY DEF Reports
<1>5. entry'[q] \in Int /\ entry[q] \in Int
  BY <1>1, CalmComputed DEF Older, Min2
<1> QED BY <1>2, <1>3, <1>4, <1>5, SinceTick, CalmTick, CalmComputed

LEMMA ReportsStep ==
  ASSUME TypeOK, TypeOK', ShortStalls, Reports, Replies, [Next]_vars
  PROVE  Reports'
<1>1. CASE Tick
  BY <1>1, ReportsTick
<1> SUFFICES ASSUME ~Tick, calm' > 0, NEW q \in up'
             PROVE  /\ calm' > SinceReport(q)' => entry'[q] <= SinceReport(q)'
                    /\ calm' > SinceReport(q)' + StatTTL + 2 * MaxLate => entry'[q] # None
  <2>1. ASSUME NEW r \in up', ~(calm' > 0)
        PROVE  ~(calm' > SinceReport(r)') /\ ~(calm' > SinceReport(r)' + StatTTL + 2 * MaxLate)
    <3>1. SinceReport(r)' \in Nat /\ calm' = 0
      BY <2>1, SinceNext DEF TypeOK
    <3> QED BY <3>1, CalmComputed
  <2> QED BY <1>1, <2>1 DEF Reports
<1>2. q \in up /\ q \in Process /\ calm' = calm /\ calm > 0 /\ calm \in Nat
  <2>1. up' \subseteq up
    BY StallSteps
  <2>2. calm' = calm
    BY CalmSteps
  <2> QED BY <2>1, <2>2 DEF TypeOK
<1>3. CASE SetServerStats(q)
  <2>1. due'[q] = StatTTL /\ entry'[q] = 0
    BY <1>2, <1>3 DEF SetServerStats, Fails, TypeOK
  <2>2. SinceReport(q)' = 0
    BY <2>1, CalmComputed DEF SinceReport
  <2> QED BY <2>1, <2>2
<1>4. CASE due'[q] = due[q]
  <2>1. SinceReport(q) <= SinceReport(q)' /\ SinceReport(q) \in Nat
    BY <1>2, <1>4, SinceSteps, SinceBounds
  <2>2. SinceReport(q)' \in Nat
    BY <1>2, SinceNext
  <2>3. /\ calm > SinceReport(q) => entry[q] <= SinceReport(q)
        /\ calm > SinceReport(q) + StatTTL + 2 * MaxLate => entry[q] # None
    BY <1>2 DEF Reports
  <2>4. entry[q] \in Int
    BY <1>2, CalmComputed DEF TypeOK
  <2>5. CASE entry'[q] = entry[q]
    BY <1>2, <2>1, <2>2, <2>3, <2>4, <2>5, CalmComputed
  <2>6. ASSUME NEW p \in Process, StatsReplied(p), entry'[q] # entry[q]
        PROVE  entry'[q] = None /\ ~(calm > StatTTL + 2 * MaxLate)
    <3>1. p \in up /\ reply[p] # <<>> /\ Late(p) = MaxLate
      BY <2>6 DEF StatsReplied, Runs, Late
    <3>2. entry'[q] = None /\ reply[p][q] > OldAge
      BY <1>2, <2>6 DEF StatsReplied, OldKeys
    <3>3. calm > StatTTL + 2 * MaxLate => reply[p][q] <= StatTTL + 2 * MaxLate
      BY <1>2, <3>1, CalmComputed DEF Replies
    <3>4. reply[p][q] \in Int
      BY <1>2, <3>1, CalmComputed DEF TypeOK
    <3> QED BY <3>2, <3>3, <3>4, CalmComputed
  <2>7. entry'[q] = entry[q] \/ \E p \in Process : StatsReplied(p)
    <3>1. ASSUME NEW p \in Process, SetServerStats(p)
          PROVE  entry'[q] = entry[q]
      <4>1. p # q
        BY <1>2, <1>4, <3>1, CalmComputed DEF SetServerStats, TypeOK
      <4> QED BY <1>2, <3>1, <4>1 DEF SetServerStats, TypeOK
    <3>2. ASSUME NEW p \in Process, GetServerStats(p) \/ Crash(p) \/ Stall(p) \/ Resume(p)
          PROVE  entry'[q] = entry[q]
      BY <3>2 DEF GetServerStats, Crash, Stall, Resume, tvars
    <3>3. ASSUME NEW c \in Conn,
                 Add(c) \/ Ping(c) \/ Pong(c) \/ Close(c) \/ Closed(c) \/ Vanish(c)
          PROVE  entry'[q] = entry[q]
      BY <3>3 DEF Add, Ping, Pong, Close, Closed, Vanish, tvars
    <3>4. CASE AddPoll \/ UNCHANGED vars
      BY <3>4 DEF AddPoll, vars, tvars
    <3> QED BY <3>1, <3>2, <3>3, <3>4 DEF Next
  <2>8. CASE entry'[q] # entry[q]
    BY <1>2, <2>2, <2>6, <2>7, <2>8, CalmComputed
  <2> QED BY <2>5, <2>8
<1>5. SetServerStats(q) \/ due'[q] = due[q]
  <2>1. ASSUME NEW p \in Process, SetServerStats(p)
        PROVE  SetServerStats(q) \/ due'[q] = due[q]
    BY <1>2, <2>1 DEF SetServerStats, TypeOK
  <2>2. ASSUME NEW p \in Process, Crash(p)
        PROVE  due'[q] = due[q]
    BY <1>2, <2>2 DEF Crash, TypeOK
  <2>3. ASSUME NEW p \in Process, GetServerStats(p) \/ StatsReplied(p) \/ Stall(p) \/ Resume(p)
        PROVE  due'[q] = due[q]
    BY <2>3 DEF GetServerStats, StatsReplied, Stall, Resume, tvars
  <2>4. ASSUME NEW c \in Conn,
               Add(c) \/ Ping(c) \/ Pong(c) \/ Close(c) \/ Closed(c) \/ Vanish(c)
        PROVE  due'[q] = due[q]
    BY <2>4 DEF Add, Ping, Pong, Close, Closed, Vanish, tvars
  <2>5. CASE AddPoll \/ UNCHANGED vars
    BY <2>5 DEF AddPoll, vars, tvars
  <2> QED BY <2>1, <2>2, <2>3, <2>4, <2>5 DEF Next
<1> QED BY <1>3, <1>4, <1>5

(* An answer that is awaited, or not yet handled. *)
LEMMA RepliesTick ==
  ASSUME TypeOK, Replies, Tick
  PROVE  Replies'
<1> SUFFICES ASSUME NEW p \in up, NEW q \in up, reply'[p] # <<>>
             PROVE  /\ calm' > StatTTL + MaxLate + Late(p)' =>
                         reply'[p][q] <= StatTTL + MaxLate + Late(p)'
                    /\ calm' > 2 * StatTTL + 3 * MaxLate + Late(p)' => reply'[p][q] # None
  BY DEF Replies, Tick
<1>1. p \in Process /\ q \in Process
  BY DEF TypeOK
<1>2. reply[p] # <<>> /\ reply'[p][q] = Older(reply[p][q])
  BY <1>1 DEF Tick
<1>3. reply[p][q] \in {None} \cup 0..OldAge + 1
  BY <1>1, <1>2 DEF TypeOK
<1>4. reply'[p][q] <= reply[p][q] + 1 /\ (reply[p][q] # None => reply'[p][q] # None)
  BY <1>2, <1>3, OlderAge
<1>5. Late(p)' = Late(p) + 1 /\ Late(p) \in Nat
  <2>1. stall[p] # Running
    BY <1>2 DEF Tick, Runs, Busy
  <2>2. stall'[p] = stall[p] + 1 /\ stall[p] \in Nat
    BY <1>1, <2>1, Computed DEF Tick, TypeOK
  <2> QED BY <2>1, <2>2 DEF Late
<1>6. /\ calm > StatTTL + MaxLate + Late(p) => reply[p][q] <= StatTTL + MaxLate + Late(p)
      /\ calm > 2 * StatTTL + 3 * MaxLate + Late(p) => reply[p][q] # None
  BY <1>2 DEF Replies
<1>7. reply[p][q] \in Int /\ reply'[p][q] \in Int
  BY <1>2, <1>3, CalmComputed DEF Older, Min2
<1> QED BY <1>4, <1>5, <1>6, <1>7, CalmTick, CalmComputed

LEMMA RepliesStep ==
  ASSUME TypeOK, TypeOK', ShortStalls, Reports, Replies, [Next]_vars
  PROVE  Replies'
<1>1. CASE Tick
  BY <1>1, RepliesTick
<1> SUFFICES ASSUME ~Tick, NEW p \in up', NEW q \in up', reply'[p] # <<>>, calm' > 0
             PROVE  /\ calm' > StatTTL + MaxLate + Late(p)' =>
                         reply'[p][q] <= StatTTL + MaxLate + Late(p)'
                    /\ calm' > 2 * StatTTL + 3 * MaxLate + Late(p)' => reply'[p][q] # None
  <2>1. ASSUME NEW r \in up', ~(calm' > 0)
        PROVE  /\ ~(calm' > StatTTL + MaxLate + Late(r)')
               /\ ~(calm' > 2 * StatTTL + 3 * MaxLate + Late(r)')
    <3>1. Late(r)' \in Nat /\ calm' = 0
      BY <2>1, SinceNext DEF TypeOK
    <3> QED BY <3>1, CalmComputed
  <2> QED BY <1>1, <2>1 DEF Replies
<1>2. p \in up /\ q \in up /\ p \in Process /\ q \in Process /\ calm' = calm /\ calm \in Nat
  <2>1. up' \subseteq up
    BY StallSteps
  <2>2. calm' = calm
    BY CalmSteps
  <2> QED BY <2>1, <2>2 DEF TypeOK
<1>3. Late(p) \in Nat /\ Late(p)' \in Nat
  BY <1>2, LateBounds, SinceNext
<1>4. CASE GetServerStats(p)
  <2>1. reply'[p] = entry
    BY <1>2, <1>4 DEF GetServerStats, TypeOK
  <2>2. SinceReport(q) \in Nat /\ SinceReport(q) <= StatTTL + MaxLate
    BY <1>2, SinceBounds
  <2>3. /\ calm > SinceReport(q) => entry[q] <= SinceReport(q)
        /\ calm > SinceReport(q) + StatTTL + 2 * MaxLate => entry[q] # None
    BY <1>2 DEF Reports
  <2>4. entry[q] \in Int
    BY <1>2, CalmComputed DEF TypeOK
  <2> QED BY <1>2, <1>3, <2>1, <2>2, <2>3, <2>4, CalmComputed
<1>5. CASE reply'[p] = reply[p] /\ Late(p) <= Late(p)'
  <2>1. /\ calm > StatTTL + MaxLate + Late(p) => reply[p][q] <= StatTTL + MaxLate + Late(p)
        /\ calm > 2 * StatTTL + 3 * MaxLate + Late(p) => reply[p][q] # None
    BY <1>2, <1>5 DEF Replies
  <2>2. reply[p][q] \in Int
    BY <1>2, <1>5, CalmComputed DEF TypeOK
  <2> QED BY <1>2, <1>3, <1>5, <2>1, <2>2, CalmComputed
<1>6. GetServerStats(p) \/ reply'[p] = reply[p]
  <2>1. ASSUME NEW r \in Process, GetServerStats(r)
        PROVE  r # p => reply'[p] = reply[p]
    BY <1>2, <2>1 DEF GetServerStats, TypeOK
  <2>2. ASSUME NEW r \in Process, StatsReplied(r) \/ Crash(r)
        PROVE  reply'[p] = reply[p]
    <3>1. reply' = [reply EXCEPT ![r] = <<>>]
      BY <2>2 DEF StatsReplied, Crash
    <3> QED BY <1>2, <3>1 DEF TypeOK
  <2>3. ASSUME NEW r \in Process, SetServerStats(r) \/ Stall(r) \/ Resume(r)
        PROVE  reply'[p] = reply[p]
    BY <2>3 DEF SetServerStats, Stall, Resume, tvars
  <2>4. ASSUME NEW c \in Conn,
               Add(c) \/ Ping(c) \/ Pong(c) \/ Close(c) \/ Closed(c) \/ Vanish(c)
        PROVE  reply'[p] = reply[p]
    BY <2>4 DEF Add, Ping, Pong, Close, Closed, Vanish, tvars
  <2>5. CASE AddPoll \/ UNCHANGED vars
    BY <2>5 DEF AddPoll, vars, tvars
  <2> QED BY <2>1, <2>2, <2>3, <2>4, <2>5 DEF Next
<1>7. Late(p) <= Late(p)' \/ GetServerStats(p)
  <2>1. ~Stall(p)
    BY DEF Stall, Busy, tvars
  <2> QED BY <1>2, <2>1, LateSteps
<1> QED BY <1>4, <1>5, <1>6, <1>7
-----------------------------------------------------------------------------
(* Presence. *)
LEMMA OnlineBounds ==
  ASSUME TypeOK, NEW c \in Conn
  PROVE  /\ SinceOnline(c) \in Nat
         /\ ShortStalls /\ Home[c] \in up /\ calm > 0 => SinceOnline(c) <= OnlineCalm
<1>1. Home[c] \in Process
  BY Computed
<1>2. /\ Late(Home[c]) \in Nat
      /\ ShortStalls /\ Home[c] \in up /\ calm > 0 => Late(Home[c]) <= MaxLate
  BY <1>1, LateBounds
<1>3. ping[c] \in 0..PingInterval /\ (pong[c] = None \/ pong[c] \in 0..Rtt)
  BY DEF TypeOK
<1> QED BY <1>2, <1>3, CalmComputed DEF SinceOnline

LEMMA OnlineNext ==
  ASSUME TypeOK', NEW c \in Conn
  PROVE  SinceOnline(c)' \in Nat /\ online' \in Nat /\ calm' \in Nat
<1>1. Home[c] \in Process
  BY Computed
<1>2. Late(Home[c])' \in Nat
  BY <1>1, SinceNext
<1>3. ping'[c] \in 0..PingInterval /\ (pong'[c] = None \/ pong'[c] \in 0..Rtt)
  BY DEF TypeOK
<1>4. SinceOnline(c)' \in Nat
  BY <1>2, <1>3, CalmComputed DEF SinceOnline
<1> QED BY <1>4, CalmComputed DEF TypeOK

LEMMA PresenceTick ==
  ASSUME TypeOK, TypeOK', Homes, Presence, Tick
  PROVE  Presence'
<1>1. \A c \in Conn : pong'[c] # None => ~active'[c]
  BY DEF Presence, Tick
<1> SUFFICES ASSUME NEW c \in Conn, state[c] = "open", peer[c], calm' > SinceOnline(c)'
             PROVE  online' + SinceOnline(c)' >= KeyTTL
  BY <1>1 DEF Presence, Tick
<1>2. Home[c] \in up /\ Home[c] \in Process
  BY DEF Homes, TypeOK
<1>3. /\ ping[c] \in 0..PingInterval /\ (pong[c] = None \/ pong[c] \in 0..Rtt)
      /\ ping'[c] = Down(ping[c])
      /\ pong'[c] = IF pong[c] = None THEN None ELSE Min2(pong[c] + 1, Rtt)
  BY DEF TypeOK, Tick
<1>4. Late(Home[c]) \in Nat /\ Late(Home[c])' \in Nat
  BY <1>2, LateBounds, SinceNext
<1>5. ASSUME ping[c] = 0 \/ pong[c] = Rtt
      PROVE  Late(Home[c])' = Late(Home[c]) + 1
  <2>1. stall[Home[c]] # Running
    BY <1>2, <1>5 DEF Tick, Runs, Busy, Due
  <2>2. stall'[Home[c]] = stall[Home[c]] + 1 /\ stall[Home[c]] \in Nat
    BY <1>2, <2>1, Computed DEF Tick, TypeOK
  <2> QED BY <2>1, <2>2 DEF Late
<1>6. SinceOnline(c) + 1 <= SinceOnline(c)'
  <2>1. CASE pong[c] = None /\ ping[c] = 0
    BY <1>3, <1>4, <1>5, <2>1, CalmComputed DEF SinceOnline, Down
  <2>2. CASE pong[c] = None /\ ping[c] # 0
    BY <1>3, <1>4, <2>2, CalmComputed DEF SinceOnline, Down
  <2>3. CASE pong[c] # None /\ pong[c] = Rtt
    <3>1. pong'[c] = Rtt
      BY <1>3, <2>3, CalmComputed DEF Min2
    <3> QED BY <1>4, <1>5, <2>3, <3>1, CalmComputed DEF SinceOnline
  <2>4. CASE pong[c] # None /\ pong[c] # Rtt
    <3>1. pong'[c] = pong[c] + 1 /\ pong[c] \in Nat
      BY <1>3, <2>4, CalmComputed DEF Min2
    <3> QED BY <1>4, <2>4, <3>1, CalmComputed DEF SinceOnline
  <2> QED BY <2>1, <2>2, <2>3, <2>4
<1>7. SinceOnline(c) \in Nat /\ SinceOnline(c)' \in Nat /\ online \in Nat /\ online' \in Nat
  <2>1. online \in 0..KeyTTL
    BY DEF TypeOK
  <2> QED BY <2>1, OnlineBounds, OnlineNext, CalmComputed
<1>8. online' >= online - 1
  BY <1>7 DEF Tick, Down
<1>9. calm > SinceOnline(c)
  BY <1>6, <1>7, CalmTick
<1>10. online + SinceOnline(c) >= KeyTTL
  BY <1>9 DEF Presence
<1> QED BY <1>6, <1>7, <1>8, <1>10, CalmComputed

(* A connection on which nothing happens but that its process may resume. *)
LEMMA PresenceKept ==
  ASSUME TypeOK, TypeOK', ShortStalls, Homes, Presence, [Next]_vars, ~Tick,
         NEW c \in Conn, state[c] = "open", peer[c], Home[c] \in up',
         ping'[c] = ping[c], pong'[c] = pong[c],
         online' = online \/ online' = KeyTTL, calm' > SinceOnline(c)'
  PROVE  online' + SinceOnline(c)' >= KeyTTL
<1>1. Home[c] \in Process /\ Home[c] \in up
  BY DEF Homes, TypeOK
<1>2. Late(Home[c]) \in Nat /\ Late(Home[c])' \in Nat
  BY <1>1, LateBounds, SinceNext
<1>3. /\ SinceOnline(c) \in Nat /\ SinceOnline(c)' \in Nat /\ online \in Nat /\ online' \in Nat
      /\ calm' \in Nat
  <2>1. online \in 0..KeyTTL
    BY DEF TypeOK
  <2> QED BY <2>1, OnlineBounds, OnlineNext, CalmComputed
<1>4. calm' = calm /\ calm > 0
  BY <1>3, CalmSteps
<1>5. SinceOnline(c) <= SinceOnline(c)'
  <2>1. Late(Home[c]) <= Late(Home[c])' \/ (ping[c] # 0 /\ pong[c] # Rtt)
    <3>1. ASSUME Blocks(Home[c])
          PROVE  ping[c] # 0 /\ pong[c] # Rtt
      BY <3>1 DEF Blocks, Due
    <3>2. GetServerStats(Home[c]) \/ Stall(Home[c]) =>
            Blocks(Home[c]) \/ stall' = stall
      BY DEF GetServerStats, Stall
    <3>3. stall' = stall => Late(Home[c]) <= Late(Home[c])'
      BY <1>2 DEF Late
    <3> QED BY <1>4, <3>1, <3>2, <3>3, LateSteps
  <2>2. ping[c] \in 0..PingInterval /\ (pong[c] = None \/ pong[c] \in 0..Rtt)
    BY DEF TypeOK
  <2> QED BY <1>2, <2>1, <2>2, CalmComputed DEF SinceOnline
<1>6. online + SinceOnline(c) >= KeyTTL
  BY <1>3, <1>4, <1>5 DEF Presence
<1> QED BY <1>3, <1>5, <1>6, CalmComputed

LEMMA HomesStep ==
  ASSUME TypeOK, Homes, [Next]_vars
  PROVE  Homes'
<1>1. ASSUME NEW p \in Process, Crash(p)
      PROVE  Homes'
  <2>1. up' = up \ {p} /\ \A c \in Conn : state'[c] = IF Home[c] = p THEN "none" ELSE state[c]
    BY <1>1 DEF Crash
  <2> QED BY <2>1 DEF Homes
<1>2. ASSUME NEW p \in Process,
             SetServerStats(p) \/ GetServerStats(p) \/ StatsReplied(p) \/ Stall(p) \/ Resume(p)
      PROVE  Homes'
  <2>1. UNCHANGED <<up, state>>
    BY <1>2 DEF SetServerStats, GetServerStats, StatsReplied, Stall, Resume, pvars, cvars
  <2> QED BY <2>1 DEF Homes
<1>3. ASSUME NEW c \in Conn,
             Add(c) \/ Ping(c) \/ Pong(c) \/ Close(c) \/ Closed(c) \/ Vanish(c)
      PROVE  Homes'
  <2>1. up' = up
    BY <1>3 DEF Add, Ping, Pong, Close, Closed, Vanish, pvars
  <2>2. Vanish(c) \/ Home[c] \in up
    BY <1>3 DEF Add, Ping, Pong, Close, Closed, Runs
  <2>3. Vanish(c) => state' = state
    BY DEF Vanish
  <2>4. \A d \in Conn \ {c} : state'[d] = state[d]
    BY <1>3 DEF Add, Ping, Pong, Close, Closed, Vanish, Gone, TypeOK
  <2> QED BY <2>1, <2>2, <2>3, <2>4 DEF Homes
<1>4. CASE AddPoll \/ Tick \/ UNCHANGED vars
  <2>1. UNCHANGED <<up, state>>
    BY <1>4 DEF AddPoll, Tick, vars, pvars, cvars
  <2> QED BY <2>1 DEF Homes
<1> QED BY <1>1, <1>2, <1>3, <1>4 DEF Next

LEMMA PresenceStep ==
  ASSUME TypeOK, TypeOK', ShortStalls, PongsAreRecent, Homes, Homes', Presence, [Next]_vars
  PROVE  Presence'
<1>1. CASE Tick
  BY <1>1, PresenceTick
<1>2. ASSUME NEW c \in Conn, ~Tick, pong'[c] = pong[c], active'[c] = active[c],
             pong'[c] # None
      PROVE  ~active'[c]
  BY <1>2 DEF Presence
<1>3. ASSUME NEW c \in Conn, ~Tick, state'[c] = "open", peer'[c], calm' > SinceOnline(c)',
             state[c] = "open", peer[c], ping'[c] = ping[c], pong'[c] = pong[c],
             online' = online \/ online' = KeyTTL
      PROVE  online' + SinceOnline(c)' >= KeyTTL
  <2>1. Home[c] \in up'
    BY <1>3 DEF Homes
  <2> QED BY <1>3, <2>1, PresenceKept
<1>4. ASSUME NEW c \in Conn, SetOnline, calm' > SinceOnline(c)'
      PROVE  online' + SinceOnline(c)' >= KeyTTL
  <2>1. SinceOnline(c)' \in Nat
    BY OnlineNext
  <2>2. online' = KeyTTL
    BY <1>4, <2>1 DEF SetOnline, Fails
  <2> QED BY <2>1, <2>2, CalmComputed
<1>5. ASSUME NEW c \in Conn, Ping(c), active[c], calm' > SinceOnline(c)',
             state'[c] = "open", peer'[c]
      PROVE  online' + SinceOnline(c)' >= KeyTTL
  <2>1. /\ pong[c] = None /\ ping[c] = 0 /\ stall[Home[c]] = Running
        /\ calm' = calm /\ online' = online
    BY <1>5 DEF Ping, Presence, Runs
  <2>2. /\ state[c] = "open" /\ peer[c] /\ pong'[c] = 0
    BY <1>5 DEF Ping, TypeOK
  <2>3. SinceOnline(c) = PingInterval + MaxLate
    BY <2>1, CalmComputed DEF SinceOnline, Late
  <2>4. SinceOnline(c)' = PingInterval + MaxLate
    BY <2>2, CalmComputed DEF SinceOnline
  <2> QED BY <1>5, <2>1, <2>2, <2>3, <2>4 DEF Presence
<1>6. ASSUME NEW c \in Conn,
             Add(c) \/ Ping(c) \/ Pong(c) \/ Close(c) \/ Closed(c) \/ Vanish(c), ~Tick
      PROVE  Presence'
  <2>1. ASSUME NEW d \in Conn, d # c
        PROVE  /\ state'[d] = state[d] /\ peer'[d] = peer[d] /\ active'[d] = active[d]
               /\ ping'[d] = ping[d] /\ pong'[d] = pong[d]
    BY <1>6, <2>1 DEF Add, Ping, Pong, Close, Closed, Vanish, Gone, TypeOK
  <2>2. online' = online \/ online' = KeyTTL
    BY <1>6 DEF Add, Ping, Pong, Close, Closed, Vanish, SetOnline
  <2>3. pong'[c] # None => ~active'[c]
    <3>1. CASE Add(c)
      <4>1. pong'[c] = None
        BY <3>1 DEF Add, PongsAreRecent
      <4> QED BY <4>1
    <3>2. CASE Ping(c)
      <4>1. active'[c] = FALSE
        BY <3>2 DEF Ping, Gone, TypeOK
      <4> QED BY <4>1
    <3>3. CASE Pong(c)
      BY <3>3 DEF Pong, TypeOK
    <3>4. CASE Close(c) \/ Closed(c)
      <4>1. active'[c] = FALSE
        BY <3>4 DEF Close, Closed, Gone, TypeOK
      <4> QED BY <4>1
    <3>5. CASE Vanish(c)
      BY <3>5 DEF Vanish, Presence, TypeOK
    <3> QED BY <1>6, <3>1, <3>2, <3>3, <3>4, <3>5
  <2>4. ASSUME state'[c] = "open", peer'[c], calm' > SinceOnline(c)'
        PROVE  online' + SinceOnline(c)' >= KeyTTL
    <3>1. CASE Add(c) \/ Pong(c)
      BY <1>4, <2>4, <3>1 DEF Add, Pong
    <3>2. CASE Ping(c)
      <4>1. active[c]
        BY <2>4, <3>2 DEF Ping, Gone, TypeOK
      <4> QED BY <1>5, <2>4, <3>2, <4>1
    <3>3. ~Close(c) /\ ~Closed(c) /\ ~Vanish(c)
      BY <2>4 DEF Close, Closed, Vanish, Gone, TypeOK
    <3> QED BY <1>6, <3>1, <3>2, <3>3
  <2>5. ASSUME NEW d \in Conn, d # c, state'[d] = "open", peer'[d], calm' > SinceOnline(d)'
        PROVE  online' + SinceOnline(d)' >= KeyTTL
    BY <1>3, <1>6, <2>1, <2>2, <2>5
  <2> QED BY <1>2, <1>6, <2>1, <2>3, <2>4, <2>5 DEF Presence
<1>7. ASSUME NEW p \in Process, Crash(p), ~Tick
      PROVE  Presence'
  <2>1. /\ online' = online
        /\ \A d \in Conn : /\ state'[d] = IF Home[d] = p THEN "none" ELSE state[d]
                           /\ pong'[d] = IF Home[d] = p THEN None ELSE pong[d]
                           /\ ping'[d] = IF Home[d] = p THEN 0 ELSE ping[d]
                           /\ active'[d] = (Home[d] # p /\ active[d])
                           /\ peer'[d] = (Home[d] # p /\ peer[d])
    BY <1>7 DEF Crash
  <2> QED BY <1>2, <1>3, <1>7, <2>1 DEF Presence
<1>8. ASSUME ~Tick, UNCHANGED cvars, online' = online \/ online' = KeyTTL
      PROVE  Presence'
  <2>1. UNCHANGED <<state, peer, active, ping, pong>>
    BY <1>8 DEF cvars
  <2> QED BY <1>2, <1>3, <1>8, <2>1 DEF Presence
<1>9. ASSUME NEW p \in Process,
             SetServerStats(p) \/ GetServerStats(p) \/ StatsReplied(p) \/ Stall(p) \/ Resume(p),
             ~Tick
      PROVE  Presence'
  BY <1>8, <1>9 DEF SetServerStats, GetServerStats, StatsReplied, Stall, Resume
<1>10. CASE (AddPoll \/ UNCHANGED vars) /\ ~Tick
  BY <1>8, <1>10 DEF AddPoll, SetOnline, vars
<1> QED BY <1>1, <1>6, <1>7, <1>9, <1>10 DEF Next

-----------------------------------------------------------------------------
LEMMA ClusterInvariant == Spec => []ClusterInv
<1>1. ClusterInv /\ [Next]_vars => ClusterInv'
  BY NextTypes, EntriesStep, PongsStep, OnlineStep, ShortStallsStep, ReportsStep, RepliesStep,
     HomesStep, PresenceStep
     DEF ClusterInv
<1> QED BY <1>1, InitInv, PTL DEF Spec

(***************************************************************************)
(* Every variable keeps its type, and nothing is kept for a process that   *)
(* crashed.                                                                *)
(***************************************************************************)
THEOREM ClusterTypes == Spec => []TypeOK
<1>1. ClusterInv => TypeOK
  BY DEF ClusterInv
<1> QED BY <1>1, ClusterInvariant, PTL

(***************************************************************************)
(* No answer of getServerStats lists a process that has been dead for      *)
(* longer than an entry counts, however late the answer is handled and     *)
(* whoever deletes entries.                                                *)
(***************************************************************************)
THEOREM DeadProcessesAreForgotten == Spec => []NoGhostProcess
<1>1. ClusterInv => NoGhostProcess
  <2> SUFFICES ASSUME ClusterInv, NEW p \in Process, reply[p] # <<>>,
                      NEW q \in Listed(reply[p])
               PROVE  q \in up \/ dead[q] <= OldAge
    BY DEF NoGhostProcess
  <2>1. q \in Process /\ reply[p][q] # None /\ reply[p][q] <= OldAge
    BY DEF Listed
  <2>2. dead[q] <= reply[p][q]
    BY <2>1 DEF ClusterInv, EntriesAreOlder
  <2>3. reply[p] \in [Process -> {None} \cup 0..OldAge + 1] /\ dead[q] \in 0..OldAge + 1
    BY <2>1 DEF ClusterInv, TypeOK
  <2> QED BY <2>1, <2>2, <2>3, Computed
<1> QED BY <1>1, ClusterInvariant, PTL

(***************************************************************************)
(* When a channel was last set online, a client of it had been there not   *)
(* longer ago than a pong takes and a process is blocked: a channel is     *)
(* not online for longer than the key's TTL and that delay after its last  *)
(* client, whatever crashes or is blocked.                                 *)
(***************************************************************************)
THEOREM PresenceRunsOut == Spec => []OnlineNeedsRecentClient
<1>1. ClusterInv => OnlineNeedsRecentClient
  BY DEF ClusterInv
<1> QED BY <1>1, ClusterInvariant, PTL

(***************************************************************************)
(* Every answer of getServerStats lists every live process, for any number *)
(* of processes that report, read and delete old entries independently:    *)
(* after a process was blocked for long or a command failed, two rounds of *)
(* reports and replies are enough.                                         *)
(***************************************************************************)
THEOREM LiveProcessesAreListed == Spec => []LiveProcessListed
<1>1. ClusterInv => LiveProcessListed
  <2> SUFFICES ASSUME ClusterInv, NEW p \in Process, Runs(p), reply[p] # <<>>, calm > StatCalm,
                      NEW q \in up
               PROVE  q \in Listed(reply[p])
    BY DEF LiveProcessListed
  <2>1. p \in up /\ q \in Process /\ Late(p) = MaxLate
    BY DEF ClusterInv, TypeOK, Runs, Late
  <2>2. calm \in Nat /\ reply[p][q] \in Int
    BY <2>1, CalmComputed DEF ClusterInv, TypeOK
  <2>3. /\ calm > StatTTL + MaxLate + MaxLate => reply[p][q] <= StatTTL + MaxLate + MaxLate
        /\ calm > 2 * StatTTL + 3 * MaxLate + MaxLate => reply[p][q] # None
    BY <2>1 DEF ClusterInv, Replies
  <2>4. calm > StatTTL + MaxLate + MaxLate /\ calm > 2 * StatTTL + 3 * MaxLate + MaxLate
    BY <2>2, CalmComputed
  <2>5. reply[p][q] # None /\ reply[p][q] <= OldAge
    BY <2>2, <2>3, <2>4, CalmComputed
  <2> QED BY <2>1, <2>5 DEF Listed
<1> QED BY <1>1, ClusterInvariant, PTL

(***************************************************************************)
(* The channel of an open websocket whose client is there is online,       *)
(* whatever the other connections of the channel do, once a ping and its   *)
(* pong have followed the last long stall or failed command.               *)
(***************************************************************************)
THEOREM ConnectedIsOnline == Spec => []OnlineWhileConnected
<1>1. ClusterInv => OnlineWhileConnected
  <2> SUFFICES ASSUME ClusterInv, NEW c \in Conn, state[c] = "open", peer[c], calm > OnlineCalm
               PROVE  online > 0
    BY DEF OnlineWhileConnected, IsOnline
  <2>1. Home[c] \in up /\ calm \in Nat /\ online \in Nat
    BY CalmComputed DEF ClusterInv, Homes, TypeOK
  <2>2. SinceOnline(c) \in Nat /\ SinceOnline(c) <= OnlineCalm
    <3>1. calm > 0
      BY <2>1, CalmComputed
    <3> QED BY <2>1, <3>1, OnlineBounds DEF ClusterInv
  <2>3. online + SinceOnline(c) >= KeyTTL
    <3>1. calm > SinceOnline(c)
      BY <2>1, <2>2, CalmComputed
    <3> QED BY <3>1 DEF ClusterInv, Presence
  <2> QED BY <2>1, <2>2, <2>3, CalmComputed
<1> QED BY <1>1, ClusterInvariant, PTL
=============================================================================
