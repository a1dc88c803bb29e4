------------------------------ MODULE Cluster ------------------------------
(***************************************************************************)
(* Presence and server statistics of the cluster (lib/adapters/cluster.js, *)
(* cluster.js).  Every process writes a dated entry to the hash "stats" at *)
(* an interval, and whoever reads the hash leaves out the old entries and  *)
(* deletes them; a key with a TTL says that a channel is online, and is    *)
(* set when a connection is added and at every pong of a websocket.        *)
(*                                                                         *)
(* Time is a Tick for all: the processes share a clock.  A process that    *)
(* runs does in a tick what is due in it, in any order with the others; a  *)
(* stalled process (a blocked event loop) does nothing.  A command reaches *)
(* Redis in the tick it is sent in; as its sender could have sent it then, *)
(* it is executed where it is sent.  Only the reply of HGETALL is handled  *)
(* in a step of its own, which may come ticks later in a stalled process.  *)
(***************************************************************************)
EXTENDS Integers, Sequences, FiniteSets

CONSTANTS
  Process, Conn,      \* processes; connections, all of one channel
  Home,               \* Home[c]: the process that connection c is on
  StatTTL, StatDelta, \* statTLLMsec, statDeltaMsec
  PingInterval,       \* of a websocket: 120 s
  OnlineTTL, OnlineDelta,
  Rtt,                \* the longest time a pong takes
  MaxLate,            \* a longer stall is a disturbance
  MaxStall,           \* bound: length of a stall
  MaxStalls,          \* bound: stalls
  MaxFaults           \* bound: failed commands

(* What the defaults satisfy: 120 s and 10 s for presence, 60 s and 10 s   *)
(* for statistics, with delays of some seconds.                            *)
ASSUME ClusterAssumption ==
  /\ StatTTL \in Nat \ {0} /\ StatDelta \in Nat
  /\ PingInterval \in Nat \ {0} /\ OnlineTTL \in Nat /\ OnlineDelta \in Nat
  /\ PingInterval <= OnlineTTL
  /\ Rtt \in Nat \ {0} /\ MaxLate \in Nat /\ MaxStall \in Nat \ {0}
  /\ MaxStalls \in Nat /\ MaxFaults \in Nat
  /\ 2 * MaxLate <= StatDelta
  /\ 2 * MaxLate + Rtt < OnlineDelta
  /\ Home \in [Conn -> Process]

None == -1
Running == -1

VARIABLES
  up,      \* processes that have not crashed
  stall,   \* stall[p]: length of the present stall of p, or Running
  due,     \* due[p]: ticks to the next setServerStats of p
  reply,   \* reply[p]: the ages that HGETALL found, or <<>>
  entry,   \* entry[p]: age of p's entry in the hash "stats", or None
  state,   \* of a connection: "none", "open", "closing" (evicted)
  peer,    \* peer[c]: whether its client is there
  active,  \* connection.active
  ping,    \* ping[c]: ticks to the next ping of c
  pong,    \* pong[c]: age of the pong of c that is under way, or None
  online,  \* ticks the channel's key has to live; 0 if it is not there
  stalls, faults,
  calm,    \* history: ticks since a long stall or a failed command
  seen,    \* history: ticks since a client of the channel was there
  dead     \* history: ticks since p crashed

pvars == <<up, stall, stalls, dead>>
tvars == <<due, reply, entry>>
cvars == <<state, peer, active, ping, pong>>
vars == <<pvars, tvars, cvars, online, faults, calm, seen>>

KeyTTL == OnlineTTL + OnlineDelta
MaxSeen == KeyTTL + Rtt + MaxStall - 1

Min2(a, b) == IF a < b THEN a ELSE b
OldAge == StatTTL + StatDelta

(* How long a disturbance is felt: for two rounds of a report and a reply, *)
(* both late, as a late reply may undo the report after the disturbance;   *)
(* and until the next pong has been handled.                               *)
StatCalm == 2 * (StatTTL + 2 * MaxLate)
OnlineCalm == PingInterval + 2 * MaxLate + Rtt
MaxCalm == IF StatCalm > OnlineCalm THEN StatCalm + 1 ELSE OnlineCalm + 1

(* Processes that have been reporting for a while; no connections. *)
Init ==
  /\ up = Process
  /\ stall = [p \in Process |-> Running]
  /\ \E age \in [Process -> 0..StatTTL] :
       entry = age /\ due = [p \in Process |-> StatTTL - age[p]]
  /\ reply = [p \in Process |-> <<>>]
  /\ state = [c \in Conn |-> "none"]
  /\ peer = [c \in Conn |-> FALSE]
  /\ active = [c \in Conn |-> FALSE]
  /\ ping = [c \in Conn |-> 0]
  /\ pong = [c \in Conn |-> None]
  /\ online = 0
  /\ stalls = 0 /\ faults = 0
  /\ calm = MaxCalm
  /\ seen = MaxSeen
  /\ dead = [p \in Process |-> 0]

Runs(p) == p \in up /\ stall[p] = Running

(* What a running process has to do in this tick: what is due at a time, *)
(* and to handle the reply that has arrived.                             *)
Due(p) ==
  \/ due[p] = 0
  \/ \E c \in Conn : /\ Home[c] = p /\ state[c] # "none"
                     /\ ping[c] = 0 \/ pong[c] = Rtt

Busy(p) == Due(p) \/ reply[p] # <<>>

Blocks(p) ==
  /\ ~Due(p) /\ stalls < MaxStalls
  /\ stall' = [stall EXCEPT ![p] = 0]
  /\ stalls' = stalls + 1

-----------------------------------------------------------------------------
(* A command fails: its error is logged and nothing is tried again. *)
Fails ==
  /\ faults < MaxFaults /\ faults' = faults + 1
  /\ calm' = 0

Succeeds == UNCHANGED <<faults, calm>>

(* Server statistics. *)
SetServerStats(p) ==
  /\ Runs(p) /\ due[p] = 0
  /\ due' = [due EXCEPT ![p] = StatTTL]
  /\ \/ entry' = [entry EXCEPT ![p] = 0] /\ Succeeds
     \/ UNCHANGED entry /\ Fails
  /\ UNCHANGED <<pvars, cvars, reply, online, seen>>

(* The process may be blocked before the reply arrives. *)
GetServerStats(p) ==
  /\ Runs(p) /\ reply[p] = <<>>
  /\ reply' = [reply EXCEPT ![p] = entry]
  /\ UNCHANGED <<stall, stalls>> \/ Blocks(p)
  /\ UNCHANGED <<up, dead, cvars, due, entry, online, faults, calm, seen>>

(* Mutant: an entry is old as soon as the next one is due. *)
ListedStrictly(ages) == {p \in Process : ages[p] # None /\ ages[p] < StatTTL}

(* Mutant: no entry is too old to be reported. *)
ListedForEver(ages) == {p \in Process : ages[p] # None}

(* Of the entries that HGETALL found, those reported and those too old. *)
Listed(ages) == {p \in Process : ages[p] # None /\ ages[p] <= OldAge}
OldKeys(ages) == {p \in Process : ages[p] > OldAge}

(* The callback of HGETALL, with deleteOldStatsKeys. *)
StatsReplied(p) ==
  /\ Runs(p) /\ reply[p] # <<>>
  /\ reply' = [reply EXCEPT ![p] = <<>>]
  /\ \/ /\ entry' = [q \in Process |-> IF q \in OldKeys(reply[p]) THEN None ELSE entry[q]]
        /\ Succeeds
     \/ OldKeys(reply[p]) # {} /\ UNCHANGED entry /\ Fails
  /\ UNCHANGED <<pvars, cvars, due, online, seen>>

-----------------------------------------------------------------------------
(* Presence. *)
SetOnline ==
  \/ online' = KeyTTL /\ Succeeds
  \/ UNCHANGED online /\ Fails

(* What getChannelStats answers for the channel. *)
IsOnline == online > 0

(* A websocket is opened and added.  Its pings start. *)
Add(c) ==
  /\ state[c] = "none" /\ Runs(Home[c])
  /\ state' = [state EXCEPT ![c] = "open"]
  /\ peer' = [peer EXCEPT ![c] = TRUE]
  /\ active' = [active EXCEPT ![c] = TRUE]
  /\ ping' = [ping EXCEPT ![c] = PingInterval]
  /\ SetOnline
  /\ seen' = 0
  /\ UNCHANGED <<pvars, tvars, pong>>

(* A poll is added, in any process.  It has no pong, and ends within the   *)
(* TTL; its client is taken to be there at this moment only.               *)
AddPoll ==
  /\ \E p \in Process : Runs(p)
  /\ SetOnline
  /\ seen' = 0
  /\ UNCHANGED <<pvars, tvars, cvars>>

Gone(c) ==
  /\ state' = [state EXCEPT ![c] = "none"]
  /\ peer' = [peer EXCEPT ![c] = FALSE]
  /\ active' = [active EXCEPT ![c] = FALSE]
  /\ ping' = [ping EXCEPT ![c] = 0]
  /\ pong' = [pong EXCEPT ![c] = None]

(* Mutant: the channel is set online at every ping. *)
PingAndSetOnline(c) ==
  /\ state[c] # "none" /\ Runs(Home[c]) /\ ping[c] = 0 /\ active[c]
  /\ active' = [active EXCEPT ![c] = FALSE]
  /\ pong' = [pong EXCEPT ![c] = IF peer[c] THEN 0 ELSE None]
  /\ ping' = [ping EXCEPT ![c] = PingInterval]
  /\ SetOnline
  /\ UNCHANGED <<pvars, tvars, state, peer, seen>>

(* WebSocket.ping: terminates a websocket whose last ping is unanswered. *)
Ping(c) ==
  /\ state[c] # "none" /\ Runs(Home[c]) /\ ping[c] = 0
  /\ IF active[c]
       THEN /\ active' = [active EXCEPT ![c] = FALSE]
            /\ pong' = [pong EXCEPT ![c] = IF peer[c] THEN 0 ELSE None]
            /\ ping' = [ping EXCEPT ![c] = PingInterval]
            /\ UNCHANGED <<state, peer>>
       ELSE Gone(c)
  /\ UNCHANGED <<pvars, tvars, online, faults, calm, seen>>

(* Mutant: no handler of the pong. *)
PongOnly(c) ==
  /\ pong[c] # None /\ Runs(Home[c])
  /\ pong' = [pong EXCEPT ![c] = None]
  /\ active' = [active EXCEPT ![c] = TRUE]
  /\ UNCHANGED <<pvars, tvars, state, peer, ping, online, faults, calm, seen>>

(* handlePong and the handler of "pong" that add has set, which an         *)
(* eviction leaves: a closing websocket sets its channel online too.       *)
Pong(c) ==
  /\ pong[c] # None /\ Runs(Home[c])
  /\ pong' = [pong EXCEPT ![c] = None]
  /\ active' = [active EXCEPT ![c] = TRUE]
  /\ SetOnline
  /\ UNCHANGED <<pvars, tvars, state, peer, ping, seen>>

(* An eviction, or a refused message. *)
Close(c) ==
  /\ state[c] = "open" /\ Runs(Home[c])
  /\ state' = [state EXCEPT ![c] = "closing"]
  /\ active' = [active EXCEPT ![c] = FALSE]
  /\ UNCHANGED <<pvars, tvars, peer, ping, pong, online, faults, calm, seen>>

(* The client closes, or answers a close. *)
Closed(c) ==
  /\ state[c] # "none" /\ peer[c] /\ Runs(Home[c])
  /\ Gone(c)
  /\ UNCHANGED <<pvars, tvars, online, faults, calm, seen>>

(* The client vanishes without a trace; a pong under way may be lost. *)
Vanish(c) ==
  /\ peer[c]
  /\ peer' = [peer EXCEPT ![c] = FALSE]
  /\ pong' \in {pong, [pong EXCEPT ![c] = None]}
  /\ UNCHANGED <<pvars, tvars, state, active, ping, online, faults, calm, seen>>

-----------------------------------------------------------------------------
(* A worker ends, with its connections; the master forks no other. *)
Crash(p) ==
  /\ p \in up
  /\ up' = up \ {p}
  /\ stall' = [stall EXCEPT ![p] = Running]
  /\ dead' = [dead EXCEPT ![p] = 0]
  /\ reply' = [reply EXCEPT ![p] = <<>>]
  /\ due' = [due EXCEPT ![p] = 0]
  /\ LET lost == {c \in Conn : Home[c] = p} IN
     /\ state' = [c \in Conn |-> IF c \in lost THEN "none" ELSE state[c]]
     /\ peer' = [c \in Conn |-> c \notin lost /\ peer[c]]
     /\ active' = [c \in Conn |-> c \notin lost /\ active[c]]
     /\ ping' = [c \in Conn |-> IF c \in lost THEN 0 ELSE ping[c]]
     /\ pong' = [c \in Conn |-> IF c \in lost THEN None ELSE pong[c]]
  /\ UNCHANGED <<stalls, entry, online, faults, calm, seen>>

Stall(p) ==
  /\ Runs(p) /\ ~Busy(p) /\ Blocks(p)
  /\ UNCHANGED <<up, dead, tvars, cvars, online, faults, calm, seen>>

Resume(p) ==
  /\ p \in up /\ stall[p] > 0
  /\ stall' = [stall EXCEPT ![p] = Running]
  /\ UNCHANGED <<up, stalls, dead, tvars, cvars, online, faults, calm, seen>>

Older(age) == IF age = None THEN None ELSE Min2(age + 1, OldAge + 1)
Down(n) == IF n = 0 THEN 0 ELSE n - 1

Tick ==
  /\ \A p \in up : (Runs(p) => ~Busy(p)) /\ stall[p] < MaxStall
  /\ due' = [p \in Process |-> Down(due[p])]
  /\ entry' = [p \in Process |-> Older(entry[p])]
  /\ reply' = [p \in Process |->
       IF reply[p] = <<>> THEN <<>> ELSE [q \in Process |-> Older(reply[p][q])]]
  /\ ping' = [c \in Conn |-> Down(ping[c])]
  /\ pong' = [c \in Conn |-> IF pong[c] = None THEN None ELSE Min2(pong[c] + 1, Rtt)]
  /\ online' = Down(online)
  /\ stall' = [p \in Process |-> IF stall[p] = Running THEN Running ELSE stall[p] + 1]
  /\ calm' = IF \E p \in up : stall[p] >= MaxLate THEN 0
             ELSE Min2(calm + 1, MaxCalm)
  /\ seen' = IF \E c \in Conn : peer[c] THEN 0 ELSE Min2(seen + 1, MaxSeen)
  /\ dead' = [p \in Process |-> IF p \in up THEN 0 ELSE Min2(dead[p] + 1, OldAge + 1)]
  /\ UNCHANGED <<up, stalls, state, peer, active, faults>>

Next ==
  \/ \E p \in Process :
       \/ SetServerStats(p) \/ GetServerStats(p) \/ StatsReplied(p)
       \/ Crash(p) \/ Stall(p) \/ Resume(p)
  \/ \E c \in Conn :
       Add(c) \/ Ping(c) \/ Pong(c) \/ Close(c) \/ Closed(c) \/ Vanish(c)
  \/ AddPoll
  \/ Tick

Spec == Init /\ [][Next]_vars

-----------------------------------------------------------------------------
(* Every variable has its type; nothing is kept for a crashed process. *)
TypeOK ==
  /\ up \subseteq Process
  /\ stall \in [Process -> {Running} \cup 0..MaxStall]
  /\ due \in [Process -> 0..StatTTL]
  /\ entry \in [Process -> {None} \cup 0..OldAge + 1]
  /\ reply \in [Process -> {<<>>} \cup [Process -> {None} \cup 0..OldAge + 1]]
  /\ dead \in [Process -> 0..OldAge + 1]
  /\ \A p \in Process \ up : reply[p] = <<>> /\ stall[p] = Running
  /\ state \in [Conn -> {"none", "open", "closing"}]
  /\ peer \in [Conn -> BOOLEAN] /\ active \in [Conn -> BOOLEAN]
  /\ ping \in [Conn -> 0..PingInterval] /\ pong \in [Conn -> {None} \cup 0..Rtt]
  /\ online \in 0..KeyTTL
  /\ calm \in 0..MaxCalm /\ seen \in 0..MaxSeen

(***************************************************************************)
(* Every answer lists every live process, although the processes report    *)
(* and read independently and readers delete entries of others - unless a  *)
(* process was blocked for long or a command failed in the last two rounds *)
(* of reports and replies.  A blocked reader may delete the entries of     *)
(* processes that are not late at all; the next reports restore them.      *)
(***************************************************************************)
LiveProcessListed ==
  \A p \in Process :
    Runs(p) /\ reply[p] # <<>> /\ calm > StatCalm => up \subseteq Listed(reply[p])

(***************************************************************************)
(* No answer lists a process that has been dead for longer than an entry   *)
(* counts.                                                                 *)
(***************************************************************************)
NoGhostProcess ==
  \A p \in Process : reply[p] # <<>> =>
    \A q \in Listed(reply[p]) : q \in up \/ dead[q] <= OldAge

(***************************************************************************)
(* The channel of an open websocket whose client is there is online -      *)
(* unless a process was blocked for long or a command failed since the     *)
(* last ping.  The key is never deleted, so that no other connection of    *)
(* the channel takes it away.                                              *)
(***************************************************************************)
OnlineWhileConnected ==
  (\E c \in Conn : state[c] = "open" /\ peer[c]) /\ calm > OnlineCalm => IsOnline

(***************************************************************************)
(* When a channel was last set online, a client of it had been there       *)
(* within the time a pong takes and a process is blocked, however long the *)
(* server keeps the websocket of a client that vanished.                   *)
(***************************************************************************)
OnlineNeedsRecentClient ==
  IsOnline => seen < (KeyTTL - online) + Rtt + MaxStall
=============================================================================
