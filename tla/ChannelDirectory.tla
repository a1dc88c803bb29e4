-------------------------- MODULE ChannelDirectory --------------------------
(***************************************************************************)
(* What the connection registry promises to the rest of the server: a      *)
(* directory of the members of each channel in which a connection is       *)
(* entered once, in all its channels at the same time, and leaves all of   *)
(* them at the same time, never to come back.  A newcomer displaces        *)
(* members only of a channel of its own that had reached the limit.        *)
(***************************************************************************)
EXTENDS Naturals, FiniteSets

CONSTANTS Connections, Private, Subscriptions, Limit

VARIABLES members, left

dirVars == <<members, left>>

Entered(c) == \E p \in Private : c \in members[p]

Init == members = [p \in Private |-> {}] /\ left = {}

Remaining(gone) == [p \in Private |-> members[p] \ gone]

Displaceable(c) ==
  {d \in Connections : \E p \in Subscriptions[c] :
     d \in members[p] /\ Cardinality(members[p]) >= Limit}

Enter(c) ==
  /\ ~Entered(c) /\ c \notin left
  /\ \E gone \in SUBSET Displaceable(c) :
       /\ members' = [p \in Private |->
            Remaining(gone)[p] \cup (IF p \in Subscriptions[c] THEN {c} ELSE {})]
       /\ left' = left \cup gone

Leave(gone) ==
  /\ \A c \in gone : Entered(c)
  /\ members' = Remaining(gone)
  /\ left' = left \cup gone

Next == (\E c \in Connections : Enter(c)) \/ (\E gone \in SUBSET Connections : Leave(gone))

Spec == Init /\ [][Next]_dirVars
=============================================================================
