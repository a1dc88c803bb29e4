----------------------------- MODULE MCCluster -----------------------------
(* Two processes and one connection of the channel on each; both pairs can *)
(* be exchanged.                                                           *)
EXTENDS Cluster, TLC

CONSTANTS p1, p2, c1, c2

MCHome == (c1 :> p1) @@ (c2 :> p2)

Exchange ==
  {[x \in Process \cup Conn |-> x],
   (p1 :> p2) @@ (p2 :> p1) @@ (c1 :> c2) @@ (c2 :> c1)}
=============================================================================
