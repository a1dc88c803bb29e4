----------------------------- MODULE MCAdapter ------------------------------
(***************************************************************************)
(* Small instances of Adapter.  An instance is given by the channels its   *)
(* connections subscribe to.                                               *)
(***************************************************************************)
EXTENDS Adapter

CONSTANTS w1, w2, w3, p1, p2, A, B, qa, qb

Ch(p, q) == [private |-> p, public |-> q]

(* Everybody lists a channel with its public id. *)
UniformSubscriptions ==
  (w1 :> <<Ch(A, qa), Ch(B, qb)>>) @@ (w2 :> <<Ch(A, qa)>>) @@ (w3 :> <<Ch(B, qb)>>) @@
  (p1 :> <<Ch(B, qb), Ch(A, qa)>>) @@ (p2 :> <<Ch(A, qa)>>)

(* With and without the public id, a channel twice, and no channel at all. *)
MixedSubscriptions ==
  (w1 :> <<Ch(A, qa), Ch(A, qa)>>) @@ (w2 :> <<Ch(B, NoId), Ch(A, NoId)>>) @@
  (p1 :> <<Ch(A, qa), Ch(B, NoId)>>) @@ (p2 :> <<>>)
=============================================================================
