---------------------------- MODULE LoopTheorems ----------------------------
(***************************************************************************)
(* The handlers of the server run to completion: a loop over the channels  *)
(* of a subscriber, over the receivers of a message or over the members of *)
(* a channel is one step of a specification.  The specifications write     *)
(* such a loop as a recursive function of the number of rounds done.  This *)
(* module proves the two facts every proof about such a loop rests on:     *)
(* induction up to the number of rounds, and that the recursion defines a  *)
(* function.                                                               *)
(***************************************************************************)
EXTENDS Integers, Sequences, WellFoundedInduction, TLAPS

(***************************************************************************)
(* What holds before the first round and is kept by every round holds      *)
(* after each of the n rounds.                                             *)
(***************************************************************************)
LEMMA UpToInduction ==
  ASSUME NEW n \in Nat, NEW S, 0 \in S,
         \A k \in 1..n : k - 1 \in S => k \in S
  PROVE  0..n \subseteq S
<1> DEFINE Bad == {k \in 0..n : k \notin S}
           Less == {ss \in Nat \X Nat : ss[1] < ss[2]}
<1> SUFFICES ASSUME Bad # {} PROVE FALSE
  OBVIOUS
<1>1. Bad \in SUBSET Nat
  OBVIOUS
<1>2. IsWellFoundedOn(Less, Nat)
  BY NatLessThanWellFounded DEF OpToRel
<1>3. PICK k \in Bad : \A m \in Bad : ~(<<m, k>> \in Less)
  <2> HIDE DEF Less, Bad
  <2> QED BY <1>1, <1>2, WFMin
<1>4. \A m \in Bad : k <= m
  <2> TAKE m \in Bad
  <2>1. k \in Nat /\ m \in Nat
    OBVIOUS
  <2>2. ~(m < k)
    BY <1>3, <2>1
  <2> QED BY <2>1, <2>2
<1>5. k # 0 /\ k \in 0..n /\ k \notin S
  OBVIOUS
<1>6. k - 1 \in 0..n /\ k \in 1..n
  BY <1>5
<1>7. k - 1 \notin Bad
  BY <1>4, <1>5
<1>8. k - 1 \in S
  BY <1>6, <1>7
<1> QED BY <1>5, <1>6, <1>8

(***************************************************************************)
(* f[i] is the state after i rounds of a loop that starts in s and whose   *)
(* i-th round takes x to G[<<x, i>>].                                      *)
(***************************************************************************)
IsRun(f, n, s, G) ==
  /\ f[0] = s
  /\ \A i \in 1..n : f[i] = G[<<f[i-1], i>>]

(***************************************************************************)
(* n rounds that keep the state in T can be run: the recursion that gives  *)
(* the state after each round has a solution.                              *)
(***************************************************************************)
LEMMA LoopExists ==
  ASSUME NEW n \in Nat, NEW T, NEW s \in T, NEW G \in [T \X (1..n) -> T]
  PROVE  \E f \in [0..n -> T] : IsRun(f, n, s, G)
<1> DEFINE R(f, m) == f = [i \in 0..m |->
                             IF i = 0 THEN s ELSE G[<<f[i-1], i>>]]
           S == {m \in 0..n : \E f \in [0..m -> T] : R(f, m)}
<1>1. 0 \in S
  <2> DEFINE f == [i \in 0..0 |-> s]
  <2>1. f \in [0..0 -> T] /\ R(f, 0)
    OBVIOUS
  <2>2. \E ff \in [0..0 -> T] : R(ff, 0)
    BY <2>1
  <2> QED BY <2>2
<1>2. ASSUME NEW k \in 1..n, k - 1 \in S PROVE k \in S
  <2>1. PICK f \in [0..(k-1) -> T] : R(f, k-1)
    BY <1>2
  <2> DEFINE g == [i \in 0..k |-> IF i = k THEN G[<<f[k-1], k>>] ELSE f[i]]
  <2>2. g \in [0..k -> T]
    <3>1. f[k-1] \in T
      OBVIOUS
    <3>2. G[<<f[k-1], k>>] \in T
      BY <3>1
    <3>3. \A i \in 0..k : i # k => i \in 0..(k-1)
      OBVIOUS
    <3> QED BY <3>2, <3>3
  <2>3. \A i \in 0..k : g[i] = IF i = 0 THEN s ELSE G[<<g[i-1], i>>]
    <3> TAKE i \in 0..k
    <3>1. CASE i = k
      <4>1. g[i-1] = f[k-1] /\ i # 0
        BY <3>1
      <4>2. g[i] = G[<<f[k-1], i>>]
        BY <3>1
      <4> HIDE DEF g
      <4> QED BY <4>1, <4>2
    <3>2. CASE i # k
      <4>1. i \in 0..(k-1)
        BY <3>2
      <4>2. f[i] = IF i = 0 THEN s ELSE G[<<f[i-1], i>>]
        BY <2>1, <4>1
      <4>3. i # 0 => g[i-1] = f[i-1]
        BY <4>1
      <4> QED BY <4>2, <4>3, <3>2
    <3> QED BY <3>1, <3>2
  <2>4. R(g, k)
    BY <2>2, <2>3
  <2>5. k \in 0..n
    OBVIOUS
  <2> QED BY <2>2, <2>4, <2>5
<1>3. \A k \in 1..n : k - 1 \in S => k \in S
  BY <1>2
<1> HIDE DEF S
<1>4. 0..n \subseteq S
  BY <1>1, <1>3, UpToInduction
<1>5. PICK f \in [0..n -> T] : R(f, n)
  BY <1>4 DEF S
<1>6. \A i \in 0..n : f[i] = IF i = 0 THEN s ELSE G[<<f[i-1], i>>]
  BY <1>5
<1>7. f[0] = s
  <2>1. 0 \in 0..n
    OBVIOUS
  <2> QED BY <1>6, <2>1
<1>8. ASSUME NEW i \in 1..n PROVE f[i] = G[<<f[i-1], i>>]
  <2>1. i \in 0..n /\ i # 0
    OBVIOUS
  <2> QED BY <1>6, <2>1
<1> QED BY <1>7, <1>8 DEF IsRun

=============================================================================
