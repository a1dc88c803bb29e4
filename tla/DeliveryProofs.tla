--------------------------- MODULE DeliveryProofs ---------------------------
(***************************************************************************)
(* Proofs about Delivery, for any number of messages, channels and         *)
(* clients, and any limits: its types and what they rest on, in any number *)
(* of processes, the order in which messages reach the clients, that none  *)
(* is skipped, and that a client only gets what is addressed to it.        *)
(***************************************************************************)
EXTENDS Delivery, SequenceTheorems, FiniteSetTheorems, LoopTheorems

(***************************************************************************)
(* Lists of ids.                                                           *)
(***************************************************************************)
Ascends(q) == \A i, j \in DOMAIN q : i < j => q[i] < q[j]

LEMMA MaxOfBounded ==
  ASSUME NEW n \in Nat, NEW I \in SUBSET (0..n), I # {}
  PROVE  Max(I) \in I /\ \A i \in I : i <= Max(I)
<1> DEFINE Above == {k \in 0..n : \A i \in I : i <= n - k}
<1> SUFFICES ASSUME \A j \in I : \E i \in I : ~(j >= i) PROVE FALSE
  BY DEF Max
<1>1. 0 \in Above
  OBVIOUS
<1>2. ASSUME NEW k \in 1..n, k - 1 \in Above PROVE k \in Above
  <2>1. \A i \in I : i <= n - (k - 1)
    BY <1>2
  <2>2. n - (k - 1) \notin I
    <3> SUFFICES ASSUME n - (k - 1) \in I PROVE FALSE
      OBVIOUS
    <3>1. PICK i \in I : ~(n - (k - 1) >= i)
      OBVIOUS
    <3> QED BY <2>1, <3>1
  <2>3. ASSUME NEW i \in I PROVE i <= n - k
    <3>1. i <= n - (k - 1) /\ i # n - (k - 1) /\ i \in Int
      BY <2>1, <2>2
    <3> QED BY <3>1
  <2> QED BY <2>3
<1> HIDE DEF Above
<1>3. 0..n \subseteq Above
  BY <1>1, <1>2, UpToInduction
<1>4. \A i \in I : i = 0
  <2>1. n \in Above
    BY <1>3
  <2> QED BY <2>1 DEF Above
<1>5. PICK j \in I : TRUE
  OBVIOUS
<1>6. PICK i \in I : ~(j >= i)
  OBVIOUS
<1> QED BY <1>4, <1>6

(* What is kept of a list keeps its order. *)
LEMMA KeptFacts ==
  ASSUME NEW T, NEW q \in Seq(T), NEW S
  PROVE  /\ Kept(q, S) \in Seq(T)
         /\ ToSet(Kept(q, S)) = ToSet(q) \cap S
         /\ T \subseteq Int /\ Ascends(q) => Ascends(Kept(q, S))
<1> DEFINE n == Len(q)
           Round(x, i) == IF q[i] \in S THEN Append(x, q[i]) ELSE x
           G == [xi \in Seq(T) \X (1..n) |-> Round(xi[1], xi[2])]
           Eq(g) == g = [i \in 0..n |-> IF i = 0 THEN <<>> ELSE Round(g[i-1], i)]
           run == CHOOSE g : Eq(g)
           Good(i) == /\ run[i] \in Seq(T)
                      /\ \A e : (\E j \in DOMAIN run[i] : run[i][j] = e)
                                <=> e \in S /\ \E j \in 1..i : q[j] = e
                      /\ T \subseteq Int /\ Ascends(q) => Ascends(run[i])
<1>0. n \in Nat
  OBVIOUS
<1>1. ASSUME NEW x \in Seq(T), NEW i \in 1..n PROVE Round(x, i) \in Seq(T)
  OBVIOUS
<1> HIDE DEF n, Round
<1>3. G \in [Seq(T) \X (1..n) -> Seq(T)]
  BY <1>1
<1>4. PICK f \in [0..n -> Seq(T)] : IsRun(f, n, <<>>, G)
  <2> HIDE DEF G
  <2>1. <<>> \in Seq(T)
    OBVIOUS
  <2> QED BY <1>0, <1>3, <2>1, LoopExists, Zenon
<1>5. f[0] = <<>> /\ \A i \in 1..n : f[i] = G[<<f[i-1], i>>]
  <2> HIDE DEF G
  <2> QED BY <1>4 DEF IsRun
<1>6. ASSUME NEW i \in 1..n PROVE f[i] = Round(f[i-1], i)
  <2>1. f[i-1] \in Seq(T)
    BY <1>0
  <2>2. G[<<f[i-1], i>>] = Round(f[i-1], i)
    BY <2>1
  <2> QED BY <1>5, <2>2
<1>7. \A i \in 0..n : f[i] = IF i = 0 THEN <<>> ELSE Round(f[i-1], i)
  BY <1>0, <1>5, <1>6
<1>8. Eq(f)
  BY <1>7
<1>9. Eq(run)
  BY <1>8
<1> HIDE DEF run, G
<1>10. 0..n \subseteq {i \in 0..n : Good(i)}
  <2>1. Good(0)
    <3>1. run[0] = <<>>
      BY <1>0, <1>9
    <3> QED BY <3>1 DEF Ascends
  <2>2. ASSUME NEW k \in 1..n, Good(k - 1) PROVE Good(k)
    <3>1. run[k] = Round(run[k-1], k) /\ k - 1 \in 0..n
      BY <1>0, <1>9
    <3>2. q[k] \in T /\ k \in DOMAIN q
      BY DEF n
    <3>3. CASE q[k] \notin S
      <4>1. run[k] = run[k-1]
        BY <3>1, <3>3 DEF Round
      <4>2. \A e : e \in S => ((\E j \in 1..k : q[j] = e) <=> \E j \in 1..(k-1) : q[j] = e)
        <5> SUFFICES ASSUME NEW e \in S, NEW j \in 1..k, q[j] = e
                     PROVE  \E l \in 1..(k-1) : q[l] = e
          BY <1>0
        <5>1. j # k
          BY <3>3
        <5>2. j \in 1..(k-1)
          BY <1>0, <5>1
        <5> QED BY <5>2
      <4> QED BY <2>2, <4>1, <4>2
    <3>4. CASE q[k] \in S
      <4>1. run[k] = Append(run[k-1], q[k]) /\ run[k-1] \in Seq(T)
        BY <2>2, <3>1, <3>4 DEF Round
      <4>2. /\ run[k] \in Seq(T) /\ Len(run[k]) = Len(run[k-1]) + 1
            /\ \A j \in 1..Len(run[k-1]) : run[k][j] = run[k-1][j]
            /\ run[k][Len(run[k])] = q[k]
        BY <3>2, <4>1
      <4>3. \A e : (\E j \in DOMAIN run[k] : run[k][j] = e)
                   <=> e = q[k] \/ \E j \in DOMAIN run[k-1] : run[k-1][j] = e
        <5>1. DOMAIN run[k-1] = 1..Len(run[k-1]) /\ DOMAIN run[k] = 1..(Len(run[k-1]) + 1)
              /\ Len(run[k-1]) \in Nat
          BY <4>1, <4>2
        <5>2. ASSUME NEW j \in DOMAIN run[k]
              PROVE  run[k][j] = q[k] \/ j \in DOMAIN run[k-1]
          BY <4>2, <5>1
        <5>3. Len(run[k]) \in DOMAIN run[k]
          BY <4>2, <5>1
        <5>4. DOMAIN run[k-1] \subseteq DOMAIN run[k]
          BY <5>1
        <5> QED BY <4>2, <5>1, <5>2, <5>3, <5>4
      <4>4. \A e : (\E j \in 1..k : q[j] = e) <=> e = q[k] \/ \E j \in 1..(k-1) : q[j] = e
        BY <1>0
      <4>5. ASSUME T \subseteq Int, Ascends(q) PROVE Ascends(run[k])
        <5>1. Ascends(run[k-1])
          BY <2>2, <4>5
        <5>2. ASSUME NEW j \in DOMAIN run[k-1] PROVE run[k-1][j] < q[k]
          <6>1. PICK l \in 1..(k-1) : q[l] = run[k-1][j]
            BY <2>2, <5>2
          <6>2. l \in DOMAIN q /\ l < k
            BY <1>0, <6>1 DEF n
          <6> QED BY <3>2, <4>5, <6>1, <6>2 DEF Ascends
        <5> QED BY <4>1, <4>2, <5>1, <5>2 DEF Ascends
      <4> QED BY <2>2, <3>4, <4>2, <4>3, <4>4, <4>5
    <3> QED BY <3>3, <3>4
  <2> HIDE DEF Good
  <2>3. ASSUME NEW k \in 1..n, k - 1 \in {i \in 0..n : Good(i)}
        PROVE  k \in {i \in 0..n : Good(i)}
    BY <1>0, <2>2, <2>3
  <2>4. 0 \in {i \in 0..n : Good(i)}
    BY <1>0, <2>1
  <2> QED BY <1>0, <2>3, <2>4, UpToInduction
<1> HIDE DEF Good
<1>11. Good(n)
  BY <1>0, <1>10
<1>12. Kept(q, S) = run[n]
  BY DEF Kept, run, n, Round
<1>13. ToSet(q) = {q[j] : j \in 1..n}
  BY DEF ToSet, n
<1>14. \A e : e \in ToSet(run[n]) <=> e \in S /\ e \in ToSet(q)
  BY <1>11, <1>13 DEF ToSet, Good
<1> QED BY <1>11, <1>12, <1>14 DEF Good

Disjoint(sets) ==
  \A k, l \in DOMAIN sets : \A i \in sets[k] : i \in sets[l] => k = l

(* The sorted list of the ids of all sets: it ascends strictly when no id  *)
(* is in two of them.                                                      *)
LEMMA SortedFacts ==
  ASSUME NEW N \in Nat, NEW d \in Nat, NEW sets \in [1..d -> SUBSET (1..N)]
  PROVE  /\ Sorted(sets) \in Seq(1..N)
         /\ ToSet(Sorted(sets)) = UNION {sets[k] : k \in 1..d}
         /\ Disjoint(sets) => Ascends(Sorted(sets))
<1> DEFINE ids == UNION {sets[k] : k \in 1..d}
           top == Max({0} \cup ids)
           copies(i) == Cardinality({k \in 1..d : i \in sets[k]})
           Round(x, i) == x \o [n \in 1..copies(i) |-> i]
           G == [xi \in Seq(1..N) \X (1..top) |-> Round(xi[1], xi[2])]
           Eq(g) == g = [i \in 0..top |-> IF i = 0 THEN <<>> ELSE Round(g[i-1], i)]
           run == CHOOSE g : Eq(g)
           Good(i) == /\ run[i] \in Seq(1..N)
                      /\ ToSet(run[i]) = {e \in ids : e <= i}
                      /\ Disjoint(sets) => Ascends(run[i])
<1>0. ids \subseteq 1..N
  OBVIOUS
<1>1. /\ top \in {0} \cup ids /\ \A i \in ids : i <= top
      /\ top \in 0..N
  <2>1. {0} \cup ids \in SUBSET (0..N) /\ {0} \cup ids # {}
    BY <1>0
  <2> HIDE DEF ids
  <2> QED BY <2>1, MaxOfBounded
<1>a. top \in Nat /\ 0 \in 0..top /\ \A i \in ids : i \in Nat
  <2>1. top \in Nat
    BY <1>1
  <2> HIDE DEF top
  <2> QED BY <1>0, <2>1
<1>2. ASSUME NEW i PROVE /\ copies(i) \in Nat
                         /\ copies(i) = 0 <=> i \notin ids
                         /\ Disjoint(sets) => copies(i) \in {0, 1}
  <2> DEFINE K == {k \in 1..d : i \in sets[k]}
  <2>1. IsFiniteSet(K)
    BY FS_Interval, FS_Subset
  <2>2. Cardinality(K) \in Nat /\ (Cardinality(K) = 0 <=> K = {})
    BY <2>1, FS_CardinalityType, FS_EmptySet
  <2>3. ASSUME Disjoint(sets), K # {} PROVE Cardinality(K) = 1
    <3>1. PICK k \in K : TRUE
      BY <2>3
    <3>2. K = {k}
      BY <2>3, <3>1 DEF Disjoint
    <3> QED BY <3>2, FS_Singleton
  <2> QED BY <2>2, <2>3
<1>3. sets = [k \in 1..d |-> sets[k]] /\ DOMAIN sets = 1..d
  OBVIOUS
<1>4. Sorted(sets) = run[top]
  BY <1>3 DEF Sorted, run, Round, copies, top, ids
<1>5. ASSUME NEW i \in 1..top
      PROVE  /\ [n \in 1..copies(i) |-> i] \in Seq(1..N)
             /\ Len([n \in 1..copies(i) |-> i]) = copies(i)
  <2>1. i \in 1..N
    BY <1>1
  <2> HIDE DEF copies, top
  <2> QED BY <1>2, <2>1
<1>6. ASSUME NEW x \in Seq(1..N), NEW i \in 1..top PROVE Round(x, i) \in Seq(1..N)
  BY <1>5
<1> HIDE DEF ids, top, copies, Round
<1>7. G \in [Seq(1..N) \X (1..top) -> Seq(1..N)]
  BY <1>6
<1>8. PICK f \in [0..top -> Seq(1..N)] : IsRun(f, top, <<>>, G)
  <2> HIDE DEF G
  <2>1. <<>> \in Seq(1..N)
    OBVIOUS
  <2> HIDE DEF ids
  <2> QED BY <1>a, <1>7, <2>1, LoopExists, Zenon
<1>9. f[0] = <<>> /\ \A i \in 1..top : f[i] = G[<<f[i-1], i>>]
  <2> HIDE DEF G
  <2> QED BY <1>8 DEF IsRun
<1>10. ASSUME NEW i \in 1..top PROVE f[i] = Round(f[i-1], i)
  <2>1. f[i-1] \in Seq(1..N)
    BY <1>1
  <2>2. G[<<f[i-1], i>>] = Round(f[i-1], i)
    BY <2>1
  <2> QED BY <1>9, <2>2
<1>11. Eq(f)
  BY <1>1, <1>9, <1>10
<1>12. Eq(run)
  BY <1>11
<1> HIDE DEF run, G
<1>13. 0..top \subseteq {i \in 0..top : Good(i)}
  <2>1. Good(0)
    <3>1. run[0] = <<>>
      BY <1>a, <1>12
    <3>2. {e \in ids : e <= 0} = {}
      <4>1. \A e \in ids : ~(e <= 0)
        BY <1>0, <1>a
      <4> QED BY <4>1
    <3>3. Ascends(run[0]) /\ ToSet(run[0]) = {}
      BY <3>1 DEF Ascends, ToSet
    <3> QED BY <3>1, <3>2, <3>3
  <2>2. ASSUME NEW k \in 1..top, Good(k - 1) PROVE Good(k)
    <3> DEFINE x == run[k-1]
               y == [n \in 1..copies(k) |-> k]
    <3>1. run[k] = x \o y /\ k - 1 \in 0..top /\ k \in Nat
      <4>1. k - 1 \in 0..top /\ k \in 0..top /\ k \in Nat /\ k # 0
        BY <1>a
      <4>2. run[k] = Round(run[k-1], k)
        BY <1>12, <4>1
      <4> QED BY <4>1, <4>2 DEF Round
    <3>2. /\ x \in Seq(1..N) /\ y \in Seq(1..N) /\ Len(y) = copies(k) /\ Len(x) \in Nat
          /\ copies(k) \in Nat
      BY <1>2, <1>5, <2>2
    <3>3. \A j \in 1..copies(k) : y[j] = k
      OBVIOUS
    <3> HIDE DEF x, y
    <3>4. /\ run[k] \in Seq(1..N) /\ Len(run[k]) = Len(x) + copies(k)
          /\ \A j \in 1..Len(x) : run[k][j] = x[j]
          /\ \A j \in 1..Len(run[k]) : j > Len(x) => run[k][j] = k
      <4>1. run[k] \in Seq(1..N) /\ Len(run[k]) = Len(x) + copies(k)
        <5>1. x \o y \in Seq(1..N) /\ Len(x \o y) = Len(x) + Len(y)
          BY <3>2, ConcatProperties
        <5> QED BY <3>1, <3>2, <5>1
      <4>2. \A j \in 1..Len(x) : run[k][j] = x[j]
        BY <3>1, <3>2
      <4>3. ASSUME NEW j \in 1..Len(run[k]), j > Len(x) PROVE run[k][j] = k
        <5>1. run[k][j] = y[j - Len(x)] /\ j - Len(x) \in 1..copies(k)
          BY <3>1, <3>2, <4>1, <4>3
        <5> QED BY <3>3, <5>1
      <4> QED BY <4>1, <4>2, <4>3
    <3>5. \A e : e \in ToSet(run[k]) <=> e \in ToSet(x) \/ (e = k /\ copies(k) # 0)
      <4>1. ASSUME NEW e, e \in ToSet(run[k]) PROVE e \in ToSet(x) \/ (e = k /\ copies(k) # 0)
        <5>1. PICK j \in 1..Len(run[k]) : run[k][j] = e
          BY <3>4, <4>1 DEF ToSet
        <5>2. CASE j \in 1..Len(x)
          <6>1. x[j] = e /\ j \in DOMAIN x
            BY <3>2, <3>4, <5>1, <5>2
          <6> QED BY <6>1 DEF ToSet
        <5>3. CASE j \notin 1..Len(x)
          <6>1. j > Len(x) /\ copies(k) # 0
            BY <3>2, <3>4, <5>3
          <6> QED BY <3>4, <5>1, <6>1
        <5> QED BY <5>2, <5>3
      <4>2. ASSUME NEW e, e \in ToSet(x) PROVE e \in ToSet(run[k])
        <5>1. PICK j \in 1..Len(x) : x[j] = e
          BY <3>2, <4>2 DEF ToSet
        <5>2. j \in DOMAIN run[k] /\ run[k][j] = e
          BY <3>2, <3>4, <5>1
        <5> QED BY <5>2 DEF ToSet
      <4>3. ASSUME copies(k) # 0 PROVE k \in ToSet(run[k])
        <5>1. Len(x) + 1 \in 1..Len(run[k]) /\ Len(x) + 1 > Len(x)
          BY <3>2, <3>4, <4>3
        <5>2. Len(x) + 1 \in DOMAIN run[k] /\ run[k][Len(x) + 1] = k
          BY <3>4, <5>1
        <5> QED BY <5>2 DEF ToSet
      <4> QED BY <4>1, <4>2, <4>3
    <3>6. ToSet(run[k]) = {e \in ids : e <= k}
      <4>1. \A e \in ids : e <= k <=> e <= k - 1 \/ e = k
        BY <1>0, <3>1
      <4>2. ToSet(x) = {e \in ids : e <= k - 1}
        BY <2>2 DEF x
      <4> QED BY <1>2, <3>5, <4>1, <4>2
    <3>7. ASSUME Disjoint(sets) PROVE Ascends(run[k])
      <4>1. Ascends(x) /\ copies(k) \in {0, 1}
        BY <1>2, <2>2, <3>7 DEF x
      <4>2. ASSUME NEW j \in 1..Len(x) PROVE x[j] < k
        <5>1. x[j] \in ToSet(x)
          BY <3>2 DEF ToSet
        <5>2. x[j] \in ids /\ x[j] <= k - 1
          BY <2>2, <5>1 DEF x
        <5> QED BY <1>a, <3>1, <5>2
      <4> SUFFICES ASSUME NEW i \in 1..Len(run[k]), NEW j \in 1..Len(run[k]), i < j
                   PROVE  run[k][i] < run[k][j]
        <5>1. DOMAIN run[k] = 1..Len(run[k])
          BY <3>4
        <5> QED BY <5>1 DEF Ascends
      <4>3. i \in 1..Len(x)
        BY <3>2, <3>4, <4>1
      <4>4. CASE j \in 1..Len(x)
        <5>1. x[i] < x[j]
          BY <3>2, <4>1, <4>3, <4>4 DEF Ascends
        <5> QED BY <3>4, <4>3, <4>4, <5>1
      <4>5. CASE j > Len(x)
        BY <3>4, <4>2, <4>3, <4>5
      <4> QED BY <3>2, <4>4, <4>5
    <3> QED BY <3>4, <3>6, <3>7
  <2> HIDE DEF Good
  <2>3. ASSUME NEW k \in 1..top, k - 1 \in {i \in 0..top : Good(i)}
        PROVE  k \in {i \in 0..top : Good(i)}
    BY <1>1, <2>2, <2>3
  <2>4. 0 \in {i \in 0..top : Good(i)}
    BY <1>a, <2>1
  <2> QED BY <1>a, <2>3, <2>4, UpToInduction
<1> HIDE DEF Good
<1>14. Good(top)
  BY <1>1, <1>13
<1>15. {e \in ids : e <= top} = ids
  BY <1>1
<1> QED BY <1>4, <1>14, <1>15 DEF Good, ids

(* The last of a list. *)
LEMMA LastOnesFacts ==
  ASSUME NEW N \in Nat, NEW q \in Seq(1..N), NEW n \in Nat
  PROVE  /\ LastOnes(q, n) \in Seq(1..N)
         /\ ToSet(LastOnes(q, n)) \subseteq ToSet(q)
         /\ Ascends(q) => Ascends(LastOnes(q, n))
<1> DEFINE first == IF Len(q) > n THEN Len(q) - n + 1 ELSE 1
           r == LastOnes(q, n)
<1>1. /\ first \in 1..(Len(q) + 1) /\ r = SubSeq(q, first, Len(q)) /\ Len(q) \in Nat
  BY DEF LastOnes
<1> HIDE DEF first, r
<1>2. /\ r \in Seq(1..N) /\ Len(r) = Len(q) - first + 1
      /\ \A j \in 1..Len(r) : r[j] = q[first + j - 1]
  BY <1>1
<1>3. \A j \in DOMAIN r : first + j - 1 \in DOMAIN q /\ r[j] = q[first + j - 1]
  BY <1>1, <1>2
<1>4. ToSet(r) \subseteq ToSet(q)
  BY <1>3 DEF ToSet
<1>5. ASSUME Ascends(q) PROVE Ascends(r)
  <2> SUFFICES ASSUME NEW i \in DOMAIN r, NEW j \in DOMAIN r, i < j PROVE r[i] < r[j]
    BY DEF Ascends
  <2>1. first + i - 1 < first + j - 1
    BY <1>1, <1>2
  <2> QED BY <1>3, <1>5, <2>1 DEF Ascends
<1> QED BY <1>2, <1>4, <1>5 DEF r

-----------------------------------------------------------------------------
(***************************************************************************)
(* Types.  Ids are given in order, from 1 to Top; who waits for what.      *)
(***************************************************************************)
Top == Cardinality({m \in Messages : idOf[m] # 0})
Ids == 1..Top

MessageOps == {"incr", "startdate", "save", "ttl"}
LoadOps == {"range", "mget"}

RequestType ==
  [op : MessageOps, who : Messages, args : {<<>>}, done : BOOLEAN, reply : Seq(Channels)]
  \cup [op : {"expire"}, who : Channels, args : {<<>>}, done : BOOLEAN, reply : {<<>>}]
  \cup [op : {"range"}, who : Clients, args : Seq(0..Top), done : BOOLEAN,
        reply : Seq(SUBSET Ids)]
  \cup [op : {"mget"}, who : Clients, args : Seq(Ids), done : BOOLEAN, reply : Seq(Ids)]

TickType ==
  [op : {"saved"}, who : Messages, args : {<<>>}]
  \cup [op : {"loaded"}, who : Clients, args : Seq(Ids)]

Types ==
  /\ idOf \in [Messages -> 0..Top]
  /\ zset \in [Channels -> SUBSET Ids] /\ bodies \in SUBSET Ids /\ hasTTL \in SUBSET Channels
  /\ pipe \in [Processes -> Seq(RequestType)] /\ ticks \in [Processes -> Seq(TickType)]
  /\ startDate \in [Processes -> BOOLEAN]
  /\ relay \in [Processes -> [Processes -> Seq(Messages)]]
  /\ link \in [Clients -> {"off", "loading", "on", "answered"}]
  /\ home \in [Clients -> Processes] /\ inbox \in [Clients -> Seq(Ids)]
  /\ mid \in [Clients -> 0..Top] /\ got \in [Clients -> Seq(Ids)]
  /\ published \in SUBSET Messages /\ losses \in Nat /\ breaks \in Nat

(* Every id is given once, and the last one is the counter. *)
Numbering ==
  /\ Top # 0 => \E m \in Messages : idOf[m] = Top
  /\ \A m, n \in Messages : idOf[m] = idOf[n] /\ idOf[m] # 0 => m = n
  /\ \A m \in Messages : idOf[m] # 0 => m \in published

(* A message draws its id once, and has it from then on. *)
Draws(e) == e.op = "incr" /\ ~e.done
HasDrawn(e) == e.op \in MessageOps /\ ~Draws(e)

Drawing ==
  /\ \A p \in Processes : \A i \in DOMAIN pipe[p] :
       /\ Draws(pipe[p][i]) => idOf[pipe[p][i].who] = 0 /\ pipe[p][i].who \in published
       /\ HasDrawn(pipe[p][i]) => idOf[pipe[p][i].who] # 0
  /\ \A p, q \in Processes : \A i \in DOMAIN pipe[p], j \in DOMAIN pipe[q] :
       Draws(pipe[p][i]) /\ Draws(pipe[q][j]) /\ pipe[p][i].who = pipe[q][j].who
         => p = q /\ i = j
  /\ \A p \in Processes : \A i \in DOMAIN ticks[p] :
       ticks[p][i].op = "saved" => idOf[ticks[p][i].who] # 0

Relaying == \A p, q \in Processes : \A i \in DOMAIN relay[p][q] : idOf[relay[p][q][i]] # 0

(* Redis has executed a prefix of each pipeline. *)
Pipelined ==
  \A p \in Processes : \A i, j \in DOMAIN pipe[p] :
    i < j /\ pipe[p][j].done => pipe[p][i].done

(* A client that loads its missed messages does so in one place. *)
Loads(e) == e.op \in LoadOps

Loading ==
  /\ \A p \in Processes : \A i \in DOMAIN pipe[p] : Loads(pipe[p][i]) =>
       link[pipe[p][i].who] = "loading" /\ home[pipe[p][i].who] = p
  /\ \A p \in Processes : \A i \in DOMAIN ticks[p] : ticks[p][i].op = "loaded" =>
       link[ticks[p][i].who] = "loading" /\ home[ticks[p][i].who] = p
  /\ \A p \in Processes : \A i, j \in DOMAIN pipe[p] :
       Loads(pipe[p][i]) /\ Loads(pipe[p][j]) /\ pipe[p][i].who = pipe[p][j].who => i = j
  /\ \A p \in Processes : \A i, j \in DOMAIN ticks[p] :
       ticks[p][i].op = "loaded" /\ ticks[p][j].op = "loaded"
         /\ ticks[p][i].who = ticks[p][j].who => i = j
  /\ \A p \in Processes : \A i \in DOMAIN pipe[p], j \in DOMAIN ticks[p] :
       Loads(pipe[p][i]) /\ ticks[p][j].op = "loaded" => pipe[p][i].who # ticks[p][j].who

(* What is on its way to a client comes over its connection. *)
Waiting ==
  \A c \in Clients : inbox[c] # <<>> =>
    link[c] = "answered" \/ (link[c] = "on" /\ c \in Websockets)

Expiry == \A ch \in hasTTL : zset[ch] # {}

BaseInv ==
  /\ Types /\ Numbering /\ Drawing /\ Relaying /\ Pipelined /\ Loading /\ Waiting /\ Expiry

-----------------------------------------------------------------------------
(***************************************************************************)
(* Order, in a single process that knows the start date, when everything   *)
(* is stored and a client has a message from one channel only.             *)
(***************************************************************************)
OneProcess == \A p, q \in Processes : p = q
OneWay ==
  \A c \in Clients, m \in Messages :
    \A k, l \in DOMAIN Subscribed[c] : \A i, j \in DOMAIN To[m] :
      Subscribed[c][k] = To[m][i] /\ Subscribed[c][l] = To[m][j] => k = l /\ i = j

Sequential == OneProcess /\ Warm /\ Stored = Messages /\ OneWay

Id(e) == idOf[e.who]
Drawn(e) == e.op = "incr" /\ e.done
Saves(e) == e.op = "save"
Pends(e) == Drawn(e) \/ Saves(e)

(* Ids grow from what is put off, over what is saved, to what was drawn. *)
Queued ==
  \A p \in Processes :
    /\ \A i \in DOMAIN pipe[p] : pipe[p][i].op # "startdate"
    /\ \A i, j \in DOMAIN pipe[p] :
         \/ Saves(pipe[p][i]) /\ Drawn(pipe[p][j])
         \/ i < j /\ Saves(pipe[p][i]) /\ Saves(pipe[p][j])
         \/ i < j /\ Drawn(pipe[p][i]) /\ Drawn(pipe[p][j])
         => Id(pipe[p][i]) < Id(pipe[p][j])
    /\ \A i \in DOMAIN ticks[p] : ticks[p][i].op = "saved" =>
         /\ \A j \in DOMAIN ticks[p] :
              i < j /\ ticks[p][j].op = "saved" => Id(ticks[p][i]) < Id(ticks[p][j])
         /\ \A j \in DOMAIN pipe[p] : Pends(pipe[p][j]) => Id(ticks[p][i]) < Id(pipe[p][j])

Pending(p) ==
  {Id(pipe[p][i]) : i \in {j \in DOMAIN pipe[p] : Pends(pipe[p][j])}}
  \cup {Id(ticks[p][i]) : i \in {j \in DOMAIN ticks[p] : ticks[p][j].op = "saved"}}

(* What Redis holds was drawn before what it will hold. *)
Held ==
  \A p \in Processes : \A i \in DOMAIN pipe[p] :
    Drawn(pipe[p][i]) \/ (Saves(pipe[p][i]) /\ ~pipe[p][i].done) =>
      \A ch \in Channels : \A z \in zset[ch] : z < Id(pipe[p][i])

Addressed ==
  \A ch \in Channels : \A z \in zset[ch] :
    \E m \in Messages : idOf[m] = z /\ ch \in ToSet(To[m])

BelowPending(p, z) == \A j \in DOMAIN pipe[p] : Pends(pipe[p][j]) => z < Id(pipe[p][j])

(* What a replay brings is older than whatever is broadcast after it. *)
IdsRead(p, i) ==
  LET r == pipe[p][i] IN
  r.op = "range" =>
    /\ r.args = <<mid[r.who]>>
    /\ r.done =>
         /\ Disjoint(r.reply)
         /\ \A k \in DOMAIN r.reply : \A z \in r.reply[k] :
              /\ z > mid[r.who]
              /\ \A j \in DOMAIN pipe[p] :
                   Drawn(pipe[p][j]) \/ (Saves(pipe[p][j]) /\ j > i) => z < Id(pipe[p][j])

BodiesRead(p, i) ==
  LET r == pipe[p][i] IN
  r.op = "mget" =>
    /\ Ascends(r.args)
    /\ \A z \in ToSet(r.args) : z > mid[r.who] /\ BelowPending(p, z)
    /\ r.done => Ascends(r.reply) /\ ToSet(r.reply) \subseteq ToSet(r.args)

ReplayPutOff(p, i) ==
  LET t == ticks[p][i] IN
  t.op = "loaded" =>
    /\ Ascends(t.args)
    /\ \A z \in ToSet(t.args) :
         /\ z > mid[t.who] /\ BelowPending(p, z)
         /\ \A j \in DOMAIN ticks[p] : j > i /\ ticks[p][j].op = "saved" => z < Id(ticks[p][j])

Replays ==
  \A p \in Processes :
    /\ \A i \in DOMAIN pipe[p] : IdsRead(p, i) /\ BodiesRead(p, i)
    /\ \A i \in DOMAIN ticks[p] : ReplayPutOff(p, i)

(* What clients have seen is older than what will be broadcast. *)
Seen ==
  \A c \in Clients :
    /\ Ascends(got[c]) /\ Ascends(inbox[c])
    /\ \A z \in ToSet(got[c]) : z <= mid[c]
    /\ \A z \in ToSet(inbox[c]) : z > mid[c]
    /\ \A p \in Processes : \A z \in {mid[c]} \cup ToSet(inbox[c]) : \A y \in Pending(p) : z < y

Alone == \A p \in Processes : startDate[p] /\ relay[p][p] = <<>>

OrderInv == Queued /\ Held /\ Addressed /\ Replays /\ Seen /\ Alone

-----------------------------------------------------------------------------
(***************************************************************************)
(* The steps in terms of the queues: d entries leave the head of a         *)
(* pipeline and new ones are sent, e callbacks run and others are put off. *)
(***************************************************************************)
PipeMoves(p, d, new) ==
  /\ d = 1 => pipe[p] # <<>> /\ pipe[p][1].done
  /\ pipe' = [pipe EXCEPT ![p] = SubSeq(@, 1 + d, Len(@)) \o new]

TicksMove(p, e, put) ==
  /\ e = 1 => ticks[p] # <<>>
  /\ ticks' = [ticks EXCEPT ![p] = SubSeq(@, 1 + e, Len(@)) \o put]

QueueStep(p, d, new, e, put) == PipeMoves(p, d, new) /\ TicksMove(p, e, put) /\ idOf' = idOf

Store == <<zset, bodies, hasTTL>>
Ends == <<link, home, inbox, mid, got, sockets>>

Hit(p, m) ==
  {c \in Clients : /\ link[c] = "on" /\ home[c] = p /\ Copies(m, c) > 0
                   /\ c \in Websockets => active[c] \/ timer[c]}
Response(c, m) == [k \in 1..(IF c \in Websockets THEN Copies(m, c) ELSE 1) |-> idOf[m]]

(* What the sockets send, and what waits for their timers. *)
Counted(p, m) ==
  LET sent == Hit(p, m) \cap Websockets IN
  /\ active' = active
  /\ timer' = [c \in Clients |-> timer[c] \/ c \in sent]
  /\ batch' = [c \in Clients |->
       IF c \in sent THEN batch[c] + Copies(m, c) - (IF timer[c] THEN 0 ELSE 1)
                     ELSE batch[c]]

(* The connected clients of p get m. *)
Served(p, m) ==
  /\ link' = [c \in Clients |->
       IF c \in Hit(p, m) \ Websockets THEN "answered" ELSE link[c]]
  /\ inbox' = [c \in Clients |->
       IF c \in Hit(p, m) THEN inbox[c] \o Response(c, m) ELSE inbox[c]]
  /\ UNCHANGED <<home, mid, got>> /\ Counted(p, m)

Broadcasts(p, m) ==
  /\ Served(p, m)
  /\ relay' = [relay EXCEPT ![p] =
       [q \in Processes |-> IF q = p THEN @[q] ELSE Append(@[q], m)]]

(* Client c gets the messages it missed. *)
Told(c, ids) ==
  /\ inbox' = [inbox EXCEPT ![c] = @ \o ids]
  /\ link' = [link EXCEPT ![c] =
       IF ids # <<>> /\ c \notin Websockets THEN "answered" ELSE "on"]
  /\ timer' = [timer EXCEPT ![c] = c \in Websockets /\ ids # <<>>]
  /\ UNCHANGED <<home, mid, got, active, batch>>

LEMMA QueueEnds ==
  ASSUME NEW S, NEW q \in Seq(S), NEW e
  PROVE  /\ q = SubSeq(q, 1 + 0, Len(q)) \o <<>>
         /\ Append(q, e) = SubSeq(q, 1 + 0, Len(q)) \o <<e>>
         /\ q # <<>> => /\ Tail(q) = SubSeq(q, 1 + 1, Len(q)) \o <<>>
                        /\ Append(Tail(q), e) = SubSeq(q, 1 + 1, Len(q)) \o <<e>>
                        /\ Tail(q) = SubSeq(q, 1 + 1, Len(q))
                        /\ Head(q) = q[1] /\ 1 \in DOMAIN q
OBVIOUS

LEMMA HeadFacts ==
  ASSUME NEW p \in Processes, Types, pipe[p] # <<>>
  PROVE  /\ Head(pipe[p]) = pipe[p][1] /\ 1 \in DOMAIN pipe[p]
         /\ pipe[p][1] \in RequestType
BY DEF Types

LEMMA PipeForms ==
  ASSUME Types, NEW p \in Processes, NEW r
  PROVE  /\ pipe' = pipe => PipeMoves(p, 0, <<>>)
         /\ pipe' = [pipe EXCEPT ![p] = Append(@, r)] => PipeMoves(p, 0, <<r>>)
         /\ pipe[p] # <<>> /\ pipe[p][1].done =>
              /\ pipe' = [pipe EXCEPT ![p] = Tail(@)] => PipeMoves(p, 1, <<>>)
              /\ pipe' = [pipe EXCEPT ![p] = Append(Tail(@), r)] => PipeMoves(p, 1, <<r>>)
              /\ pipe' = [pipe EXCEPT ![p] = Tail(@) \o r] => PipeMoves(p, 1, r)
<1> DEFINE q == pipe[p]
           w(k, x) == SubSeq(q, 1 + k, Len(q)) \o x
<1>0. pipe[p] \in Seq(RequestType) /\ pipe = [pipe EXCEPT ![p] = q]
  BY DEF Types
<1>1. /\ q = w(0, <<>>) /\ Append(q, r) = w(0, <<r>>)
      /\ q # <<>> =>
           /\ Tail(q) = w(1, <<>>) /\ Append(Tail(q), r) = w(1, <<r>>)
           /\ Tail(q) \o r = w(1, r)
  BY <1>0, QueueEnds
<1>2. ASSUME NEW d \in {0, 1}, NEW x, pipe' = [pipe EXCEPT ![p] = w(d, x)],
             d = 1 => pipe[p] # <<>> /\ pipe[p][1].done
      PROVE  PipeMoves(p, d, x)
  BY <1>2 DEF PipeMoves
<1> HIDE DEF w
<1>3. /\ pipe' = pipe => pipe' = [pipe EXCEPT ![p] = w(0, <<>>)]
      /\ pipe' = [pipe EXCEPT ![p] = Append(q, r)] => pipe' = [pipe EXCEPT ![p] = w(0, <<r>>)]
      /\ q # <<>> =>
         /\ pipe' = [pipe EXCEPT ![p] = Tail(q)] => pipe' = [pipe EXCEPT ![p] = w(1, <<>>)]
         /\ pipe' = [pipe EXCEPT ![p] = Append(Tail(q), r)]
              => pipe' = [pipe EXCEPT ![p] = w(1, <<r>>)]
         /\ pipe' = [pipe EXCEPT ![p] = Tail(q) \o r] => pipe' = [pipe EXCEPT ![p] = w(1, r)]
  BY <1>0, <1>1
<1> QED BY <1>2, <1>3

LEMMA TickForms ==
  ASSUME Types, NEW p \in Processes, NEW t
  PROVE  /\ ticks' = ticks => TicksMove(p, 0, <<>>)
         /\ ticks' = [ticks EXCEPT ![p] = Append(@, t)] => TicksMove(p, 0, <<t>>)
         /\ ticks[p] # <<>> /\ ticks' = [ticks EXCEPT ![p] = Tail(@)] => TicksMove(p, 1, <<>>)
<1> DEFINE q == ticks[p]
           w(k, x) == SubSeq(q, 1 + k, Len(q)) \o x
<1>0. ticks[p] \in Seq(TickType) /\ ticks = [ticks EXCEPT ![p] = q]
  BY DEF Types
<1>1. /\ q = w(0, <<>>) /\ Append(q, t) = w(0, <<t>>)
      /\ q # <<>> => Tail(q) = w(1, <<>>)
  BY <1>0, QueueEnds
<1>2. ASSUME NEW e \in {0, 1}, NEW x, ticks' = [ticks EXCEPT ![p] = w(e, x)],
             e = 1 => ticks[p] # <<>>
      PROVE  TicksMove(p, e, x)
  BY <1>2 DEF TicksMove
<1> HIDE DEF w
<1>3. /\ ticks' = ticks => ticks' = [ticks EXCEPT ![p] = w(0, <<>>)]
      /\ ticks' = [ticks EXCEPT ![p] = Append(q, t)] => ticks' = [ticks EXCEPT ![p] = w(0, <<t>>)]
      /\ q # <<>> /\ ticks' = [ticks EXCEPT ![p] = Tail(q)]
           => ticks' = [ticks EXCEPT ![p] = w(1, <<>>)]
  BY <1>0, <1>1
<1> QED BY <1>2, <1>3

(* getMessageId: a message gets its id. *)
IdGiven(p, m) ==
  \/ /\ \E op \in {"save", "startdate"} :
           /\ op = "save" => m \in Stored
           /\ op = "startdate" => ~startDate[p]
           /\ QueueStep(p, 1, <<Request(op, m, <<>>)>>, 0, <<>>)
     /\ UNCHANGED <<Ends, relay>>
  \/ /\ m \notin Stored
     /\ QueueStep(p, 1, <<>>, 0, <<>>) /\ Broadcasts(p, m)

(* A broadcast by the callback of a reply, and by that of the start date. *)
LEMMA PoppedBroadcast ==
  ASSUME Types, NEW p \in Processes, NEW m,
         Becomes(Broadcast(Popped(p), p, m))
  PROVE  Broadcasts(p, m)
<1>1. /\ link' = [c \in Clients |->
             IF c \in Hit(p, m) \ Websockets THEN "answered" ELSE link[c]]
      /\ inbox' = [c \in Clients |->
             IF c \in Hit(p, m) THEN inbox[c] \o Response(c, m) ELSE inbox[c]]
      /\ UNCHANGED <<home, mid, got>>
  BY DEF Becomes, Broadcast, LocalBroadcast, Popped, State, Hit, Takes, Response, IsOn, Types
<1>2. Counted(p, m)
  BY DEF Becomes, Broadcast, LocalBroadcast, Popped, State, Hit, Takes, Counted, IsOn
<1>3. relay' = [relay EXCEPT ![p] =
        [q \in Processes |-> IF q = p THEN @[q] ELSE Append(@[q], m)]]
  BY DEF Becomes, Broadcast, LocalBroadcast, Popped, State
<1> QED BY <1>1, <1>2, <1>3 DEF Served, Broadcasts

LEMMA DatedBroadcast ==
  ASSUME Types, NEW p \in Processes, NEW m,
         Becomes(Broadcast([Popped(p) EXCEPT !.startDate[p] = TRUE], p, m))
  PROVE  Broadcasts(p, m)
<1>1. /\ link' = [c \in Clients |->
             IF c \in Hit(p, m) \ Websockets THEN "answered" ELSE link[c]]
      /\ inbox' = [c \in Clients |->
             IF c \in Hit(p, m) THEN inbox[c] \o Response(c, m) ELSE inbox[c]]
      /\ UNCHANGED <<home, mid, got>>
  <2>1. link' = [c \in Clients |->
             IF c \in Hit(p, m) \ Websockets THEN "answered" ELSE link[c]]
    BY DEF Becomes, Broadcast, LocalBroadcast, Popped, State, Hit, Takes, IsOn
  <2>2. inbox' = [c \in Clients |->
             IF c \in Hit(p, m) THEN inbox[c] \o Response(c, m) ELSE inbox[c]]
    BY DEF Becomes, Broadcast, LocalBroadcast, Popped, State, Hit, Takes, Response, IsOn
  <2>3. UNCHANGED <<home, mid, got>>
    BY DEF Becomes, Broadcast, LocalBroadcast, Popped, State
  <2> QED BY <2>1, <2>2, <2>3
<1>2. Counted(p, m)
  BY DEF Becomes, Broadcast, LocalBroadcast, Popped, State, Hit, Takes, Counted, IsOn
<1>3. relay' = [relay EXCEPT ![p] =
        [q \in Processes |-> IF q = p THEN @[q] ELSE Append(@[q], m)]]
  BY DEF Becomes, Broadcast, LocalBroadcast, Popped, State
<1> QED BY <1>1, <1>2, <1>3 DEF Served, Broadcasts

LEMMA HasIdForm ==
  ASSUME Types, NEW p \in Processes, NEW m, NEW x, pipe[p] # <<>>, pipe[p][1].done,
         x = Popped(p) \/ x = [Popped(p) EXCEPT !.startDate[p] = TRUE],
         Becomes(HasId(x, p, m))
  PROVE  IdGiven(p, m) /\ startDate' = x.startDate /\ UNCHANGED Store
<1>1. CASE m \in Stored
  <2>1. pipe' = [pipe EXCEPT ![p] = Append(Tail(@), Request("save", m, <<>>))]
    <3>1. CASE x = Popped(p)
      BY <1>1, <3>1 DEF HasId, Becomes, SendRequest, Popped, State, Types
    <3>2. CASE x = [Popped(p) EXCEPT !.startDate[p] = TRUE]
      BY <1>1, <3>2 DEF HasId, Becomes, SendRequest, Popped, State, Types
    <3> QED BY <3>1, <3>2
  <2>2. UNCHANGED <<idOf, ticks, Store, Ends, relay>> /\ startDate' = x.startDate
    BY <1>1 DEF HasId, Becomes, SendRequest, Popped, State, Store, Ends, sockets
  <2> QED BY <1>1, <2>1, <2>2, PipeForms, TickForms DEF QueueStep, IdGiven
<1>2. CASE m \notin Stored
  <2>1. pipe' = [pipe EXCEPT ![p] = Tail(@)]
    BY <1>2 DEF HasId, Becomes, Broadcast, LocalBroadcast, Popped, State, Types
  <2>2. UNCHANGED <<idOf, ticks, Store>> /\ startDate' = x.startDate
    BY <1>2 DEF HasId, Becomes, Broadcast, LocalBroadcast, Popped, State, Store
  <2>3. Broadcasts(p, m)
    <3>1. CASE x = Popped(p)
      <4>1. Becomes(Broadcast(Popped(p), p, m))
        BY <1>2, <3>1 DEF HasId
      <4> QED BY <4>1, PoppedBroadcast
    <3>2. CASE x = [Popped(p) EXCEPT !.startDate[p] = TRUE]
      <4>1. Becomes(Broadcast([Popped(p) EXCEPT !.startDate[p] = TRUE], p, m))
        BY <1>2, <3>2 DEF HasId
      <4> QED BY <4>1, DatedBroadcast
    <3> QED BY <3>1, <3>2
  <2> QED BY <1>2, <2>1, <2>2, <2>3, PipeForms, TickForms DEF QueueStep, IdGiven
<1> QED BY <1>1, <1>2

LEMMA IncrForm ==
  ASSUME Types, NEW p \in Processes, IncrReplied(p)
  PROVE  /\ pipe[p] # <<>> /\ pipe[p][1].op = "incr" /\ pipe[p][1].done
         /\ IdGiven(p, pipe[p][1].who) /\ UNCHANGED <<Store, startDate, bounds>>
<1> DEFINE m == pipe[p][1].who
<1>1. /\ pipe[p] # <<>> /\ pipe[p][1].op = "incr" /\ pipe[p][1].done /\ Who(p) = m
  BY HeadFacts DEF IncrReplied, Answered, Who
<1>2. CASE startDate[p]
  <2>1. Popped(p).startDate = startDate
    BY DEF Popped, State
  <2> QED BY <1>1, <1>2, <2>1, HasIdForm DEF IncrReplied
<1>3. CASE ~startDate[p]
  <2> DEFINE r == Request("startdate", m, <<>>)
  <2>1. pipe' = [pipe EXCEPT ![p] = Append(Tail(@), r)]
    BY <1>1, <1>3 DEF IncrReplied, Becomes, SendRequest, Popped, State, Types
  <2>2. UNCHANGED <<idOf, ticks, Store, startDate, Ends, relay>>
    BY <1>1, <1>3 DEF IncrReplied, Becomes, SendRequest, Popped, State, Store, Ends, sockets
  <2>3. QueueStep(p, 1, <<r>>, 0, <<>>)
    BY <1>1, <2>1, <2>2, PipeForms, TickForms DEF QueueStep
  <2> QED BY <1>1, <1>3, <2>2, <2>3 DEF IdGiven, IncrReplied
<1> QED BY <1>2, <1>3

LEMMA StartDateForm ==
  ASSUME Types, NEW p \in Processes, StartDateReplied(p)
  PROVE  /\ pipe[p] # <<>> /\ pipe[p][1].op = "startdate" /\ pipe[p][1].done
         /\ IdGiven(p, pipe[p][1].who) /\ UNCHANGED <<Store, bounds>>
         /\ startDate' = [startDate EXCEPT ![p] = TRUE]
<1> DEFINE m == pipe[p][1].who
<1>1. /\ pipe[p] # <<>> /\ pipe[p][1].op = "startdate" /\ pipe[p][1].done /\ Who(p) = m
  BY HeadFacts DEF StartDateReplied, Answered, Who
<1>2. [Popped(p) EXCEPT !.startDate[p] = TRUE].startDate = [startDate EXCEPT ![p] = TRUE]
  BY DEF Popped, State
<1> QED BY <1>1, <1>2, HasIdForm DEF StartDateReplied

LEMMA SavedForm ==
  ASSUME Types, NEW p \in Processes, Saved(p)
  PROVE  LET m == pipe[p][1].who IN
         /\ pipe[p] # <<>> /\ pipe[p][1].op = "save" /\ pipe[p][1].done
         /\ QueueStep(p, 1, <<Request("ttl", m, <<>>)>>,
                         0, <<[op |-> "saved", who |-> m, args |-> <<>>]>>)
         /\ UNCHANGED <<Store, Ends, startDate, relay, bounds>>
<1> DEFINE m == pipe[p][1].who
           t == [op |-> "saved", who |-> m, args |-> <<>>]
           r == Request("ttl", m, <<>>)
<1>1. /\ pipe[p] # <<>> /\ pipe[p][1].op = "save" /\ pipe[p][1].done /\ Who(p) = m
  BY HeadFacts DEF Saved, Answered, Who
<1>2. pipe' = [pipe EXCEPT ![p] = Append(Tail(@), r)]
  BY <1>1 DEF Saved, Becomes, SendRequest, Popped, State, Types
<1>3. ticks' = [ticks EXCEPT ![p] = Append(@, t)]
  BY <1>1 DEF Saved, Becomes, SendRequest, Popped, State, Types
<1>4. UNCHANGED <<idOf, Store, startDate, Ends, relay, bounds>>
  BY <1>1 DEF Saved, Becomes, SendRequest, Popped, State, Store, Ends, sockets, bounds
<1> QED BY <1>1, <1>2, <1>3, <1>4, PipeForms, TickForms DEF QueueStep

LEMMA TTLForm ==
  ASSUME Types, NEW p \in Processes, TTLReplied(p)
  PROVE  LET chs == pipe[p][1].reply IN
         /\ pipe[p] # <<>> /\ pipe[p][1].op = "ttl" /\ pipe[p][1].done
         /\ QueueStep(p, 1, [k \in DOMAIN chs |-> Request("expire", chs[k], <<>>)], 0, <<>>)
         /\ UNCHANGED <<Store, Ends, startDate, relay, bounds>>
<1> DEFINE chs == pipe[p][1].reply
           new == [k \in DOMAIN chs |-> Request("expire", chs[k], <<>>)]
<1>1. /\ pipe[p] # <<>> /\ pipe[p][1].op = "ttl" /\ pipe[p][1].done /\ ReplyOf(p) = chs
  BY HeadFacts DEF TTLReplied, Answered, ReplyOf
<1>2. pipe' = [pipe EXCEPT ![p] = Tail(@) \o new]
  BY <1>1 DEF TTLReplied, Becomes, Popped, State, Types
<1>4. UNCHANGED <<idOf, ticks, Store, startDate, Ends, relay, bounds>>
  BY <1>1 DEF TTLReplied, Becomes, Popped, State, Store, Ends, sockets, bounds
<1> QED BY <1>1, <1>2, <1>4, PipeForms, TickForms DEF QueueStep

LEMMA ExpireForm ==
  ASSUME Types, NEW p \in Processes, ExpireReplied(p)
  PROVE  /\ QueueStep(p, 1, <<>>, 0, <<>>)
         /\ UNCHANGED <<Store, Ends, startDate, relay, bounds>>
         /\ pipe[p] # <<>> /\ pipe[p][1].op = "expire"
<1>1. /\ pipe[p] # <<>> /\ pipe[p][1].done /\ pipe[p][1].op = "expire"
  BY HeadFacts DEF ExpireReplied, Answered
<1>2. pipe' = [pipe EXCEPT ![p] = Tail(@)]
  BY <1>1 DEF ExpireReplied, Becomes, Popped, State, Types
<1>4. UNCHANGED <<idOf, ticks, Store, startDate, Ends, relay, bounds>>
  BY <1>1 DEF ExpireReplied, Becomes, Popped, State, Store, Ends, sockets, bounds
<1> QED BY <1>1, <1>2, <1>4, PipeForms, TickForms DEF QueueStep

LEMMA RangeForm ==
  ASSUME Types, NEW p \in Processes, RangeReplied(p)
  PROVE  LET c == pipe[p][1].who
             ids == LastOnes(Sorted(pipe[p][1].reply), ReplayLimit) IN
         /\ pipe[p] # <<>> /\ pipe[p][1].op = "range" /\ pipe[p][1].done
         /\ UNCHANGED <<Store, startDate, relay, bounds>>
         /\ \/ /\ ids # <<>>
               /\ QueueStep(p, 1, <<Request("mget", c, ids)>>, 0, <<>>) /\ UNCHANGED Ends
            \/ /\ ids = <<>>
               /\ QueueStep(p, 1, <<>>, 0, <<>>) /\ Told(c, <<>>)
<1> DEFINE c == pipe[p][1].who
           ids == LastOnes(Sorted(pipe[p][1].reply), ReplayLimit)
           r == Request("mget", c, ids)
<1>1. /\ pipe[p] # <<>> /\ pipe[p][1].op = "range" /\ pipe[p][1].done /\ Who(p) = c
      /\ LastOnes(Sorted(ReplyOf(p)), ReplayLimit) = ids
  BY HeadFacts DEF RangeReplied, Answered, Who, ReplyOf
<1> HIDE DEF ids
<1>2. CASE ids # <<>>
  <2>0. Becomes(SendRequest(Popped(p), p, r)) /\ UNCHANGED bounds
    BY <1>1, <1>2 DEF RangeReplied
  <2>1. pipe' = [pipe EXCEPT ![p] = Append(Tail(@), r)]
    BY <2>0 DEF Becomes, SendRequest, Popped, State, Types
  <2>2. UNCHANGED <<idOf, ticks, Store, startDate, Ends, relay, bounds>>
    BY <2>0 DEF Becomes, SendRequest, Popped, State, Store, Ends, sockets, bounds
  <2>3. QueueStep(p, 1, <<r>>, 0, <<>>)
    BY <1>1, <2>1, <2>2, PipeForms, TickForms DEF QueueStep
  <2> QED BY <1>1, <1>2, <2>2, <2>3 DEF ids
<1>3. CASE ids = <<>>
  <2>0. Becomes(Loaded(Popped(p), c, <<>>)) /\ UNCHANGED bounds
    BY <1>1, <1>3 DEF RangeReplied
  <2>1. pipe' = [pipe EXCEPT ![p] = Tail(@)]
    BY <2>0 DEF Becomes, Loaded, Popped, State, Types
  <2>2. UNCHANGED <<idOf, ticks, Store, startDate, relay, bounds>>
    BY <2>0 DEF Becomes, Loaded, Popped, State, Store, bounds
  <2>3. Told(c, <<>>)
    BY <2>0 DEF Becomes, Loaded, Popped, State, Told, Types
  <2>4. QueueStep(p, 1, <<>>, 0, <<>>)
    BY <1>1, <2>1, <2>2, PipeForms, TickForms DEF QueueStep
  <2> QED BY <1>1, <1>3, <2>2, <2>3, <2>4 DEF ids
<1> QED BY <1>2, <1>3

LEMMA MessagesForm ==
  ASSUME Types, NEW p \in Processes, MessagesReplied(p)
  PROVE  LET c == pipe[p][1].who
             t == [op |-> "loaded", who |-> c, args |-> pipe[p][1].reply] IN
         /\ pipe[p] # <<>> /\ pipe[p][1].op = "mget" /\ pipe[p][1].done
         /\ QueueStep(p, 1, <<>>, 0, <<t>>)
         /\ UNCHANGED <<Store, Ends, startDate, relay, bounds>>
<1> DEFINE c == pipe[p][1].who
           t == [op |-> "loaded", who |-> c, args |-> pipe[p][1].reply]
<1>1. /\ pipe[p] # <<>> /\ pipe[p][1].op = "mget" /\ pipe[p][1].done /\ Who(p) = c
      /\ ReplyOf(p) = pipe[p][1].reply
  BY HeadFacts DEF MessagesReplied, Answered, Who, ReplyOf
<1>2. pipe' = [pipe EXCEPT ![p] = Tail(@)]
  BY <1>1 DEF MessagesReplied, Becomes, Popped, State, Types
<1>3. ticks' = [ticks EXCEPT ![p] = Append(@, t)]
  BY <1>1 DEF MessagesReplied, Becomes, Popped, State, Types
<1>4. UNCHANGED <<idOf, Store, startDate, Ends, relay, bounds>>
  BY <1>1 DEF MessagesReplied, Becomes, Popped, State, Store, Ends, sockets, bounds
<1> QED BY <1>1, <1>2, <1>3, <1>4, PipeForms, TickForms DEF QueueStep

LEMMA TickForm ==
  ASSUME Types, NEW p \in Processes, Tick(p)
  PROVE  LET t == ticks[p][1] IN
         /\ ticks[p] # <<>> /\ QueueStep(p, 0, <<>>, 1, <<>>)
         /\ UNCHANGED <<Store, startDate, bounds>>
         /\ \/ t.op = "saved" /\ Broadcasts(p, t.who)
            \/ t.op = "loaded" /\ Told(t.who, t.args) /\ UNCHANGED relay
<1> DEFINE t == ticks[p][1]
           s == [State EXCEPT !.ticks[p] = Tail(@)]
<1>1. /\ ticks[p] # <<>> /\ Head(ticks[p]) = t /\ t \in TickType
      /\ Becomes(IF t.op = "saved" THEN Broadcast(s, p, t.who) ELSE Loaded(s, t.who, t.args))
      /\ UNCHANGED bounds
  BY DEF Tick, Types
<1>2. t.op \in {"saved", "loaded"}
  BY <1>1 DEF TickType
<1> HIDE DEF t
<1>3. CASE t.op = "saved"
  <2>0. Becomes(Broadcast(s, p, t.who))
    BY <1>1, <1>3
  <2>1. ticks' = [ticks EXCEPT ![p] = Tail(@)] /\ pipe' = pipe
    BY <2>0 DEF Becomes, Broadcast, LocalBroadcast, State, Types
  <2>2. UNCHANGED <<idOf, Store, startDate>>
    BY <2>0 DEF Becomes, Broadcast, LocalBroadcast, State, Store
  <2>3. Broadcasts(p, t.who)
    <3>1. /\ link' = [c \in Clients |->
                 IF c \in Hit(p, t.who) \ Websockets THEN "answered" ELSE link[c]]
          /\ inbox' = [c \in Clients |->
                 IF c \in Hit(p, t.who) THEN inbox[c] \o Response(c, t.who) ELSE inbox[c]]
          /\ UNCHANGED <<home, mid, got>>
      BY <2>0 DEF Becomes, Broadcast, LocalBroadcast, State, Hit, Takes, Response, IsOn, Types
    <3>2. Counted(p, t.who)
      BY <2>0 DEF Becomes, Broadcast, LocalBroadcast, State, Hit, Takes, Counted, IsOn
    <3>3. relay' = [relay EXCEPT ![p] =
            [q \in Processes |-> IF q = p THEN @[q] ELSE Append(@[q], t.who)]]
      BY <2>0 DEF Becomes, Broadcast, LocalBroadcast, State
    <3> QED BY <3>1, <3>2, <3>3 DEF Served, Broadcasts
  <2>4. QueueStep(p, 0, <<>>, 1, <<>>)
    BY <1>1, <2>1, <2>2, PipeForms, TickForms DEF QueueStep
  <2> QED BY <1>1, <1>3, <2>2, <2>3, <2>4 DEF t
<1>4. CASE t.op = "loaded"
  <2>0. Becomes(Loaded(s, t.who, t.args))
    BY <1>1, <1>4
  <2>1. ticks' = [ticks EXCEPT ![p] = Tail(@)] /\ pipe' = pipe
    BY <2>0 DEF Becomes, Loaded, State, Types
  <2>2. UNCHANGED <<idOf, Store, startDate, relay>>
    BY <2>0 DEF Becomes, Loaded, State, Store
  <2>3. Told(t.who, t.args)
    BY <2>0 DEF Becomes, Loaded, State, Told, Types
  <2>4. QueueStep(p, 0, <<>>, 1, <<>>)
    BY <1>1, <2>1, <2>2, PipeForms, TickForms DEF QueueStep
  <2> QED BY <1>1, <1>4, <2>2, <2>3, <2>4 DEF t
<1> QED BY <1>2, <1>3, <1>4

LEMMA PublishForm ==
  ASSUME Types, NEW m \in Messages, NEW p \in Processes, Publish(m, p)
  PROVE  /\ m \notin published /\ published' = published \cup {m} /\ ticks[p] = <<>>
         /\ QueueStep(p, 0, <<Request("incr", m, <<>>)>>, 0, <<>>)
         /\ UNCHANGED <<Store, Ends, startDate, relay, losses, breaks>>
<1>1. pipe' = [pipe EXCEPT ![p] = Append(@, Request("incr", m, <<>>))]
  BY DEF Publish, Becomes, SendRequest, State, Types
<1>2. UNCHANGED <<idOf, ticks, Store, startDate, Ends, relay, losses, breaks>>
  BY DEF Publish, Becomes, SendRequest, State, Store, Ends, sockets
<1> QED BY <1>1, <1>2, PipeForms, TickForms DEF QueueStep, Publish

LEMMA RelayedForm ==
  ASSUME Types, NEW p \in Processes, NEW q \in Processes, Relayed(p, q)
  PROVE  /\ relay[p][q] # <<>> /\ Served(q, relay[p][q][1])
         /\ relay' = [relay EXCEPT ![p][q] = Tail(@)]
         /\ UNCHANGED <<idOf, pipe, ticks, Store, startDate, bounds>>
<1>1. Head(relay[p][q]) = relay[p][q][1] /\ relay[p][q] # <<>>
  BY DEF Relayed, Types
<1>2. relay' = [relay EXCEPT ![p][q] = Tail(@)]
  BY DEF Relayed, Becomes, LocalBroadcast, State, Types
<1>3. UNCHANGED <<idOf, pipe, ticks, Store, startDate, bounds>>
  BY DEF Relayed, Becomes, LocalBroadcast, State, Store
<1>4. Served(q, relay[p][q][1])
  BY <1>1 DEF Relayed, Becomes, LocalBroadcast, State, Served, Hit, Counted, Takes, Response,
               IsOn, Types
<1> QED BY <1>1, <1>2, <1>3, <1>4

LEMMA ConnectForm ==
  ASSUME Types, NEW c \in Clients, NEW p \in Processes, Connect(c, p)
  PROVE  /\ link[c] = "off" /\ ticks[p] = <<>>
         /\ link' = [link EXCEPT ![c] = "loading"] /\ home' = [home EXCEPT ![c] = p]
         /\ QueueStep(p, 0, <<Request("range", c, <<mid[c]>>)>>, 0, <<>>)
         /\ UNCHANGED <<Store, inbox, mid, got, sockets, startDate, relay, bounds>>
<1>1. pipe' = [pipe EXCEPT ![p] = Append(@, Request("range", c, <<mid[c]>>))]
  BY DEF Connect, Becomes, SendRequest, State, Types
<1>2. UNCHANGED <<idOf, ticks, Store, startDate, inbox, mid, got, sockets, relay, bounds>>
  BY DEF Connect, Becomes, SendRequest, State, Store, sockets, bounds
<1>3. link' = [link EXCEPT ![c] = "loading"] /\ home' = [home EXCEPT ![c] = p]
  BY DEF Connect, Becomes, SendRequest, State, Types
<1> QED BY <1>1, <1>2, <1>3, PipeForms, TickForms DEF QueueStep, Connect

(* The steps at the ends leave the queues alone. *)
Still == UNCHANGED <<idOf, Store, pipe, ticks, startDate, relay, published>>

LEMMA TimeoutForm ==
  ASSUME Types, NEW c \in Clients, PollTimeout(c)
  PROVE  /\ c \notin Websockets /\ link[c] = "on"
         /\ link' = [link EXCEPT ![c] = "off"]
         /\ Still /\ UNCHANGED <<home, inbox, mid, got, sockets, losses, breaks>>
BY DEF PollTimeout, Becomes, State, Store, Still, sockets, bounds, Types

(* The sockets: the batch is the end of the inbox, and waits for a timer; *)
(* only a registered websocket has a timer and pings.                     *)
Idle(c) == active[c] /\ ~timer[c]

Sockets ==
  /\ active \in [Clients -> BOOLEAN] /\ timer \in [Clients -> BOOLEAN]
  /\ batch \in [Clients -> Nat]
  /\ \A c \in Clients : /\ batch[c] <= Len(inbox[c])
                        /\ batch[c] > 0 => timer[c]
                        /\ (c \in Websockets /\ link[c] = "on") \/ Idle(c)

(***************************************************************************)
(* Client c loses all but the first n responses on their way to it: its    *)
(* connection breaks or is terminated, an inactive websocket drops its     *)
(* batch, or a ping and a pong leave everything alone.                     *)
(***************************************************************************)
CutOff(c) ==
  /\ link[c] \in {"on", "answered"} /\ link' = [link EXCEPT ![c] = "off"]
  /\ active' = [active EXCEPT ![c] = TRUE]
  /\ timer' = [timer EXCEPT ![c] = FALSE] /\ batch' = [batch EXCEPT ![c] = 0]

Cut(c, n) ==
  /\ n \in 0..Len(inbox[c])
  /\ inbox' = [inbox EXCEPT ![c] = SubSeq(@, 1, n)]
  /\ \/ n = 0 /\ CutOff(c)
     \/ /\ c \in Websockets /\ link[c] = "on" /\ link' = link /\ active' = active
        /\ timer' = [timer EXCEPT ![c] = FALSE] /\ batch' = [batch EXCEPT ![c] = 0]
     \/ /\ c \in Websockets /\ link[c] = "on" /\ link' = link
        /\ n = Len(inbox[c]) /\ timer' = timer /\ batch' = batch
        /\ \E b \in BOOLEAN : active' = [active EXCEPT ![c] = b]
  /\ Still /\ UNCHANGED <<home, mid, got, losses>> /\ breaks' \in {breaks, breaks + 1}

LEMMA CutForm ==
  ASSUME Types, Sockets, NEW c \in Clients,
         Break(c) \/ SendBuffer(c) \/ Ping(c) \/ Pong(c)
  PROVE  \E n \in Nat : Cut(c, n)
<1>1. inbox[c] \in Seq(Ids) /\ Len(inbox[c]) \in Nat /\ batch[c] \in 0..Len(inbox[c])
  BY DEF Types, Sockets
<1>2. SubSeq(inbox[c], 1, 0) = <<>> /\ SubSeq(inbox[c], 1, Len(inbox[c])) = inbox[c]
  BY <1>1
<1>3. inbox = [inbox EXCEPT ![c] = inbox[c]]
  BY DEF Types
<1>4. ASSUME Becomes(Gone(State, c)), link[c] \in {"on", "answered"},
             UNCHANGED <<published, losses>>, breaks' \in {breaks, breaks + 1}
      PROVE  Cut(c, 0)
  <2>1. inbox' = [inbox EXCEPT ![c] = SubSeq(@, 1, 0)]
    BY <1>2, <1>4 DEF Becomes, Gone, State
  <2>2. CutOff(c)
    BY <1>4 DEF Becomes, Gone, State, CutOff
  <2>3. Still /\ UNCHANGED <<home, mid, got, losses>>
    BY <1>4 DEF Becomes, Gone, State, Still, Store
  <2> QED BY <1>1, <1>4, <2>1, <2>2, <2>3 DEF Cut
<1>5. CASE Break(c)
  BY <1>4, <1>5 DEF Break
<1>6. CASE Ping(c) /\ ~active[c]
  BY <1>4, <1>6 DEF Ping, bounds
<1>7. ASSUME NEW b \in BOOLEAN, Becomes([State EXCEPT !.active[c] = b]), UNCHANGED bounds,
             c \in Websockets, link[c] = "on"
      PROVE  Cut(c, Len(inbox[c]))
  <2> DEFINE n == Len(inbox[c])
  <2>1. inbox' = [inbox EXCEPT ![c] = SubSeq(@, 1, n)] /\ n = Len(inbox[c])
    BY <1>2, <1>3, <1>7 DEF Becomes, State
  <2>2. /\ link' = link /\ timer' = timer /\ batch' = batch
        /\ active' = [active EXCEPT ![c] = b]
    BY <1>7 DEF Becomes, State
  <2>3. Still /\ UNCHANGED <<home, mid, got, losses, breaks>>
    BY <1>7 DEF Becomes, State, Still, Store, bounds
  <2>4. n \in 0..Len(inbox[c])
    BY <1>1
  <2> HIDE DEF n
  <2>5. Cut(c, n)
    BY <1>7, <2>1, <2>2, <2>3, <2>4 DEF Cut
  <2> QED BY <2>5 DEF n
<1>8. CASE Ping(c) /\ active[c]
  BY <1>1, <1>7, <1>8 DEF Ping
<1>9. CASE Pong(c)
  <2>1. c \in Websockets /\ link[c] = "on"
    BY <1>9 DEF Pong, Sockets, Idle
  <2> QED BY <1>1, <1>7, <1>9, <2>1 DEF Pong
<1>10. CASE SendBuffer(c)
  <2> DEFINE n == IF active[c] THEN Len(inbox[c]) ELSE Len(inbox[c]) - batch[c]
  <2>1. n \in 0..Len(inbox[c]) /\ n \in Nat
    BY <1>1
  <2>2. inbox' = [inbox EXCEPT ![c] = SubSeq(@, 1, n)]
    <3>1. CASE active[c]
      BY <1>2, <1>10, <3>1 DEF SendBuffer, Becomes, State
    <3>2. CASE ~active[c]
      BY <1>10, <3>2 DEF SendBuffer, Becomes, State
    <3> QED BY <3>1, <3>2
  <2>3. /\ link' = link /\ active' = active
        /\ timer' = [timer EXCEPT ![c] = FALSE] /\ batch' = [batch EXCEPT ![c] = 0]
        /\ c \in Websockets /\ link[c] = "on"
    BY <1>10 DEF SendBuffer, Becomes, State, Sockets, Idle
  <2>4. Still /\ UNCHANGED <<home, mid, got, losses, breaks>>
    BY <1>10 DEF SendBuffer, Becomes, State, Still, Store, bounds
  <2> HIDE DEF n
  <2>5. Cut(c, n)
    BY <2>1, <2>2, <2>3, <2>4 DEF Cut
  <2> QED BY <2>1, <2>5
<1> QED BY <1>1, <1>5, <1>6, <1>8, <1>9, <1>10

(* What a cut leaves to the clients. *)
LEMMA CutFacts ==
  ASSUME Types, NEW c \in Clients, NEW n \in Nat, Cut(c, n)
  PROVE  /\ \/ link' = link
            \/ /\ link' = [link EXCEPT ![c] = "off"]
               /\ link[c] \in {"on", "answered"} /\ inbox'[c] = <<>>
         /\ inbox' \in [Clients -> Seq(Ids)]
         /\ inbox'[c] = SubSeq(inbox[c], 1, n) /\ Len(inbox'[c]) = n
         /\ \A b \in Clients : b # c => inbox'[b] = inbox[b]
         /\ inbox[c] = <<>> => inbox'[c] = <<>>
<1>1. inbox[c] \in Seq(Ids) /\ n \in 0..Len(inbox[c]) /\ Len(inbox[c]) \in Nat
  BY DEF Types, Cut
<1>2. /\ SubSeq(inbox[c], 1, n) \in Seq(Ids) /\ Len(SubSeq(inbox[c], 1, n)) = n
      /\ n = 0 => SubSeq(inbox[c], 1, n) = <<>>
  BY <1>1
<1>3. /\ inbox'[c] = SubSeq(inbox[c], 1, n) /\ inbox' \in [Clients -> Seq(Ids)]
      /\ \A b \in Clients : b # c => inbox'[b] = inbox[b]
  BY <1>2 DEF Types, Cut
<1>4. inbox[c] = <<>> => n = 0
  BY <1>1
<1> QED BY <1>2, <1>3, <1>4 DEF Cut, CutOff

(* The subscription to Redis is lost, with what was on its way. *)
LEMMA RelayLostForm ==
  ASSUME Types, NEW p \in Processes, NEW q \in Processes, RelayLost(p, q)
  PROVE  /\ relay' = [relay EXCEPT ![p][q] = <<>>] /\ relay[p][q] # <<>>
         /\ losses' = losses + 1
         /\ UNCHANGED <<idOf, Store, pipe, ticks, startDate, link, home, inbox, mid, got,
                        sockets, published, breaks>>
BY DEF RelayLost, Store, sockets

LEMMA ReceiveForm ==
  ASSUME Types, Sockets, NEW c \in Clients, Receive(c)
  PROVE  LET n == IF c \in Websockets THEN 1 ELSE Len(inbox[c]) IN
         /\ inbox[c] # <<>>
         /\ got' = [got EXCEPT ![c] = @ \o SubSeq(inbox[c], 1, n)]
         /\ inbox' = [inbox EXCEPT ![c] = SubSeq(@, n + 1, Len(@))]
         /\ mid' = [mid EXCEPT ![c] = inbox[c][n]]
         /\ link' = [link EXCEPT ![c] = IF c \in Websockets THEN @ ELSE "off"]
         /\ Still /\ UNCHANGED <<home, sockets, losses, breaks>>
<1> DEFINE n == IF c \in Websockets THEN 1 ELSE Len(inbox[c])
           some == IF c \in Websockets THEN <<Head(inbox[c])>> ELSE inbox[c]
<1>1. inbox[c] # <<>> /\ inbox[c] \in Seq(Ids)
  <2>1. Len(inbox[c]) > batch[c] /\ batch[c] \in Nat /\ inbox[c] \in Seq(Ids)
    BY DEF Receive, Types, Sockets
  <2> QED BY <2>1
<1>2. some = SubSeq(inbox[c], 1, n) /\ Len(some) = n /\ Last(some) = inbox[c][n]
  <2>1. ASSUME NEW S, NEW q \in Seq(S), q # <<>>
        PROVE  /\ <<Head(q)>> = SubSeq(q, 1, 1) /\ Len(<<Head(q)>>) = 1
               /\ <<Head(q)>>[1] = q[1] /\ Head(q) = q[1]
               /\ q = SubSeq(q, 1, Len(q))
    BY <2>1
  <2>2. CASE c \in Websockets
    BY <1>1, <2>1, <2>2 DEF Last
  <2>3. CASE c \notin Websockets
    BY <1>1, <2>1, <2>3 DEF Last
  <2> QED BY <2>2, <2>3
<1>3. /\ Becomes([State EXCEPT !.inbox[c] = SubSeq(@, Len(some) + 1, Len(@)),
                               !.got[c] = @ \o some, !.mid[c] = Last(some),
                               !.link[c] = IF c \in Websockets THEN @ ELSE "off"])
      /\ UNCHANGED bounds
  BY DEF Receive
<1> HIDE DEF some, n
<1>4. /\ got' = [got EXCEPT ![c] = @ \o some] /\ mid' = [mid EXCEPT ![c] = Last(some)]
      /\ inbox' = [inbox EXCEPT ![c] = SubSeq(@, Len(some) + 1, Len(@))]
      /\ link' = [link EXCEPT ![c] = IF c \in Websockets THEN @ ELSE "off"]
  BY <1>3 DEF Becomes, State, Types
<1>5. Still /\ UNCHANGED <<home, sockets, losses, breaks>>
  BY <1>3 DEF Becomes, State, Store, Still, sockets, bounds
<1> QED BY <1>1, <1>2, <1>4, <1>5 DEF n

LEMMA LostForm ==
  ASSUME Types, NEW p \in Processes, ConnectionLost(p)
  PROVE  LET failed == {pipe[p][i].who : i \in {j \in DOMAIN pipe[p] : Loads(pipe[p][j])}} IN
         /\ pipe' = [pipe EXCEPT ![p] = <<>>] /\ losses' = losses + 1
         /\ link' = [c \in Clients |-> IF c \in failed THEN "off" ELSE link[c]]
         /\ UNCHANGED <<idOf, Store, ticks, startDate, relay, home, inbox, mid, got,
                        sockets, published, breaks>>
BY DEF ConnectionLost, Becomes, State, Store, sockets, Types, Loads, LoadOps

(* What Redis answers. *)
Answer(r) ==
  IF r.op = "ttl" THEN Kept(To[r.who], {ch \in Channels : zset[ch] # {} /\ ch \notin hasTTL})
  ELSE IF r.op = "range" THEN
    [k \in DOMAIN Subscribed[r.who] |->
       Newest({z \in zset[Subscribed[r.who][k]] : z > r.args[1]}, RangeLimit)]
  ELSE IF r.op = "mget" THEN Kept(r.args, bodies)
  ELSE <<>>

Executed(p, i) ==
  LET r == pipe[p][i] IN
  /\ i \in DOMAIN pipe[p]
  /\ \A j \in DOMAIN pipe[p] : pipe[p][j].done <=> j < i
  /\ pipe' = [pipe EXCEPT ![p] =
       [@ EXCEPT ![i] = [r EXCEPT !.done = TRUE, !.reply = Answer(r)]]]
  /\ idOf' = IF r.op = "incr" THEN [idOf EXCEPT ![r.who] = 1 + Max({idOf[m] : m \in Messages})]
             ELSE idOf
  /\ bodies' = IF r.op = "save" THEN bodies \cup {idOf[r.who]} ELSE bodies
  /\ zset' = IF r.op = "save"
             THEN [ch \in Channels |-> IF ch \in ToSet(To[r.who])
                                       THEN zset[ch] \cup {idOf[r.who]} ELSE zset[ch]]
             ELSE zset
  /\ hasTTL' = IF r.op = "expire" /\ zset[r.who] # {} THEN hasTTL \cup {r.who} ELSE hasTTL
  /\ UNCHANGED <<ticks, Ends, startDate, relay, bounds>>

LEMMA ExecuteForm ==
  ASSUME Types, NEW p \in Processes, Execute(p)
  PROVE  \E i \in DOMAIN pipe[p] : Executed(p, i)
<1>1. PICK i \in DOMAIN pipe[p] :
        /\ \A j \in DOMAIN pipe[p] : pipe[p][j].done <=> j < i
        /\ Becomes([Do(State, pipe[p][i]) EXCEPT
             !.pipe[p][i] = [@ EXCEPT !.done = TRUE, !.reply = ReplyTo(State, pipe[p][i])]])
  BY DEF Execute
<1> DEFINE r == pipe[p][i]
           b == [r EXCEPT !.done = TRUE, !.reply = Answer(r)]
<1>2. ReplyTo(State, r) = Answer(r)
  BY DEF ReplyTo, Answer, State, WithoutTTL, RangeSince
<1>3. r \in RequestType /\ pipe[p] \in Seq(RequestType)
  BY DEF Types
<1> HIDE DEF r
<1>4. Becomes([Do(State, r) EXCEPT !.pipe[p][i] = [@ EXCEPT !.done = TRUE, !.reply = Answer(r)]])
      /\ pipe[p][i] = r /\ UNCHANGED bounds
  BY <1>1, <1>2 DEF r, Execute
<1>5. CASE r.op = "incr"
  <2>1. pipe' = [pipe EXCEPT ![p] = [@ EXCEPT ![i] = b]]
    BY <1>4, <1>5 DEF Becomes, Do, State, Types
  <2>2. /\ idOf' = [idOf EXCEPT ![r.who] = 1 + Max({idOf[m] : m \in Messages})]
        /\ UNCHANGED <<zset, bodies, hasTTL, ticks, Ends, startDate, relay, bounds>>
    BY <1>4, <1>5 DEF Becomes, Do, State, Types, Ends, sockets
  <2> QED BY <1>1, <1>5, <2>1, <2>2 DEF Executed, r
<1>6. CASE r.op = "save"
  <2>1. pipe' = [pipe EXCEPT ![p] = [@ EXCEPT ![i] = b]]
    BY <1>4, <1>6 DEF Becomes, Do, State, Types
  <2>2. /\ bodies' = bodies \cup {idOf[r.who]}
        /\ zset' = [ch \in Channels |-> IF ch \in ToSet(To[r.who])
                                        THEN zset[ch] \cup {idOf[r.who]} ELSE zset[ch]]
        /\ UNCHANGED <<idOf, hasTTL, ticks, Ends, startDate, relay, bounds>>
    BY <1>4, <1>6 DEF Becomes, Do, State, Types, Ends, sockets
  <2> QED BY <1>1, <1>6, <2>1, <2>2 DEF Executed, r
<1>7. CASE r.op = "expire"
  <2>1. pipe' = [pipe EXCEPT ![p] = [@ EXCEPT ![i] = b]]
    BY <1>4, <1>7 DEF Becomes, Do, State, Types
  <2>2. /\ hasTTL' = IF zset[r.who] # {} THEN hasTTL \cup {r.who} ELSE hasTTL
        /\ UNCHANGED <<idOf, zset, bodies, ticks, Ends, startDate, relay, bounds>>
    BY <1>4, <1>7 DEF Becomes, Do, State, Types, Ends, sockets
  <2> QED BY <1>1, <1>7, <2>1, <2>2 DEF Executed, r
<1>8. CASE r.op \notin {"incr", "save", "expire"}
  <2>1. pipe' = [pipe EXCEPT ![p] = [@ EXCEPT ![i] = b]]
    BY <1>4, <1>8 DEF Becomes, Do, State, Types
  <2>2. UNCHANGED <<idOf, zset, bodies, hasTTL, ticks, Ends, startDate, relay, bounds>>
    BY <1>4, <1>8 DEF Becomes, Do, State, Types, Ends, sockets
  <2> QED BY <1>1, <1>8, <2>1, <2>2 DEF Executed, r
<1> QED BY <1>5, <1>6, <1>7, <1>8

-----------------------------------------------------------------------------
(***************************************************************************)
(* Types, in every step.                                                   *)
(***************************************************************************)
LEMMA TopFacts ==
  ASSUME Types
  PROVE  /\ IsFiniteSet({m \in Messages : idOf[m] # 0})
         /\ Top \in Nat /\ Top <= Cardinality(Messages)
<1> DEFINE D == {m \in Messages : idOf[m] # 0}
<1>1. D \subseteq Messages /\ IsFiniteSet(Messages)
  BY DeliveryAssumption
<1>2. IsFiniteSet(D) /\ Cardinality(D) \in Nat /\ Cardinality(D) <= Cardinality(Messages)
  BY <1>1, FS_Subset, FS_CardinalityType
<1> QED BY <1>2 DEF Top

LEMMA SameTop ==
  ASSUME idOf' = idOf
  PROVE  Top' = Top /\ Ids' = Ids /\ RequestType' = RequestType /\ TickType' = TickType
<1>1. Top' = Top
  BY DEF Top
<1>2. Ids' = Ids
  BY <1>1 DEF Ids
<1> QED BY <1>1, <1>2 DEF RequestType, TickType

LEMMA MoreTypes ==
  ASSUME Top \in Nat, Top' \in Nat, Top <= Top'
  PROVE  /\ Ids \subseteq Ids' /\ 0..Top \subseteq 0..Top'
         /\ Seq(Ids) \subseteq Seq(Ids') /\ SUBSET Ids \subseteq SUBSET Ids'
         /\ RequestType \subseteq RequestType' /\ TickType \subseteq TickType'
         /\ Seq(RequestType) \subseteq Seq(RequestType') /\ Seq(TickType) \subseteq Seq(TickType')
<1>0. ASSUME NEW A, NEW B, A \subseteq B PROVE Seq(A) \subseteq Seq(B)
  <2> SUFFICES ASSUME NEW q \in Seq(A) PROVE q \in Seq(B)
    OBVIOUS
  <2> QED BY <1>0
<1>1. Ids \subseteq Ids' /\ 0..Top \subseteq 0..Top'
  BY DEF Ids
<1>2. SUBSET Ids \subseteq SUBSET Ids'
  BY <1>1
<1>3. /\ Seq(Ids) \subseteq Seq(Ids') /\ Seq(0..Top) \subseteq Seq(0..Top')
      /\ Seq(SUBSET Ids) \subseteq Seq(SUBSET Ids')
  BY <1>0, <1>1, <1>2
<1>4. RequestType \subseteq RequestType' /\ TickType \subseteq TickType'
  BY <1>3 DEF RequestType, TickType
<1> QED BY <1>0, <1>1, <1>2, <1>3, <1>4

(* The id that is drawn is the next one. *)
LEMMA NextId ==
  ASSUME Types, Numbering, NEW m \in Messages, idOf[m] = 0,
         idOf' = [idOf EXCEPT ![m] = 1 + Max({idOf[n] : n \in Messages})]
  PROVE  /\ Top' = Top + 1 /\ Top \in Nat
         /\ idOf' = [idOf EXCEPT ![m] = Top + 1]
<1> DEFINE I == {idOf[n] : n \in Messages}
           D == {n \in Messages : idOf[n] # 0}
<1>0. Top \in Nat /\ IsFiniteSet(D)
  BY TopFacts
<1>1. Max(I) = Top
  <2>1. I \in SUBSET (0..Top) /\ idOf[m] \in I
    BY DEF Types
  <2>2. Max(I) \in I /\ \A i \in I : i <= Max(I)
    <3> HIDE DEF I
    <3> QED BY <1>0, <2>1, MaxOfBounded
  <2>3. Top \in I
    <3>1. CASE Top = 0
      BY <3>1
    <3>2. CASE Top # 0
      BY <3>2 DEF Numbering
    <3> QED BY <3>1, <3>2
  <2> DEFINE x == Max(I)
  <2>4. x \in 0..Top /\ Top <= x
    <3>1. x \in I /\ \A i \in I : i <= x
      BY <2>2
    <3> HIDE DEF I, x
    <3> QED BY <2>1, <2>3, <3>1
  <2>5. x = Top
    <3> HIDE DEF x
    <3> QED BY <1>0, <2>4
  <2> QED BY <2>5
<1>2. idOf' = [idOf EXCEPT ![m] = Top + 1]
  <2>1. idOf' = [idOf EXCEPT ![m] = 1 + Max(I)]
    OBVIOUS
  <2>2. 1 + Max(I) = Top + 1
    <3>1. \A x : x = Top => 1 + x = Top + 1
      BY <1>0
    <3> QED BY <1>1, <3>1, Zenon
  <2> QED BY <2>1, <2>2, Zenon
<1>3. {n \in Messages : idOf'[n] # 0} = D \cup {m}
  <2>1. \A n \in Messages : idOf'[n] = IF n = m THEN Top + 1 ELSE idOf[n]
    BY <1>2 DEF Types
  <2>2. Top + 1 # 0
    BY <1>0
  <2> QED BY <2>1, <2>2
<1>4. m \notin D
  OBVIOUS
<1>5. Cardinality(D \cup {m}) = Cardinality(D) + 1
  BY <1>0, <1>4, FS_AddElement
<1>6. Top' = Cardinality({n \in Messages : idOf'[n] # 0})
  BY DEF Top
<1> QED BY <1>0, <1>2, <1>3, <1>5, <1>6 DEF Top

LEMMA AnswerTyped ==
  ASSUME Types, NEW r \in RequestType
  PROVE  /\ [r EXCEPT !.done = TRUE, !.reply = Answer(r)] \in RequestType
         /\ r.op = "range" => Answer(r) \in [1..Len(Subscribed[r.who]) -> SUBSET Ids]
<1>1. CASE r.op = "ttl"
  <2>1. r.who \in Messages /\ To[r.who] \in Seq(Channels)
    BY <1>1, DeliveryAssumption DEF RequestType
  <2>2. Answer(r) \in Seq(Channels)
    BY <1>1, <2>1, KeptFacts DEF Answer
  <2> QED BY <1>1, <2>2 DEF RequestType, MessageOps
<1>2. CASE r.op = "range"
  <2>1. r.who \in Clients /\ Subscribed[r.who] \in Seq(Channels)
    BY <1>2, DeliveryAssumption DEF RequestType, MessageOps
  <2>2. Answer(r) \in [1..Len(Subscribed[r.who]) -> SUBSET Ids]
    BY <1>2, <2>1 DEF Answer, Newest, Types
  <2>3. Answer(r) \in Seq(SUBSET Ids)
    BY <2>1, <2>2
  <2> QED BY <1>2, <2>2, <2>3 DEF RequestType, MessageOps
<1>3. CASE r.op = "mget"
  <2>1. r.args \in Seq(Ids)
    BY <1>3 DEF RequestType, MessageOps
  <2>2. Answer(r) \in Seq(Ids)
    BY <1>3, <2>1, KeptFacts DEF Answer
  <2> QED BY <1>3, <2>2 DEF RequestType, MessageOps
<1>4. CASE r.op \notin {"ttl", "range", "mget"}
  <2>1. Answer(r) = <<>> /\ <<>> \in Seq(Channels)
    BY <1>4 DEF Answer
  <2>2. CASE r.op \in MessageOps
    BY <1>4, <2>1, <2>2 DEF RequestType, MessageOps
  <2>3. CASE r.op = "expire"
    BY <1>4, <2>1, <2>3 DEF RequestType, MessageOps
  <2> QED BY <1>4, <2>2, <2>3 DEF RequestType, MessageOps
<1> QED BY <1>1, <1>2, <1>3, <1>4

-----------------------------------------------------------------------------
(***************************************************************************)
(* Where the entries of a queue come from.                                 *)
(***************************************************************************)
Fresh(q, d, x, i) == i > Len(q) - d /\ i - (Len(q) - d) \in DOMAIN x
Older(q, d, i) == i + d \in DOMAIN q
Shift(q, d, x) == SubSeq(q, 1 + d, Len(q)) \o x

LEMMA Shifted ==
  ASSUME NEW S, NEW q \in Seq(S), NEW x \in Seq(S), NEW d \in {0, 1}, d = 1 => q # <<>>
  PROVE  /\ Shift(q, d, x) \in Seq(S) /\ Len(Shift(q, d, x)) = Len(q) - d + Len(x)
         /\ \A i \in DOMAIN Shift(q, d, x) :
              \/ Older(q, d, i) /\ Shift(q, d, x)[i] = q[i + d]
              \/ Fresh(q, d, x, i) /\ Shift(q, d, x)[i] = x[i - (Len(q) - d)]
         /\ \A i \in 1..(Len(q) - d) : i \in DOMAIN Shift(q, d, x) /\ Shift(q, d, x)[i] = q[i + d]
<1> DEFINE y == SubSeq(q, 1 + d, Len(q))
           r == Shift(q, d, x)
<1>1. /\ y \in Seq(S) /\ Len(y) = Len(q) - d /\ \A i \in 1..Len(y) : y[i] = q[i + d]
      /\ Len(q) \in Nat /\ Len(x) \in Nat /\ d \in Nat /\ d <= Len(q)
  OBVIOUS
<1>2. r = y \o x
  BY DEF Shift
<1> HIDE DEF y, r
<1>3. /\ r \in Seq(S) /\ Len(r) = Len(y) + Len(x)
      /\ \A i \in 1..(Len(y) + Len(x)) :
           r[i] = IF i <= Len(y) THEN y[i] ELSE x[i - Len(y)]
  <2>1. /\ y \o x \in Seq(S) /\ Len(y \o x) = Len(y) + Len(x)
        /\ \A i \in 1..(Len(y) + Len(x)) :
             (y \o x)[i] = IF i <= Len(y) THEN y[i] ELSE x[i - Len(y)]
    BY <1>1, ConcatProperties
  <2> QED BY <1>2, <2>1, Zenon
<1>4. DOMAIN r = 1..(Len(q) - d + Len(x)) /\ DOMAIN q = 1..Len(q) /\ DOMAIN x = 1..Len(x)
  BY <1>1, <1>3
<1>7. \A i \in DOMAIN r : i \in Int
                          /\ r[i] = IF i <= Len(y) THEN y[i] ELSE x[i - Len(y)]
  <2>1. DOMAIN r = 1..(Len(y) + Len(x))
    BY <1>1, <1>4
  <2> QED BY <1>3, <2>1
<1>5. ASSUME NEW i \in DOMAIN r
      PROVE  \/ Older(q, d, i) /\ r[i] = q[i + d]
             \/ Fresh(q, d, x, i) /\ r[i] = x[i - (Len(q) - d)]
  <2>1. CASE i <= Len(y)
    <3>1. i \in 1..Len(y) /\ i + d \in 1..Len(q)
      BY <1>1, <1>4, <2>1
    <3> QED BY <1>1, <1>4, <1>7, <2>1, <3>1 DEF Older
  <2>2. CASE i > Len(y)
    <3>1. i - Len(y) \in 1..Len(x) /\ ~(i <= Len(y))
      BY <1>1, <1>4, <2>2
    <3>2. r[i] = x[i - Len(y)]
      BY <1>7, <3>1
    <3>3. i > Len(q) - d /\ i - (Len(q) - d) \in 1..Len(x) /\ r[i] = x[i - (Len(q) - d)]
      BY <1>1, <2>2, <3>1, <3>2
    <3> QED BY <1>4, <3>3 DEF Fresh
  <2> QED BY <1>1, <1>7, <2>1, <2>2
<1>6. ASSUME NEW i \in 1..(Len(q) - d) PROVE i \in DOMAIN r /\ r[i] = q[i + d]
  <2>1. i \in DOMAIN r /\ i \in 1..Len(y) /\ i <= Len(y)
    BY <1>1, <1>4
  <2> QED BY <1>1, <1>7, <2>1
<1> QED BY <1>1, <1>3, <1>5, <1>6 DEF r

(* The new entries of a step. *)
Additions(new, put) == new \in Seq(RequestType) /\ put \in Seq(TickType)

InPipe(p, d, new, i) ==
  \/ Older(pipe[p], d, i) /\ pipe'[p][i] = pipe[p][i + d]
  \/ Fresh(pipe[p], d, new, i) /\ pipe'[p][i] = new[i - (Len(pipe[p]) - d)]

InTicks(p, e, put, i) ==
  \/ Older(ticks[p], e, i) /\ ticks'[p][i] = ticks[p][i + e]
  \/ Fresh(ticks[p], e, put, i) /\ ticks'[p][i] = put[i - (Len(ticks[p]) - e)]

LEMMA QueueMoves ==
  ASSUME Types, NEW p \in Processes, NEW d \in {0, 1}, NEW e \in {0, 1}, NEW new, NEW put,
         Additions(new, put), QueueStep(p, d, new, e, put)
  PROVE  /\ pipe' \in [Processes -> Seq(RequestType')]
         /\ ticks' \in [Processes -> Seq(TickType')]
         /\ \A q \in Processes : q # p => pipe'[q] = pipe[q] /\ ticks'[q] = ticks[q]
         /\ \A i \in DOMAIN pipe'[p] : InPipe(p, d, new, i)
         /\ \A i \in DOMAIN ticks'[p] : InTicks(p, e, put, i)
         /\ DOMAIN pipe'[p] \subseteq Nat \ {0} /\ DOMAIN ticks'[p] \subseteq Nat \ {0}
         /\ Len(pipe[p]) \in Nat /\ Len(ticks[p]) \in Nat
         /\ DOMAIN pipe[p] = 1..Len(pipe[p]) /\ DOMAIN ticks[p] = 1..Len(ticks[p])
<1>1. pipe[p] \in Seq(RequestType) /\ ticks[p] \in Seq(TickType)
  BY DEF Types
<1>2. /\ pipe'[p] = Shift(pipe[p], d, new) /\ ticks'[p] = Shift(ticks[p], e, put)
      /\ d = 1 => pipe[p] # <<>>
      /\ e = 1 => ticks[p] # <<>>
      /\ \A q \in Processes : q # p => pipe'[q] = pipe[q] /\ ticks'[q] = ticks[q]
      /\ DOMAIN pipe' = Processes /\ DOMAIN ticks' = Processes
      /\ pipe' = [q \in Processes |-> pipe'[q]] /\ ticks' = [q \in Processes |-> ticks'[q]]
  BY DEF Types, QueueStep, PipeMoves, TicksMove, Shift
<1>3. /\ pipe'[p] \in Seq(RequestType)
      /\ \A i \in DOMAIN pipe'[p] : InPipe(p, d, new, i)
  <2>1. new \in Seq(RequestType)
    BY DEF Additions
  <2>2. d = 1 => pipe[p] # <<>>
    BY <1>2
  <2>3. pipe'[p] = Shift(pipe[p], d, new)
    BY <1>2
  <2> QED BY <1>1, <2>1, <2>2, <2>3, Shifted DEF InPipe, InTicks
<1>4. /\ ticks'[p] \in Seq(TickType)
      /\ \A i \in DOMAIN ticks'[p] : InTicks(p, e, put, i)
  <2>1. put \in Seq(TickType)
    BY DEF Additions
  <2>2. e = 1 => ticks[p] # <<>>
    BY <1>2
  <2>3. ticks'[p] = Shift(ticks[p], e, put)
    BY <1>2
  <2> QED BY <1>1, <2>1, <2>2, <2>3, Shifted DEF InPipe, InTicks
<1>5. RequestType' = RequestType /\ TickType' = TickType
  BY SameTop DEF QueueStep
<1>6. /\ \A q \in Processes : pipe'[q] \in Seq(RequestType')
      /\ \A q \in Processes : ticks'[q] \in Seq(TickType')
  BY <1>2, <1>3, <1>4, <1>5 DEF Types
<1>7. pipe' \in [Processes -> Seq(RequestType')] /\ ticks' \in [Processes -> Seq(TickType')]
  BY <1>2, <1>6
<1>8. /\ DOMAIN pipe'[p] \subseteq Nat \ {0} /\ DOMAIN ticks'[p] \subseteq Nat \ {0}
      /\ Len(pipe[p]) \in Nat /\ Len(ticks[p]) \in Nat
      /\ DOMAIN pipe[p] = 1..Len(pipe[p]) /\ DOMAIN ticks[p] = 1..Len(ticks[p])
  BY <1>1, <1>3, <1>4
<1> QED BY <1>2, <1>3, <1>4, <1>7, <1>8

(***************************************************************************)
(* What the new entries have to do with the old ones, for the invariants   *)
(* about the queues to hold after a step.                                  *)
(***************************************************************************)
NewDraws(new, put) ==
  /\ \A k \in DOMAIN new :
       /\ ~new[k].done
       /\ Draws(new[k]) => idOf[new[k].who] = 0 /\ new[k].who \in published' \ published
       /\ HasDrawn(new[k]) => idOf[new[k].who] # 0
  /\ \A k, l \in DOMAIN new : Draws(new[k]) /\ Draws(new[l]) => k = l
  /\ \A k \in DOMAIN put : put[k].op = "saved" => idOf[put[k].who] # 0

LEMMA DrawingMoves ==
  ASSUME Types, Drawing, Pipelined, NEW p \in Processes, NEW d \in {0, 1}, NEW e \in {0, 1},
         NEW new, NEW put, Additions(new, put), QueueStep(p, d, new, e, put),
         NewDraws(new, put), published \subseteq published'
  PROVE  Drawing' /\ Pipelined'
<1> DEFINE Old(i) == Older(pipe[p], d, i) /\ pipe'[p][i] = pipe[p][i + d]
           New(i) == /\ Fresh(pipe[p], d, new, i)
                     /\ pipe'[p][i] = new[i - (Len(pipe[p]) - d)]
<1>0. /\ \A q \in Processes : q # p => pipe'[q] = pipe[q] /\ ticks'[q] = ticks[q]
      /\ \A i \in DOMAIN pipe'[p] : InPipe(p, d, new, i)
      /\ \A i \in DOMAIN ticks'[p] : InTicks(p, e, put, i)
      /\ DOMAIN pipe'[p] \subseteq Nat \ {0} /\ Len(pipe[p]) \in Nat
      /\ DOMAIN pipe[p] = 1..Len(pipe[p])
  BY QueueMoves
<1>1. /\ \A q \in Processes : q # p => pipe'[q] = pipe[q] /\ ticks'[q] = ticks[q]
      /\ \A i \in DOMAIN pipe'[p] : Old(i) \/ New(i)
      /\ \A i \in DOMAIN ticks'[p] :
           \/ Older(ticks[p], e, i) /\ ticks'[p][i] = ticks[p][i + e]
           \/ Fresh(ticks[p], e, put, i) /\ ticks'[p][i] = put[i - (Len(ticks[p]) - e)]
      /\ DOMAIN pipe'[p] \subseteq Nat \ {0} /\ Len(pipe[p]) \in Nat
      /\ DOMAIN pipe[p] = 1..Len(pipe[p])
  BY <1>0 DEF InPipe, InTicks
<1>2. idOf' = idOf
  BY DEF QueueStep
<1>3. ASSUME NEW q \in Processes, NEW i \in DOMAIN pipe'[q]
      PROVE  /\ Draws(pipe'[q][i]) => /\ idOf[pipe'[q][i].who] = 0
                                      /\ pipe'[q][i].who \in published'
             /\ HasDrawn(pipe'[q][i]) => idOf[pipe'[q][i].who] # 0
  <2>1. CASE q = p
    BY <1>1, <2>1 DEF Drawing, NewDraws, Older, Fresh
  <2>2. CASE q # p
    BY <1>1, <2>2 DEF Drawing
  <2> QED BY <2>1, <2>2
<1>4. ASSUME NEW q \in Processes, NEW r \in Processes,
             NEW i \in DOMAIN pipe'[q], NEW j \in DOMAIN pipe'[r],
             Draws(pipe'[q][i]), Draws(pipe'[r][j]), pipe'[q][i].who = pipe'[r][j].who
      PROVE  q = r /\ i = j
  <2> DEFINE Was(s, k, l) == l \in DOMAIN pipe[s] /\ pipe'[s][k] = pipe[s][l]
  <2>1. ASSUME NEW s \in Processes, NEW k \in DOMAIN pipe'[s]
        PROVE  \/ s # p /\ Was(s, k, k)
               \/ s = p /\ Was(s, k, k + d)
               \/ s = p /\ New(k)
    BY <1>1 DEF Older
  <2>2. ASSUME NEW s \in Processes, NEW k \in DOMAIN pipe'[s], NEW l, Was(s, k, l),
               Draws(pipe'[s][k])
        PROVE  pipe'[s][k].who \in published
    BY <2>2 DEF Drawing
  <2>3. ASSUME NEW k \in DOMAIN pipe'[p], New(k), Draws(pipe'[p][k])
        PROVE  pipe'[p][k].who \notin published
    BY <2>3 DEF Fresh, NewDraws
  <2>4. CASE New(i) /\ q = p
    <3>1. New(j) /\ r = p
      BY <1>4, <2>1, <2>2, <2>3, <2>4
    <3>2. i - (Len(pipe[p]) - d) = j - (Len(pipe[p]) - d)
      BY <1>4, <2>4, <3>1 DEF Fresh, NewDraws
    <3> QED BY <1>1, <2>4, <3>1, <3>2
  <2>5. CASE ~(New(i) /\ q = p)
    <3>1. ~(New(j) /\ r = p)
      BY <1>4, <2>1, <2>2, <2>3, <2>5
    <3>2. PICK k : Was(q, i, k) /\ k = IF q = p THEN i + d ELSE i
      BY <2>1, <2>5
    <3>3. PICK l : Was(r, j, l) /\ l = IF r = p THEN j + d ELSE j
      BY <2>1, <3>1
    <3>4. q = r /\ k = l
      BY <1>4, <3>2, <3>3 DEF Drawing
    <3> QED BY <1>1, <3>2, <3>3, <3>4
  <2> QED BY <2>4, <2>5
<1>5. ASSUME NEW q \in Processes, NEW i \in DOMAIN ticks'[q], ticks'[q][i].op = "saved"
      PROVE  idOf[ticks'[q][i].who] # 0
  <2>1. CASE q = p
    BY <1>1, <1>5, <2>1 DEF Drawing, NewDraws, Older, Fresh
  <2>2. CASE q # p
    BY <1>1, <1>5, <2>2 DEF Drawing
  <2> QED BY <2>1, <2>2
<1>6. Drawing'
  BY <1>2, <1>3, <1>4, <1>5 DEF Drawing
<1>7. ASSUME NEW q \in Processes, NEW i \in DOMAIN pipe'[q], NEW j \in DOMAIN pipe'[q],
             i < j, pipe'[q][j].done
      PROVE  pipe'[q][i].done
  <2>1. CASE q = p
    <3>1. Old(j)
      BY <1>1, <1>7, <2>1 DEF NewDraws, Fresh
    <3>2. i \in 1..(Len(pipe[p]) - d) /\ i + d \in DOMAIN pipe[p] /\ i + d < j + d
      <4>1. i \in Nat \ {0} /\ j \in Nat \ {0} /\ j + d \in 1..Len(pipe[p]) /\ d \in Nat
        BY <1>1, <1>7, <2>1, <3>1 DEF Older
      <4> QED BY <1>1, <1>7, <4>1
    <3>3. ~Fresh(pipe[p], d, new, i)
      BY <1>1, <3>2 DEF Fresh
    <3>4. Old(i)
      BY <1>1, <2>1, <3>3
    <3> QED BY <1>7, <2>1, <3>1, <3>2, <3>4 DEF Pipelined, Older
  <2>2. CASE q # p
    BY <1>1, <1>7, <2>2 DEF Pipelined
  <2> QED BY <2>1, <2>2
<1> QED BY <1>6, <1>7 DEF Pipelined

(* The client whose loading ends, or goes on, with what leaves the queues. *)
Leaves(p, d, e, c) ==
  \/ d = 1 /\ Loads(pipe[p][1]) /\ pipe[p][1].who = c
  \/ e = 1 /\ ticks[p][1].op = "loaded" /\ ticks[p][1].who = c

Begins(p, d, e, c) ==
  /\ link'[c] = "loading" /\ home'[c] = p
  /\ link[c] # "loading" \/ Leaves(p, d, e, c)

NewLoads(p, d, new, e, put) ==
  /\ \A c \in Clients : link[c] = "loading" /\ ~Leaves(p, d, e, c) =>
       link'[c] = "loading" /\ home'[c] = home[c]
  /\ \A k \in DOMAIN new : Loads(new[k]) =>
       DOMAIN new = {k} /\ put = <<>> /\ Begins(p, d, e, new[k].who)
  /\ \A k \in DOMAIN put : put[k].op = "loaded" =>
       DOMAIN put = {k} /\ new = <<>> /\ Begins(p, d, e, put[k].who)

LEMMA LoadingMoves ==
  ASSUME Types, Loading, NEW p \in Processes, NEW d \in {0, 1}, NEW e \in {0, 1},
         NEW new, NEW put, Additions(new, put), QueueStep(p, d, new, e, put),
         NewLoads(p, d, new, e, put)
  PROVE  Loading'
<1> DEFINE OldP(q, i, k) == /\ k \in DOMAIN pipe[q] /\ pipe'[q][i] = pipe[q][k]
                            /\ k = IF q = p THEN i + d ELSE i
           NewP(q, i) == /\ q = p /\ Fresh(pipe[p], d, new, i)
                         /\ pipe'[q][i] = new[i - (Len(pipe[p]) - d)]
           OldT(q, i, k) == /\ k \in DOMAIN ticks[q] /\ ticks'[q][i] = ticks[q][k]
                            /\ k = IF q = p THEN i + e ELSE i
           NewT(q, i) == /\ q = p /\ Fresh(ticks[p], e, put, i)
                         /\ ticks'[q][i] = put[i - (Len(ticks[p]) - e)]
<1>0. /\ \A q \in Processes : q # p => pipe'[q] = pipe[q] /\ ticks'[q] = ticks[q]
      /\ \A i \in DOMAIN pipe'[p] : InPipe(p, d, new, i)
      /\ \A i \in DOMAIN ticks'[p] : InTicks(p, e, put, i)
      /\ DOMAIN pipe'[p] \subseteq Nat \ {0} /\ DOMAIN ticks'[p] \subseteq Nat \ {0}
      /\ Len(pipe[p]) \in Nat /\ Len(ticks[p]) \in Nat
      /\ pipe' \in [Processes -> Seq(RequestType')] /\ ticks' \in [Processes -> Seq(TickType')]
  BY QueueMoves
<1>1. ASSUME NEW q \in Processes, NEW i \in DOMAIN pipe'[q]
      PROVE  /\ NewP(q, i) \/ \E k : OldP(q, i, k)
             /\ i \in Nat \ {0}
  <2>1. CASE q = p
    BY <1>0, <2>1 DEF InPipe, Older
  <2>2. CASE q # p
    BY <1>0, <2>2
  <2> QED BY <2>1, <2>2
<1>2. ASSUME NEW q \in Processes, NEW i \in DOMAIN ticks'[q]
      PROVE  /\ NewT(q, i) \/ \E k : OldT(q, i, k)
             /\ i \in Nat \ {0}
  <2>1. CASE q = p
    BY <1>0, <2>1 DEF InTicks, Older
  <2>2. CASE q # p
    BY <1>0, <2>2
  <2> QED BY <2>1, <2>2
<1>3. ASSUME NEW q \in Processes, NEW i \in DOMAIN pipe'[q], Loads(pipe'[q][i]),
             NEW k, OldP(q, i, k)
      PROVE  LET c == pipe'[q][i].who IN
             /\ c \in Clients /\ link[c] = "loading" /\ ~Leaves(p, d, e, c)
             /\ link'[c] = "loading" /\ home'[c] = q /\ home[c] = q
  <2> DEFINE c == pipe'[q][i].who
  <2>1. pipe[q][k] \in RequestType /\ Loads(pipe[q][k]) /\ pipe[q][k].who = c
    BY <1>3 DEF Types
  <2>2. c \in Clients
    BY <2>1 DEF RequestType, Loads, LoadOps, MessageOps
  <2>3. link[c] = "loading" /\ home[c] = q
    BY <1>3, <2>1 DEF Loading
  <2>4. ~Leaves(p, d, e, c)
    <3>1. ASSUME d = 1, Loads(pipe[p][1]), pipe[p][1].who = c PROVE FALSE
      <4>1. 1 \in DOMAIN pipe[p]
        BY <3>1 DEF QueueStep, PipeMoves, Types
      <4>2. q = p
        BY <2>3, <3>1, <4>1 DEF Loading
      <4>3. k = 1
        BY <1>3, <2>1, <3>1, <4>1, <4>2 DEF Loading
      <4> QED BY <1>1, <1>3, <3>1, <4>2, <4>3
    <3>2. ASSUME e = 1, ticks[p][1].op = "loaded", ticks[p][1].who = c PROVE FALSE
      <4>1. 1 \in DOMAIN ticks[p]
        BY <3>2 DEF QueueStep, TicksMove, Types
      <4>2. q = p
        BY <2>3, <3>2, <4>1 DEF Loading
      <4> QED BY <1>3, <2>1, <3>2, <4>1, <4>2 DEF Loading
    <3> QED BY <3>1, <3>2 DEF Leaves
  <2> QED BY <2>2, <2>3, <2>4 DEF NewLoads
<1>4. ASSUME NEW q \in Processes, NEW i \in DOMAIN ticks'[q], ticks'[q][i].op = "loaded",
             NEW k, OldT(q, i, k)
      PROVE  LET c == ticks'[q][i].who IN
             /\ c \in Clients /\ link[c] = "loading" /\ ~Leaves(p, d, e, c)
             /\ link'[c] = "loading" /\ home'[c] = q /\ home[c] = q
  <2> DEFINE c == ticks'[q][i].who
  <2>1. ticks[q][k] \in TickType /\ ticks[q][k].op = "loaded" /\ ticks[q][k].who = c
    BY <1>4 DEF Types
  <2>2. c \in Clients
    BY <2>1 DEF TickType
  <2>3. link[c] = "loading" /\ home[c] = q
    BY <1>4, <2>1 DEF Loading
  <2>4. ~Leaves(p, d, e, c)
    <3>1. ASSUME d = 1, Loads(pipe[p][1]), pipe[p][1].who = c PROVE FALSE
      <4>1. 1 \in DOMAIN pipe[p]
        BY <3>1 DEF QueueStep, PipeMoves, Types
      <4>2. q = p
        BY <2>3, <3>1, <4>1 DEF Loading
      <4> QED BY <1>4, <2>1, <3>1, <4>1, <4>2 DEF Loading
    <3>2. ASSUME e = 1, ticks[p][1].op = "loaded", ticks[p][1].who = c PROVE FALSE
      <4>1. 1 \in DOMAIN ticks[p]
        BY <3>2 DEF QueueStep, TicksMove, Types
      <4>2. q = p
        BY <2>3, <3>2, <4>1 DEF Loading
      <4>3. k = 1
        BY <1>4, <2>1, <3>2, <4>1, <4>2 DEF Loading
      <4> QED BY <1>2, <1>4, <3>2, <4>2, <4>3
    <3> QED BY <3>1, <3>2 DEF Leaves
  <2> QED BY <2>2, <2>3, <2>4 DEF NewLoads
<1>5. ASSUME NEW q \in Processes, NEW i \in DOMAIN pipe'[q], Loads(pipe'[q][i]), NewP(q, i)
      PROVE  /\ q = p /\ Begins(p, d, e, pipe'[q][i].who) /\ put = <<>>
             /\ \A j \in DOMAIN pipe'[p] : NewP(p, j) => i = j
  <2> DEFINE k == i - (Len(pipe[p]) - d)
  <2>1. k \in DOMAIN new /\ Loads(new[k]) /\ pipe'[q][i].who = new[k].who /\ q = p
    BY <1>5 DEF Fresh
  <2>2. DOMAIN new = {k} /\ put = <<>> /\ Begins(p, d, e, new[k].who)
    BY <2>1 DEF NewLoads
  <2>3. ASSUME NEW j \in DOMAIN pipe'[p], NewP(p, j) PROVE i = j
    <3>1. j - (Len(pipe[p]) - d) = i - (Len(pipe[p]) - d)
      BY <2>2, <2>3 DEF Fresh
    <3>2. i \in Nat /\ j \in Nat
      BY <1>1, <2>1
    <3> QED BY <1>0, <3>1, <3>2
  <2> QED BY <2>1, <2>2, <2>3
<1>6. ASSUME NEW q \in Processes, NEW i \in DOMAIN ticks'[q], ticks'[q][i].op = "loaded",
             NewT(q, i)
      PROVE  /\ q = p /\ Begins(p, d, e, ticks'[q][i].who) /\ new = <<>>
             /\ \A j \in DOMAIN ticks'[p] : NewT(p, j) => i = j
  <2> DEFINE k == i - (Len(ticks[p]) - e)
  <2>1. k \in DOMAIN put /\ put[k].op = "loaded" /\ ticks'[q][i].who = put[k].who /\ q = p
    BY <1>6 DEF Fresh
  <2>2. DOMAIN put = {k} /\ new = <<>> /\ Begins(p, d, e, put[k].who)
    BY <2>1 DEF NewLoads
  <2>3. ASSUME NEW j \in DOMAIN ticks'[p], NewT(p, j) PROVE i = j
    <3>1. j - (Len(ticks[p]) - e) = i - (Len(ticks[p]) - e)
      BY <2>2, <2>3 DEF Fresh
    <3>2. i \in Nat /\ j \in Nat
      BY <1>2, <2>1
    <3> QED BY <1>0, <3>1, <3>2
  <2> QED BY <2>1, <2>2, <2>3
<1>7. ASSUME NEW q \in Processes, NEW i \in DOMAIN pipe'[q], Loads(pipe'[q][i])
      PROVE  link'[pipe'[q][i].who] = "loading" /\ home'[pipe'[q][i].who] = q
  <2>1. CASE NewP(q, i)
    BY <1>5, <1>7, <2>1 DEF Begins
  <2>2. CASE \E k : OldP(q, i, k)
    BY <1>3, <1>7, <2>2
  <2> QED BY <1>1, <2>1, <2>2
<1>8. ASSUME NEW q \in Processes, NEW i \in DOMAIN ticks'[q], ticks'[q][i].op = "loaded"
      PROVE  link'[ticks'[q][i].who] = "loading" /\ home'[ticks'[q][i].who] = q
  <2>1. CASE NewT(q, i)
    BY <1>6, <1>8, <2>1 DEF Begins
  <2>2. CASE \E k : OldT(q, i, k)
    BY <1>4, <1>8, <2>2
  <2> QED BY <1>2, <2>1, <2>2
<1>9. ASSUME NEW q \in Processes, NEW i \in DOMAIN pipe'[q], NEW j \in DOMAIN pipe'[q],
             Loads(pipe'[q][i]), Loads(pipe'[q][j]), pipe'[q][i].who = pipe'[q][j].who
      PROVE  i = j
  <2>1. CASE NewP(q, i) /\ NewP(q, j)
    BY <1>5, <1>9, <2>1
  <2>2. CASE NewP(q, i) /\ \E k : OldP(q, j, k)
    BY <1>3, <1>5, <1>9, <2>2 DEF Begins
  <2>3. CASE NewP(q, j) /\ \E k : OldP(q, i, k)
    BY <1>3, <1>5, <1>9, <2>3 DEF Begins
  <2>4. CASE (\E k : OldP(q, i, k)) /\ \E k : OldP(q, j, k)
    <3>1. PICK k : OldP(q, i, k)
      BY <2>4
    <3>2. PICK l : OldP(q, j, l)
      BY <2>4
    <3>3. k = l
      BY <1>9, <3>1, <3>2 DEF Loading
    <3>4. i \in Nat /\ j \in Nat
      BY <1>1
    <3> QED BY <3>1, <3>2, <3>3, <3>4
  <2> QED BY <1>1, <2>1, <2>2, <2>3, <2>4
<1>10. ASSUME NEW q \in Processes, NEW i \in DOMAIN ticks'[q], NEW j \in DOMAIN ticks'[q],
              ticks'[q][i].op = "loaded", ticks'[q][j].op = "loaded",
              ticks'[q][i].who = ticks'[q][j].who
       PROVE  i = j
  <2>1. CASE NewT(q, i) /\ NewT(q, j)
    BY <1>6, <1>10, <2>1
  <2>2. CASE NewT(q, i) /\ \E k : OldT(q, j, k)
    BY <1>4, <1>6, <1>10, <2>2 DEF Begins
  <2>3. CASE NewT(q, j) /\ \E k : OldT(q, i, k)
    BY <1>4, <1>6, <1>10, <2>3 DEF Begins
  <2>4. CASE (\E k : OldT(q, i, k)) /\ \E k : OldT(q, j, k)
    <3>1. PICK k : OldT(q, i, k)
      BY <2>4
    <3>2. PICK l : OldT(q, j, l)
      BY <2>4
    <3>3. k = l
      BY <1>10, <3>1, <3>2 DEF Loading
    <3>4. i \in Nat /\ j \in Nat
      BY <1>2
    <3> QED BY <3>1, <3>2, <3>3, <3>4
  <2> QED BY <1>2, <2>1, <2>2, <2>3, <2>4
<1>11. ASSUME NEW q \in Processes, NEW i \in DOMAIN pipe'[q], NEW j \in DOMAIN ticks'[q],
              Loads(pipe'[q][i]), ticks'[q][j].op = "loaded"
       PROVE  pipe'[q][i].who # ticks'[q][j].who
  <2>1. CASE NewP(q, i) /\ NewT(q, j)
    <3>1. put = <<>>
      BY <1>5, <1>11, <2>1
    <3> QED BY <2>1, <3>1 DEF Fresh
  <2>2. CASE NewP(q, i) /\ \E k : OldT(q, j, k)
    BY <1>4, <1>5, <1>11, <2>2 DEF Begins
  <2>3. CASE NewT(q, j) /\ \E k : OldP(q, i, k)
    BY <1>3, <1>6, <1>11, <2>3 DEF Begins
  <2>4. CASE (\E k : OldP(q, i, k)) /\ \E k : OldT(q, j, k)
    BY <1>11, <2>4 DEF Loading
  <2> QED BY <1>1, <1>2, <2>1, <2>2, <2>3, <2>4
<1> QED BY <1>7, <1>8, <1>9, <1>10, <1>11 DEF Loading

(***************************************************************************)
(* The ends: what a broadcast and a replay do to the clients.              *)
(***************************************************************************)
EndsTyped ==
  /\ link \in [Clients -> {"off", "loading", "on", "answered"}]
  /\ home \in [Clients -> Processes] /\ inbox \in [Clients -> Seq(Ids)]
  /\ mid \in [Clients -> 0..Top] /\ got \in [Clients -> Seq(Ids)]

LEMMA CopiesFacts ==
  ASSUME NEW m \in Messages, NEW c \in Clients
  PROVE  Copies(m, c) \in Nat
<1> DEFINE K == {k \in DOMAIN To[m] : To[m][k] \in ToSet(Subscribed[c])}
<1>1. To[m] \in Seq(Channels)
  BY DeliveryAssumption
<1>2. IsFiniteSet(K)
  <2>1. DOMAIN To[m] = 1..Len(To[m]) /\ Len(To[m]) \in Nat
    BY <1>1
  <2>2. IsFiniteSet(1..Len(To[m]))
    BY <2>1, FS_Interval
  <2> QED BY <2>1, <2>2, FS_Subset
<1> QED BY <1>2, FS_CardinalityType DEF Copies

LEMMA ResponseFacts ==
  ASSUME Types, NEW m \in Messages, NEW c \in Clients, idOf[m] # 0
  PROVE  /\ Response(c, m) \in Seq(Ids)
         /\ \A k \in DOMAIN Response(c, m) : Response(c, m)[k] = idOf[m]
         /\ Len(Response(c, m)) = IF c \in Websockets THEN Copies(m, c) ELSE 1
<1>1. idOf[m] \in Ids
  BY DEF Types, Ids
<1>2. (IF c \in Websockets THEN Copies(m, c) ELSE 1) \in Nat
  BY CopiesFacts
<1>3. ASSUME NEW n \in Nat
      PROVE  /\ [k \in 1..n |-> idOf[m]] \in Seq(Ids)
             /\ Len([k \in 1..n |-> idOf[m]]) = n
  BY <1>1
<1> QED BY <1>2, <1>3 DEF Response

LEMMA ServedEnds ==
  ASSUME Types, Waiting, NEW p \in Processes, NEW m \in Messages, idOf[m] # 0,
         Served(p, m), idOf' = idOf
  PROVE  /\ EndsTyped' /\ Waiting'
         /\ \A c \in Clients : link[c] = "loading" => link'[c] = "loading" /\ home'[c] = home[c]
<1>1. Ids' = Ids /\ Top' = Top
  BY SameTop
<1>2. inbox' \in [Clients -> Seq(Ids)]
  <2>1. ASSUME NEW c \in Clients PROVE inbox[c] \o Response(c, m) \in Seq(Ids)
    BY ResponseFacts, ConcatProperties DEF Types
  <2> QED BY <2>1 DEF Types, Served
<1>3. link' \in [Clients -> {"off", "loading", "on", "answered"}]
  BY DEF Types, Served
<1>4. UNCHANGED <<home, mid, got>>
  BY DEF Served
<1>5. EndsTyped'
  BY <1>1, <1>2, <1>3, <1>4 DEF EndsTyped, Types
<1>6. ASSUME NEW c \in Clients
      PROVE  /\ link'[c] = IF c \in Hit(p, m) \ Websockets THEN "answered" ELSE link[c]
             /\ c \notin Hit(p, m) => inbox'[c] = inbox[c]
             /\ c \in Hit(p, m) => link[c] = "on"
  BY DEF Served, Hit
<1>7. Waiting'
  BY <1>6 DEF Waiting
<1> QED BY <1>4, <1>5, <1>6, <1>7

LEMMA ToldEnds ==
  ASSUME Types, Waiting, NEW c \in Clients, NEW ids \in Seq(Ids), link[c] = "loading",
         Told(c, ids), idOf' = idOf
  PROVE  /\ EndsTyped' /\ Waiting'
         /\ \A b \in Clients : b # c => link'[b] = link[b] /\ home'[b] = home[b]
<1>1. Ids' = Ids /\ Top' = Top
  BY SameTop
<1>2. /\ inbox' = [inbox EXCEPT ![c] = inbox[c] \o ids]
      /\ link' = [link EXCEPT ![c] = IF ids # <<>> /\ c \notin Websockets THEN "answered" ELSE "on"]
      /\ UNCHANGED <<home, mid, got>>
  BY DEF Told
<1>3. inbox[c] \o ids \in Seq(Ids) /\ inbox[c] = <<>>
  <2>1. inbox[c] \in Seq(Ids)
    BY DEF Types
  <2>2. inbox[c] = <<>>
    BY DEF Waiting
  <2> QED BY <2>1, <2>2, ConcatProperties
<1>4. EndsTyped'
  BY <1>1, <1>2, <1>3 DEF EndsTyped, Types
<1>5. ids = <<>> => inbox[c] \o ids = <<>>
  BY <1>3
<1>6. Waiting'
  <2> SUFFICES ASSUME NEW b \in Clients, inbox'[b] # <<>>
               PROVE  link'[b] = "answered" \/ (link'[b] = "on" /\ b \in Websockets)
    BY DEF Waiting
  <2>1. CASE b = c
    <3>1. inbox'[c] = inbox[c] \o ids
      BY <1>2 DEF Types
    <3>2. ids # <<>>
      BY <1>5, <2>1, <3>1
    <3> QED BY <1>2, <2>1, <3>2 DEF Types
  <2>2. CASE b # c
    BY <1>2, <2>2 DEF Waiting, Types
  <2> QED BY <2>1, <2>2
<1> QED BY <1>2, <1>4, <1>6 DEF Types

(* The rest of the types, for a step of the queues. *)
LEMMA QueueTypes ==
  ASSUME Types, NEW p \in Processes, NEW d \in {0, 1}, NEW e \in {0, 1},
         NEW new, NEW put, Additions(new, put), QueueStep(p, d, new, e, put),
         EndsTyped', UNCHANGED Store, startDate' \in [Processes -> BOOLEAN],
         relay' \in [Processes -> [Processes -> Seq(Messages)]],
         published' \in SUBSET Messages, losses' \in Nat, breaks' \in Nat
  PROVE  Types'
<1>1. Ids' = Ids /\ Top' = Top /\ idOf' = idOf
  BY SameTop DEF QueueStep
<1>2. /\ pipe' \in [Processes -> Seq(RequestType')]
      /\ ticks' \in [Processes -> Seq(TickType')]
  BY QueueMoves
<1>3. zset' = zset /\ bodies' = bodies /\ hasTTL' = hasTTL
  BY DEF Store
<1>4. /\ idOf' \in [Messages -> 0..Top']
      /\ zset' \in [Channels -> SUBSET Ids'] /\ bodies' \in SUBSET Ids'
      /\ hasTTL' \in SUBSET Channels
  BY <1>1, <1>3 DEF Types
<1> QED BY <1>2, <1>4 DEF Types, EndsTyped

LEMMA QueueBase ==
  ASSUME BaseInv, NEW p \in Processes, NEW d \in {0, 1}, NEW e \in {0, 1},
         NEW new, NEW put, Additions(new, put), QueueStep(p, d, new, e, put),
         NewDraws(new, put), NewLoads(p, d, new, e, put), EndsTyped', Waiting',
         UNCHANGED Store, startDate' \in [Processes -> BOOLEAN],
         relay' \in [Processes -> [Processes -> Seq(Messages)]], Relaying',
         published' \in SUBSET Messages, published \subseteq published',
         losses' \in Nat, breaks' \in Nat
  PROVE  BaseInv'
<1>1. Types'
  BY QueueTypes DEF BaseInv
<1>2. Drawing' /\ Pipelined'
  BY DrawingMoves DEF BaseInv
<1>3. Loading'
  BY LoadingMoves DEF BaseInv
<1>4. idOf' = idOf /\ Top' = Top
  BY SameTop DEF QueueStep
<1>5. Numbering'
  BY <1>4 DEF BaseInv, Numbering
<1>6. Expiry'
  BY DEF BaseInv, Expiry, Store
<1> QED BY <1>1, <1>2, <1>3, <1>5, <1>6 DEF BaseInv

LEMMA RequestFacts ==
  ASSUME Types
  PROVE  /\ \A op \in MessageOps, m \in Messages : Request(op, m, <<>>) \in RequestType
         /\ \A ch \in Channels : Request("expire", ch, <<>>) \in RequestType
         /\ \A c \in Clients : Request("range", c, <<mid[c]>>) \in RequestType
         /\ \A c \in Clients, ids \in Seq(Ids) : Request("mget", c, ids) \in RequestType
         /\ \A m \in Messages : [op |-> "saved", who |-> m, args |-> <<>>] \in TickType
         /\ \A c \in Clients, ids \in Seq(Ids) :
              [op |-> "loaded", who |-> c, args |-> ids] \in TickType
<1>1. \A S : <<>> \in Seq(S)
  OBVIOUS
<1>2. \A c \in Clients : <<mid[c]>> \in Seq(0..Top)
  BY DEF Types
<1>3. \A op \in MessageOps, m \in Messages : Request(op, m, <<>>) \in RequestType
  BY <1>1 DEF Request, RequestType
<1>4. \A ch \in Channels : Request("expire", ch, <<>>) \in RequestType
  BY <1>1 DEF Request, RequestType
<1>5. \A c \in Clients : Request("range", c, <<mid[c]>>) \in RequestType
  BY <1>1, <1>2 DEF Request, RequestType
<1>6. \A c \in Clients, ids \in Seq(Ids) : Request("mget", c, ids) \in RequestType
  BY <1>1 DEF Request, RequestType
<1> QED BY <1>3, <1>4, <1>5, <1>6 DEF TickType

LEMMA OneEntry ==
  ASSUME NEW x
  PROVE  DOMAIN <<x>> = {1} /\ <<x>>[1] = x
<1>1. x \in {x} /\ <<x>> \in Seq({x}) /\ Len(<<x>>) = 1
  OBVIOUS
<1> QED BY <1>1

LEMMA BroadcastEnds ==
  ASSUME BaseInv, NEW p \in Processes, NEW m \in Messages, idOf[m] # 0,
         Broadcasts(p, m), idOf' = idOf
  PROVE  /\ EndsTyped' /\ Waiting' /\ relay' \in [Processes -> [Processes -> Seq(Messages)]]
         /\ Relaying'
         /\ \A c \in Clients : link[c] = "loading" => link'[c] = "loading" /\ home'[c] = home[c]
<1>1. relay' = [relay EXCEPT ![p] =
         [q \in Processes |-> IF q = p THEN relay[p][q] ELSE Append(relay[p][q], m)]]
  BY DEF Broadcasts
<1>2. relay \in [Processes -> [Processes -> Seq(Messages)]]
  BY DEF BaseInv, Types
<1>3. relay' \in [Processes -> [Processes -> Seq(Messages)]]
  BY <1>1, <1>2
<1>4. Relaying'
  <2> SUFFICES ASSUME NEW r \in Processes, NEW q \in Processes, NEW i \in DOMAIN relay'[r][q]
               PROVE  idOf[relay'[r][q][i]] # 0
    BY DEF Relaying
  <2>1. CASE r = p /\ q # p
    <3>1. relay'[r][q] = Append(relay[p][q], m) /\ relay[p][q] \in Seq(Messages)
      BY <1>1, <1>2, <2>1
    <3>2. relay'[r][q][i] = m \/ (i \in DOMAIN relay[p][q] /\ relay'[r][q][i] = relay[p][q][i])
      BY <3>1
    <3> QED BY <3>2 DEF BaseInv, Relaying
  <2>2. CASE ~(r = p /\ q # p)
    <3>1. relay'[r][q] = relay[r][q]
      BY <1>1, <1>2, <2>2
    <3> QED BY <3>1 DEF BaseInv, Relaying
  <2> QED BY <2>1, <2>2
<1> QED BY <1>3, <1>4, ServedEnds DEF BaseInv, Broadcasts

LEMMA SameEnds ==
  ASSUME Types, Waiting, UNCHANGED Ends, idOf' = idOf
  PROVE  EndsTyped' /\ Waiting'
<1>1. Ids' = Ids /\ Top' = Top
  BY SameTop
<1> QED BY <1>1 DEF EndsTyped, Waiting, Types, Ends

-----------------------------------------------------------------------------
(***************************************************************************)
(* BaseInv, action by action.                                              *)
(***************************************************************************)
LEMMA IdGivenBase ==
  ASSUME BaseInv, NEW p \in Processes, IdGiven(p, pipe[p][1].who), UNCHANGED Store,
         pipe[p] # <<>>, pipe[p][1].op \in {"incr", "startdate"}, pipe[p][1].done,
         startDate' \in [Processes -> BOOLEAN], UNCHANGED bounds
  PROVE  BaseInv'
<1> DEFINE r == pipe[p][1]
           m == r.who
<1>0. Types /\ Waiting
  BY DEF BaseInv
<1>1. r \in RequestType /\ 1 \in DOMAIN pipe[p]
  BY <1>0, HeadFacts
<1>2. m \in Messages
  BY <1>1 DEF RequestType, MessageOps
<1>3. idOf[m] # 0
  BY <1>1 DEF BaseInv, Drawing, Draws, HasDrawn, MessageOps
<1>4. ~Loads(r)
  BY DEF Loads, LoadOps
<1>5. /\ published' \in SUBSET Messages /\ published \subseteq published'
      /\ losses' \in Nat /\ breaks' \in Nat
  BY <1>0 DEF bounds, Types
<1>6. ASSUME NEW op \in {"save", "startdate"}, UNCHANGED <<Ends, relay>>,
             QueueStep(p, 1, <<Request(op, m, <<>>)>>, 0, <<>>)
      PROVE  BaseInv'
  <2> DEFINE x == Request(op, m, <<>>)
  <2>1. x \in RequestType
    BY <1>0, <1>2, RequestFacts DEF MessageOps
  <2>2. Additions(<<x>>, <<>>)
    BY <2>1 DEF Additions
  <2>3. NewDraws(<<x>>, <<>>)
    <3>1. x.op = op /\ x.who = m /\ x.done = FALSE
      BY DEF Request
    <3> HIDE DEF x
    <3> QED BY <1>3, <3>1 DEF NewDraws, Draws
  <2>4. NewLoads(p, 1, <<x>>, 0, <<>>)
    <3>1. ~Loads(x)
      BY DEF Request, Loads, LoadOps
    <3> HIDE DEF x
    <3> QED BY <1>6, <3>1 DEF NewLoads, Ends
  <2>5. EndsTyped' /\ Waiting'
    BY <1>0, <1>6, SameEnds DEF QueueStep
  <2>6. relay' \in [Processes -> [Processes -> Seq(Messages)]] /\ Relaying'
    BY <1>6 DEF BaseInv, Types, Relaying, QueueStep
  <2> QED BY <1>5, <1>6, <2>2, <2>3, <2>4, <2>5, <2>6, QueueBase
<1>7. ASSUME QueueStep(p, 1, <<>>, 0, <<>>), Broadcasts(p, m)
      PROVE  BaseInv'
  <2>1. Additions(<<>>, <<>>)
    BY DEF Additions
  <2>2. NewDraws(<<>>, <<>>)
    BY DEF NewDraws
  <2>3. /\ EndsTyped' /\ Waiting' /\ relay' \in [Processes -> [Processes -> Seq(Messages)]]
        /\ Relaying'
        /\ \A c \in Clients : link[c] = "loading" => link'[c] = "loading" /\ home'[c] = home[c]
    BY <1>2, <1>3, <1>7, BroadcastEnds DEF QueueStep
  <2>4. NewLoads(p, 1, <<>>, 0, <<>>)
    BY <2>3 DEF NewLoads
  <2> QED BY <1>5, <1>7, <2>1, <2>2, <2>3, <2>4, QueueBase
<1> QED BY <1>6, <1>7 DEF IdGiven

(* A step of one process that leaves its clients alone. *)
LEMMA QuietBase ==
  ASSUME BaseInv, NEW p \in Processes, NEW d \in {0, 1}, NEW new, NEW put,
         Additions(new, put), QueueStep(p, d, new, 0, put), NewDraws(new, put),
         NewLoads(p, d, new, 0, put), UNCHANGED <<Store, Ends, startDate, relay>>,
         published' \in SUBSET Messages, published \subseteq published', UNCHANGED <<losses, breaks>>
  PROVE  BaseInv'
<1>1. Types /\ Waiting /\ idOf' = idOf
  BY DEF BaseInv, QueueStep
<1>2. EndsTyped' /\ Waiting'
  BY <1>1, SameEnds
<1>3. /\ relay' \in [Processes -> [Processes -> Seq(Messages)]] /\ Relaying'
      /\ startDate' \in [Processes -> BOOLEAN] /\ losses' \in Nat /\ breaks' \in Nat
  BY <1>1 DEF BaseInv, Types, Relaying
<1> QED BY <1>2, <1>3, QueueBase

LEMMA SavedBase ==
  ASSUME BaseInv, NEW p \in Processes, Saved(p)
  PROVE  BaseInv'
<1> DEFINE m == pipe[p][1].who
           x == Request("ttl", m, <<>>)
           t == [op |-> "saved", who |-> m, args |-> <<>>]
<1>0. Types
  BY DEF BaseInv
<1>1. /\ pipe[p] # <<>> /\ pipe[p][1].op = "save" /\ pipe[p][1].done
      /\ QueueStep(p, 1, <<x>>, 0, <<t>>)
      /\ UNCHANGED <<Store, Ends, startDate, relay, bounds>>
  BY <1>0, SavedForm
<1>2. m \in Messages /\ idOf[m] # 0
  <2>1. pipe[p][1] \in RequestType /\ 1 \in DOMAIN pipe[p]
    BY <1>0, <1>1, HeadFacts
  <2>2. HasDrawn(pipe[p][1])
    BY <1>1 DEF HasDrawn, Draws, MessageOps
  <2> QED BY <1>1, <2>1, <2>2 DEF RequestType, MessageOps, BaseInv, Drawing
<1>3. x \in RequestType /\ t \in TickType
  BY <1>0, <1>2, RequestFacts DEF MessageOps
<1>4. /\ x.op = "ttl" /\ x.who = m /\ x.done = FALSE
      /\ t.op = "saved" /\ t.who = m
  BY DEF Request
<1>5. ~Loads(pipe[p][1]) /\ ~Loads(x)
  BY <1>1, <1>4 DEF Loads, LoadOps
<1> HIDE DEF x, t
<1>6. Additions(<<x>>, <<t>>)
  BY <1>3 DEF Additions
<1>10. /\ \A k \in DOMAIN <<x>> : k = 1 /\ <<x>>[k] = x
       /\ \A k \in DOMAIN <<t>> : k = 1 /\ <<t>>[k] = t
  BY OneEntry
<1>7. NewDraws(<<x>>, <<t>>)
  BY <1>2, <1>4, <1>10 DEF NewDraws, Draws
<1>8. NewLoads(p, 1, <<x>>, 0, <<t>>)
  <2>1. t.op # "loaded"
    BY <1>4
  <2>2. /\ \A k \in DOMAIN <<x>> : ~Loads(<<x>>[k])
        /\ \A k \in DOMAIN <<t>> : <<t>>[k].op # "loaded"
    BY <1>5, <1>10, <2>1
  <2> QED BY <1>1, <2>2 DEF NewLoads, Ends
<1>9. published' \in SUBSET Messages /\ published \subseteq published' /\ UNCHANGED <<losses, breaks>>
  BY <1>0, <1>1 DEF Types, bounds
<1> QED BY <1>1, <1>6, <1>7, <1>8, <1>9, QuietBase

LEMMA ExpiresTyped ==
  ASSUME Types, NEW chs \in Seq(Channels)
  PROVE  [k \in DOMAIN chs |-> Request("expire", chs[k], <<>>)] \in Seq(RequestType)
<1>1. DOMAIN chs = 1..Len(chs) /\ Len(chs) \in Nat /\ \A k \in DOMAIN chs : chs[k] \in Channels
  OBVIOUS
<1>2. \A k \in 1..Len(chs) : Request("expire", chs[k], <<>>) \in RequestType
  BY <1>1, RequestFacts
<1>3. ASSUME NEW n \in Nat, NEW F(_), \A k \in 1..n : F(k) \in RequestType
      PROVE  [k \in 1..n |-> F(k)] \in Seq(RequestType)
  BY <1>3
<1> QED BY <1>1, <1>2, <1>3

LEMMA TTLBase ==
  ASSUME BaseInv, NEW p \in Processes, TTLReplied(p)
  PROVE  BaseInv'
<1> DEFINE chs == pipe[p][1].reply
           new == [k \in DOMAIN chs |-> Request("expire", chs[k], <<>>)]
<1>0. Types
  BY DEF BaseInv
<1>1. /\ pipe[p] # <<>> /\ pipe[p][1].op = "ttl" /\ pipe[p][1].done
      /\ QueueStep(p, 1, new, 0, <<>>)
      /\ UNCHANGED <<Store, Ends, startDate, relay, bounds>>
  BY <1>0, TTLForm
<1>2. chs \in Seq(Channels)
  <2>1. pipe[p][1] \in RequestType
    BY <1>0, <1>1, HeadFacts
  <2> QED BY <1>1, <2>1 DEF RequestType, MessageOps
<1>3. new \in Seq(RequestType)
  BY <1>0, <1>2, ExpiresTyped
<1>4. \A k \in DOMAIN new : new[k].op = "expire" /\ new[k].done = FALSE
  BY DEF Request
<1>5. ~Loads(pipe[p][1]) /\ \A k \in DOMAIN new : ~Loads(new[k])
  BY <1>1, <1>4 DEF Loads, LoadOps
<1> HIDE DEF new
<1>6. Additions(new, <<>>)
  BY <1>3 DEF Additions
<1>7. NewDraws(new, <<>>)
  BY <1>4 DEF NewDraws, Draws, HasDrawn, MessageOps
<1>8. NewLoads(p, 1, new, 0, <<>>)
  BY <1>1, <1>5 DEF NewLoads, Ends
<1>9. published' \in SUBSET Messages /\ published \subseteq published' /\ UNCHANGED <<losses, breaks>>
  BY <1>0, <1>1 DEF Types, bounds
<1> QED BY <1>1, <1>6, <1>7, <1>8, <1>9, QuietBase

LEMMA ExpireBase ==
  ASSUME BaseInv, NEW p \in Processes, ExpireReplied(p)
  PROVE  BaseInv'
<1>0. Types
  BY DEF BaseInv
<1>1. /\ QueueStep(p, 1, <<>>, 0, <<>>) /\ pipe[p][1].op = "expire"
      /\ UNCHANGED <<Store, Ends, startDate, relay, bounds>>
  BY <1>0, ExpireForm
<1>2. Additions(<<>>, <<>>) /\ NewDraws(<<>>, <<>>)
  BY DEF Additions, NewDraws
<1>3. NewLoads(p, 1, <<>>, 0, <<>>)
  BY <1>1 DEF NewLoads, Ends
<1>4. published' \in SUBSET Messages /\ published \subseteq published' /\ UNCHANGED <<losses, breaks>>
  BY <1>0, <1>1 DEF Types, bounds
<1> QED BY <1>1, <1>2, <1>3, <1>4, QuietBase

(* The client of a load that was answered. *)
LEMMA LoadFacts ==
  ASSUME BaseInv, NEW p \in Processes, pipe[p] # <<>>, pipe[p][1].op \in LoadOps
  PROVE  LET r == pipe[p][1] IN
         /\ r \in RequestType /\ Loads(r) /\ r.who \in Clients
         /\ link[r.who] = "loading" /\ home[r.who] = p
         /\ r.op = "range" => r.reply \in Seq(SUBSET Ids)
         /\ r.op = "mget" => r.reply \in Seq(Ids)
<1>1. Types /\ pipe[p][1] \in RequestType /\ 1 \in DOMAIN pipe[p]
  BY HeadFacts DEF BaseInv
<1>2. Loads(pipe[p][1])
  BY DEF Loads
<1> QED BY <1>1, <1>2 DEF RequestType, MessageOps, LoadOps, BaseInv, Loading

LEMMA RangeBase ==
  ASSUME BaseInv, NEW p \in Processes, RangeReplied(p)
  PROVE  BaseInv'
<1> DEFINE c == pipe[p][1].who
           ids == LastOnes(Sorted(pipe[p][1].reply), ReplayLimit)
           x == Request("mget", c, ids)
<1>0. Types /\ Waiting
  BY DEF BaseInv
<1>1. /\ pipe[p] # <<>> /\ pipe[p][1].op = "range" /\ pipe[p][1].done
      /\ UNCHANGED <<Store, startDate, relay, bounds>>
      /\ \/ /\ ids # <<>>
            /\ QueueStep(p, 1, <<x>>, 0, <<>>) /\ UNCHANGED Ends
         \/ /\ ids = <<>>
            /\ QueueStep(p, 1, <<>>, 0, <<>>) /\ Told(c, <<>>)
  BY <1>0, RangeForm
<1>2. /\ Loads(pipe[p][1]) /\ c \in Clients /\ link[c] = "loading" /\ home[c] = p
      /\ pipe[p][1].reply \in Seq(SUBSET Ids)
  BY <1>1, LoadFacts DEF LoadOps
<1>3. ids \in Seq(Ids)
  <2> DEFINE d == Len(pipe[p][1].reply)
  <2>1. Top \in Nat /\ d \in Nat /\ ReplayLimit \in Nat
    BY <1>0, <1>2, TopFacts, DeliveryAssumption
  <2>2. pipe[p][1].reply \in [1..d -> SUBSET (1..Top)]
    BY <1>2 DEF Ids
  <2>3. Sorted(pipe[p][1].reply) \in Seq(1..Top)
    <3> HIDE DEF d
    <3> QED BY <2>1, <2>2, SortedFacts
  <2> QED BY <2>1, <2>3, LastOnesFacts DEF Ids
<1>4. published' \in SUBSET Messages /\ published \subseteq published' /\ losses' \in Nat
      /\ breaks' \in Nat /\ UNCHANGED <<losses, breaks>>
  BY <1>0, <1>1 DEF Types, bounds
<1> HIDE DEF ids
<1>5. CASE ids # <<>>
  <2>0. QueueStep(p, 1, <<x>>, 0, <<>>) /\ UNCHANGED Ends
    BY <1>1, <1>5
  <2>1. x \in RequestType
    BY <1>0, <1>2, <1>3, RequestFacts
  <2>2. x.op = "mget" /\ x.who = c /\ x.done = FALSE
    BY DEF Request
  <2> HIDE DEF x
  <2>3. Additions(<<x>>, <<>>)
    BY <2>1 DEF Additions
  <2>4. NewDraws(<<x>>, <<>>)
    BY <2>2 DEF NewDraws, Draws, HasDrawn, MessageOps
  <2>5. NewLoads(p, 1, <<x>>, 0, <<>>)
    BY <1>2, <2>0, <2>2 DEF NewLoads, Ends, Begins, Leaves
  <2> QED BY <1>1, <1>4, <2>0, <2>3, <2>4, <2>5, QuietBase
<1>6. CASE ids = <<>>
  <2>0. QueueStep(p, 1, <<>>, 0, <<>>) /\ Told(c, <<>>)
    BY <1>1, <1>6
  <2>1. Additions(<<>>, <<>>) /\ NewDraws(<<>>, <<>>)
    BY DEF Additions, NewDraws
  <2>2. /\ EndsTyped' /\ Waiting'
        /\ \A b \in Clients : b # c => link'[b] = link[b] /\ home'[b] = home[b]
    <3>1. <<>> \in Seq(Ids)
      OBVIOUS
    <3> QED BY <1>0, <1>2, <2>0, <3>1, ToldEnds DEF QueueStep
  <2>3. NewLoads(p, 1, <<>>, 0, <<>>)
    BY <1>2, <2>2 DEF NewLoads, Leaves
  <2>4. /\ startDate' \in [Processes -> BOOLEAN]
        /\ relay' \in [Processes -> [Processes -> Seq(Messages)]] /\ Relaying'
    BY <1>1, <2>0 DEF BaseInv, Types, Relaying, QueueStep
  <2> QED BY <1>1, <1>4, <2>0, <2>1, <2>2, <2>3, <2>4, QueueBase
<1> QED BY <1>5, <1>6

LEMMA MessagesBase ==
  ASSUME BaseInv, NEW p \in Processes, MessagesReplied(p)
  PROVE  BaseInv'
<1> DEFINE c == pipe[p][1].who
           ids == pipe[p][1].reply
           t == [op |-> "loaded", who |-> c, args |-> ids]
<1>0. Types
  BY DEF BaseInv
<1>1. /\ pipe[p] # <<>> /\ pipe[p][1].op = "mget" /\ pipe[p][1].done
      /\ QueueStep(p, 1, <<>>, 0, <<t>>)
      /\ UNCHANGED <<Store, Ends, startDate, relay, bounds>>
  BY <1>0, MessagesForm
<1>2. /\ Loads(pipe[p][1]) /\ c \in Clients /\ link[c] = "loading" /\ home[c] = p
      /\ ids \in Seq(Ids)
  BY <1>1, LoadFacts DEF LoadOps
<1>3. t \in TickType
  BY <1>0, <1>2, RequestFacts
<1>4. t.op = "loaded" /\ t.who = c
  OBVIOUS
<1> HIDE DEF t
<1>5. DOMAIN <<t>> = {1} /\ <<t>>[1] = t
  BY OneEntry
<1>6. Additions(<<>>, <<t>>)
  BY <1>3 DEF Additions
<1>7. NewDraws(<<>>, <<t>>)
  BY <1>4, <1>5 DEF NewDraws
<1>8. NewLoads(p, 1, <<>>, 0, <<t>>)
  BY <1>1, <1>2, <1>4, <1>5 DEF NewLoads, Ends, Begins, Leaves
<1>9. published' \in SUBSET Messages /\ published \subseteq published' /\ UNCHANGED <<losses, breaks>>
  BY <1>0, <1>1 DEF Types, bounds
<1> QED BY <1>1, <1>6, <1>7, <1>8, <1>9, QuietBase

LEMMA TickBase ==
  ASSUME BaseInv, NEW p \in Processes, Tick(p)
  PROVE  BaseInv'
<1> DEFINE t == ticks[p][1]
<1>0. Types /\ Waiting
  BY DEF BaseInv
<1>1. /\ ticks[p] # <<>> /\ QueueStep(p, 0, <<>>, 1, <<>>)
      /\ UNCHANGED <<Store, startDate, bounds>>
      /\ \/ t.op = "saved" /\ Broadcasts(p, t.who)
         \/ t.op = "loaded" /\ Told(t.who, t.args) /\ UNCHANGED relay
  BY <1>0, TickForm
<1>2. t \in TickType /\ 1 \in DOMAIN ticks[p]
  BY <1>0, <1>1 DEF Types
<1>3. /\ published' \in SUBSET Messages /\ published \subseteq published' /\ losses' \in Nat
      /\ breaks' \in Nat /\ startDate' \in [Processes -> BOOLEAN] /\ idOf' = idOf
  BY <1>0, <1>1 DEF Types, bounds, QueueStep
<1>4. Additions(<<>>, <<>>) /\ NewDraws(<<>>, <<>>)
  BY DEF Additions, NewDraws
<1>5. CASE t.op = "saved"
  <2>1. t.who \in Messages /\ idOf[t.who] # 0 /\ Broadcasts(p, t.who)
    BY <1>1, <1>2, <1>5 DEF TickType, BaseInv, Drawing
  <2>2. /\ EndsTyped' /\ Waiting' /\ relay' \in [Processes -> [Processes -> Seq(Messages)]]
        /\ Relaying'
        /\ \A c \in Clients : link[c] = "loading" => link'[c] = "loading" /\ home'[c] = home[c]
    BY <1>3, <2>1, BroadcastEnds
  <2>3. NewLoads(p, 0, <<>>, 1, <<>>)
    BY <2>2 DEF NewLoads
  <2> QED BY <1>1, <1>3, <1>4, <2>2, <2>3, QueueBase
<1>6. CASE t.op = "loaded"
  <2>1. /\ t.who \in Clients /\ t.args \in Seq(Ids) /\ link[t.who] = "loading"
        /\ Told(t.who, t.args) /\ UNCHANGED relay
    BY <1>1, <1>2, <1>6 DEF TickType, BaseInv, Loading
  <2>2. /\ EndsTyped' /\ Waiting'
        /\ \A b \in Clients : b # t.who => link'[b] = link[b] /\ home'[b] = home[b]
    BY <1>0, <1>3, <2>1, ToldEnds
  <2>3. NewLoads(p, 0, <<>>, 1, <<>>)
    BY <1>6, <2>2 DEF NewLoads, Leaves
  <2>4. relay' \in [Processes -> [Processes -> Seq(Messages)]] /\ Relaying'
    BY <1>3, <2>1 DEF BaseInv, Types, Relaying
  <2> QED BY <1>1, <1>3, <1>4, <2>2, <2>3, <2>4, QueueBase
<1> QED BY <1>1, <1>5, <1>6

LEMMA PublishBase ==
  ASSUME BaseInv, NEW m \in Messages, NEW p \in Processes, Publish(m, p)
  PROVE  BaseInv'
<1> DEFINE x == Request("incr", m, <<>>)
<1>0. Types
  BY DEF BaseInv
<1>1. /\ m \notin published /\ published' = published \cup {m}
      /\ QueueStep(p, 0, <<x>>, 0, <<>>)
      /\ UNCHANGED <<Store, Ends, startDate, relay, losses, breaks>>
  BY <1>0, PublishForm
<1>2. idOf[m] = 0
  BY <1>1 DEF BaseInv, Numbering
<1>3. x \in RequestType
  BY <1>0, RequestFacts DEF MessageOps
<1>4. x.op = "incr" /\ x.who = m /\ x.done = FALSE
  BY DEF Request
<1> HIDE DEF x
<1>5. DOMAIN <<x>> = {1} /\ <<x>>[1] = x
  BY OneEntry
<1>6. Additions(<<x>>, <<>>)
  BY <1>3 DEF Additions
<1>7. NewDraws(<<x>>, <<>>)
  BY <1>1, <1>2, <1>4, <1>5 DEF NewDraws, Draws, HasDrawn
<1>8. NewLoads(p, 0, <<x>>, 0, <<>>)
  BY <1>1, <1>4, <1>5 DEF NewLoads, Ends, Loads, LoadOps
<1>9. published' \in SUBSET Messages /\ published \subseteq published'
  BY <1>0, <1>1 DEF Types
<1> QED BY <1>1, <1>6, <1>7, <1>8, <1>9, QuietBase

LEMMA ConnectBase ==
  ASSUME BaseInv, NEW c \in Clients, NEW p \in Processes, Connect(c, p)
  PROVE  BaseInv'
<1> DEFINE x == Request("range", c, <<mid[c]>>)
<1>0. Types /\ Waiting
  BY DEF BaseInv
<1>1. /\ link[c] = "off"
      /\ link' = [link EXCEPT ![c] = "loading"] /\ home' = [home EXCEPT ![c] = p]
      /\ QueueStep(p, 0, <<x>>, 0, <<>>)
      /\ UNCHANGED <<Store, inbox, mid, got, startDate, relay, bounds>>
  BY <1>0, ConnectForm
<1>2. x \in RequestType
  BY <1>0, RequestFacts
<1>3. x.op = "range" /\ x.who = c /\ x.done = FALSE
  BY DEF Request
<1> HIDE DEF x
<1>4. DOMAIN <<x>> = {1} /\ <<x>>[1] = x
  BY OneEntry
<1>5. Additions(<<x>>, <<>>)
  BY <1>2 DEF Additions
<1>6. NewDraws(<<x>>, <<>>)
  BY <1>3, <1>4 DEF NewDraws, Draws, HasDrawn, MessageOps
<1>7. /\ link'[c] = "loading" /\ home'[c] = p
      /\ \A b \in Clients : b # c => link'[b] = link[b] /\ home'[b] = home[b]
  BY <1>0, <1>1 DEF Types
<1>8. NewLoads(p, 0, <<x>>, 0, <<>>)
  BY <1>1, <1>3, <1>4, <1>7 DEF NewLoads, Begins
<1>9. EndsTyped' /\ Waiting'
  <2>1. Ids' = Ids /\ Top' = Top
    BY <1>1, SameTop DEF QueueStep
  <2>2. EndsTyped'
    BY <1>0, <1>1, <2>1 DEF EndsTyped, Types
  <2>3. Waiting'
    BY <1>0, <1>1, <1>7 DEF Waiting
  <2> QED BY <2>2, <2>3
<1>10. /\ published' \in SUBSET Messages /\ published \subseteq published' /\ losses' \in Nat
       /\ breaks' \in Nat /\ startDate' \in [Processes -> BOOLEAN]
       /\ relay' \in [Processes -> [Processes -> Seq(Messages)]] /\ Relaying'
  BY <1>0, <1>1 DEF BaseInv, Types, bounds, QueueStep, Relaying
<1> QED BY <1>1, <1>5, <1>6, <1>8, <1>9, <1>10, QueueBase

(* The ends of the connections move, the queues do not. *)
LEMMA StillBase ==
  ASSUME BaseInv, Still, EndsTyped', Waiting', losses' \in Nat, breaks' \in Nat,
         \A b \in Clients : link[b] = "loading" => link'[b] = "loading" /\ home'[b] = home[b]
  PROVE  BaseInv'
<1>1. Types /\ idOf' = idOf /\ UNCHANGED <<zset, bodies, hasTTL, pipe, ticks, startDate, relay, published>>
  BY DEF BaseInv, Still, Store
<1>2. Top' = Top /\ Ids' = Ids /\ RequestType' = RequestType /\ TickType' = TickType
  BY <1>1, SameTop
<1>3. Types'
  BY <1>1, <1>2 DEF Types, EndsTyped
<1>4. Numbering' /\ Drawing' /\ Relaying' /\ Pipelined' /\ Expiry'
  BY <1>1, <1>2 DEF BaseInv, Numbering, Drawing, Relaying, Pipelined, Expiry
<1>5. ASSUME NEW p \in Processes
      PROVE  /\ \A i \in DOMAIN pipe[p] : Loads(pipe[p][i]) => pipe[p][i].who \in Clients
             /\ \A i \in DOMAIN ticks[p] : ticks[p][i].op = "loaded" => ticks[p][i].who \in Clients
  <2>1. /\ \A i \in DOMAIN pipe[p] : pipe[p][i] \in RequestType
        /\ \A i \in DOMAIN ticks[p] : ticks[p][i] \in TickType
    BY <1>1 DEF Types
  <2> QED BY <2>1 DEF RequestType, TickType, Loads, LoadOps, MessageOps
<1>6. Loading'
  BY <1>1, <1>5 DEF BaseInv, Loading
<1> QED BY <1>3, <1>4, <1>6 DEF BaseInv

LEMMA TimeoutBase ==
  ASSUME BaseInv, NEW c \in Clients, PollTimeout(c)
  PROVE  BaseInv'
<1>0. Types /\ Waiting
  BY DEF BaseInv
<1>1. /\ c \notin Websockets /\ link[c] = "on"
      /\ link' = [link EXCEPT ![c] = "off"]
      /\ Still /\ UNCHANGED <<home, inbox, mid, got, losses, breaks>>
  BY <1>0, TimeoutForm
<1>2. Top' = Top /\ Ids' = Ids
  BY <1>1, SameTop DEF Still
<1>3. EndsTyped' /\ Waiting'
  BY <1>0, <1>1, <1>2 DEF EndsTyped, Waiting, Types
<1> QED BY <1>0, <1>1, <1>3, StillBase DEF Types

LEMMA CutBase ==
  ASSUME BaseInv, NEW c \in Clients, NEW n \in Nat, Cut(c, n)
  PROVE  BaseInv'
<1>0. Types /\ Waiting
  BY DEF BaseInv
<1>1. /\ Still /\ UNCHANGED <<home, mid, got, losses>> /\ breaks' \in {breaks, breaks + 1}
      /\ inbox' \in [Clients -> Seq(Ids)]
      /\ \A b \in Clients : b # c => inbox'[b] = inbox[b]
      /\ inbox[c] = <<>> => inbox'[c] = <<>>
      /\ \/ link' = link
         \/ /\ link' = [link EXCEPT ![c] = "off"]
            /\ link[c] \in {"on", "answered"} /\ inbox'[c] = <<>>
  BY <1>0, CutFacts DEF Cut
<1>2. Top' = Top /\ Ids' = Ids
  BY <1>1, SameTop DEF Still
<1>3. EndsTyped'
  BY <1>0, <1>1, <1>2 DEF EndsTyped, Types
<1>4. Waiting'
  BY <1>0, <1>1 DEF Waiting, Types
<1>5. losses' \in Nat /\ breaks' \in Nat
  BY <1>0, <1>1 DEF Types
<1>6. \A b \in Clients : link[b] = "loading" => link'[b] = "loading" /\ home'[b] = home[b]
  BY <1>0, <1>1 DEF Types
<1> QED BY <1>1, <1>3, <1>4, <1>5, <1>6, StillBase

LEMMA ReceiveBase ==
  ASSUME BaseInv, Sockets, NEW c \in Clients, Receive(c)
  PROVE  BaseInv'
<1> DEFINE q == inbox[c]
           n == IF c \in Websockets THEN 1 ELSE Len(q)
<1>0. Types /\ Waiting
  BY DEF BaseInv
<1>1. /\ q # <<>>
      /\ got' = [got EXCEPT ![c] = @ \o SubSeq(q, 1, n)]
      /\ inbox' = [inbox EXCEPT ![c] = SubSeq(@, n + 1, Len(@))]
      /\ mid' = [mid EXCEPT ![c] = q[n]]
      /\ link' = [link EXCEPT ![c] = IF c \in Websockets THEN @ ELSE "off"]
      /\ Still /\ UNCHANGED <<home, losses, breaks>>
  BY <1>0, ReceiveForm
<1>2. Top' = Top /\ Ids' = Ids
  BY <1>1, SameTop DEF Still
<1>3. /\ q \in Seq(Ids) /\ n \in 1..Len(q) /\ Len(q) \in Nat
      /\ SubSeq(q, 1, n) \in Seq(Ids) /\ SubSeq(q, n + 1, Len(q)) \in Seq(Ids) /\ q[n] \in Ids
      /\ c \notin Websockets => SubSeq(q, n + 1, Len(q)) = <<>>
  <2>1. q \in Seq(Ids) /\ q # <<>> /\ Len(q) \in Nat /\ Len(q) # 0
    BY <1>0, <1>1 DEF Types
  <2>2. n \in 1..Len(q)
    BY <2>1
  <2>3. c \notin Websockets => n = Len(q)
    OBVIOUS
  <2> HIDE DEF n, q
  <2>4. q[n] \in Ids
    BY <2>1, <2>2
  <2>5. SubSeq(q, 1, n) \in Seq(Ids)
    BY <2>1, <2>2
  <2>6. SubSeq(q, n + 1, Len(q)) \in Seq(Ids)
    BY <2>1, <2>2
  <2>7. n = Len(q) => SubSeq(q, n + 1, Len(q)) = <<>>
    BY <2>1, <2>2
  <2> QED BY <2>1, <2>2, <2>3, <2>4, <2>5, <2>6, <2>7
<1>4. /\ got[c] \o SubSeq(q, 1, n) \in Seq(Ids) /\ got[c] \in Seq(Ids)
  <2>1. got[c] \in Seq(Ids)
    BY <1>0 DEF Types
  <2> QED BY <1>3, <2>1, ConcatProperties
<1>5. link[c] = "answered" \/ (link[c] = "on" /\ c \in Websockets)
  BY <1>0, <1>1 DEF Waiting
<1>6. inbox'[c] = SubSeq(q, n + 1, Len(q)) /\ \A b \in Clients : b # c => inbox'[b] = inbox[b]
  BY <1>0, <1>1 DEF Types
<1> HIDE DEF q, n
<1>7. EndsTyped'
  <2>1. q[n] \in 0..Top
    BY <1>3 DEF Ids
  <2>2. mid' \in [Clients -> 0..Top]
    BY <1>0, <1>1, <2>1 DEF Types
  <2>3. got' \in [Clients -> Seq(Ids)]
    BY <1>0, <1>1, <1>4 DEF Types
  <2>4. inbox' \in [Clients -> Seq(Ids)]
    BY <1>0, <1>1, <1>3 DEF Types, q
  <2>5. link' \in [Clients -> {"off", "loading", "on", "answered"}] /\ home' \in [Clients -> Processes]
    BY <1>0, <1>1 DEF Types
  <2> QED BY <1>2, <2>2, <2>3, <2>4, <2>5 DEF EndsTyped
<1>8. Waiting'
  <2> SUFFICES ASSUME NEW b \in Clients, inbox'[b] # <<>>
               PROVE  link'[b] = "answered" \/ (link'[b] = "on" /\ b \in Websockets)
    BY DEF Waiting
  <2>1. CASE b = c
    BY <1>0, <1>1, <1>3, <1>5, <1>6, <2>1 DEF Types
  <2>2. CASE b # c
    BY <1>0, <1>1, <1>6, <2>2 DEF Types, Waiting
  <2> QED BY <2>1, <2>2
<1> QED BY <1>0, <1>1, <1>5, <1>7, <1>8, StillBase DEF Types

LEMMA RelayedBase ==
  ASSUME BaseInv, NEW p \in Processes, NEW q \in Processes, Relayed(p, q)
  PROVE  BaseInv'
<1> DEFINE m == relay[p][q][1]
<1>0. Types /\ Waiting
  BY DEF BaseInv
<1>1. /\ relay[p][q] # <<>> /\ Served(q, m)
      /\ relay' = [relay EXCEPT ![p][q] = Tail(@)]
      /\ UNCHANGED <<idOf, pipe, ticks, Store, startDate, bounds>>
  BY <1>0, RelayedForm
<1>2. relay[p][q] \in Seq(Messages) /\ 1 \in DOMAIN relay[p][q] /\ m \in Messages
  BY <1>0, <1>1 DEF Types
<1>3. idOf[m] # 0
  BY <1>2 DEF BaseInv, Relaying
<1>4. /\ EndsTyped' /\ Waiting'
      /\ \A c \in Clients : link[c] = "loading" => link'[c] = "loading" /\ home'[c] = home[c]
  BY <1>0, <1>1, <1>2, <1>3, ServedEnds
<1>5. QueueStep(q, 0, <<>>, 0, <<>>)
  BY <1>0, <1>1, PipeForms, TickForms DEF QueueStep
<1>6. Additions(<<>>, <<>>) /\ NewDraws(<<>>, <<>>)
  BY DEF Additions, NewDraws
<1>7. NewLoads(q, 0, <<>>, 0, <<>>)
  BY <1>4 DEF NewLoads
<1>8. /\ Tail(relay[p][q]) \in Seq(Messages)
      /\ \A i \in DOMAIN Tail(relay[p][q]) :
           i + 1 \in DOMAIN relay[p][q] /\ Tail(relay[p][q])[i] = relay[p][q][i + 1]
  BY <1>1, <1>2
<1>9. /\ relay' \in [Processes -> [Processes -> Seq(Messages)]]
      /\ \A r, s \in Processes : relay'[r][s] = IF r = p /\ s = q THEN Tail(relay[p][q])
                                                                   ELSE relay[r][s]
  BY <1>0, <1>1, <1>8 DEF Types
<1>10. Relaying'
  BY <1>1, <1>8, <1>9 DEF BaseInv, Relaying
<1>11. /\ published' \in SUBSET Messages /\ published \subseteq published' /\ losses' \in Nat
       /\ breaks' \in Nat /\ startDate' \in [Processes -> BOOLEAN]
  BY <1>0, <1>1 DEF Types, bounds
<1> QED BY <1>1, <1>4, <1>5, <1>6, <1>7, <1>9, <1>10, <1>11, QueueBase

LEMMA RelayLostBase ==
  ASSUME BaseInv, NEW p \in Processes, NEW q \in Processes, RelayLost(p, q)
  PROVE  BaseInv'
<1>0. Types /\ Waiting
  BY DEF BaseInv
<1>1. /\ relay' = [relay EXCEPT ![p][q] = <<>>] /\ losses' = losses + 1
      /\ UNCHANGED <<idOf, Store, pipe, ticks, startDate, link, home, inbox, mid, got,
                     sockets, published, breaks>>
  BY <1>0, RelayLostForm
<1>2. EndsTyped' /\ Waiting'
  BY <1>0, <1>1, SameEnds DEF Ends
<1>3. QueueStep(q, 0, <<>>, 0, <<>>)
  BY <1>0, <1>1, PipeForms, TickForms DEF QueueStep
<1>4. Additions(<<>>, <<>>) /\ NewDraws(<<>>, <<>>)
  BY DEF Additions, NewDraws
<1>5. NewLoads(q, 0, <<>>, 0, <<>>)
  BY <1>1 DEF NewLoads
<1>6. /\ relay' \in [Processes -> [Processes -> Seq(Messages)]]
      /\ \A r, t \in Processes : relay'[r][t] = relay[r][t] \/ relay'[r][t] = <<>>
  <2>1. <<>> \in Seq(Messages)
    OBVIOUS
  <2> QED BY <1>0, <1>1, <2>1 DEF Types
<1>7. Relaying'
  <2>1. DOMAIN <<>> = {}
    OBVIOUS
  <2> QED BY <1>1, <1>6, <2>1 DEF BaseInv, Relaying
<1>8. /\ published' \in SUBSET Messages /\ published \subseteq published' /\ losses' \in Nat
      /\ breaks' \in Nat /\ startDate' \in [Processes -> BOOLEAN]
  BY <1>0, <1>1 DEF Types
<1> QED BY <1>1, <1>2, <1>3, <1>4, <1>5, <1>6, <1>7, <1>8, QueueBase

LEMMA LostBase ==
  ASSUME BaseInv, NEW p \in Processes, ConnectionLost(p)
  PROVE  BaseInv'
<1> DEFINE failed == {pipe[p][i].who : i \in {j \in DOMAIN pipe[p] : Loads(pipe[p][j])}}
<1>0. Types /\ Waiting
  BY DEF BaseInv
<1>1. /\ pipe' = [pipe EXCEPT ![p] = <<>>] /\ losses' = losses + 1
      /\ link' = [c \in Clients |-> IF c \in failed THEN "off" ELSE link[c]]
      /\ UNCHANGED <<idOf, Store, ticks, startDate, relay, home, inbox, mid, got,
                     published, breaks>>
  BY <1>0, LostForm
<1>2. Top' = Top /\ Ids' = Ids /\ RequestType' = RequestType /\ TickType' = TickType
  BY <1>1, SameTop
<1>3. \A c \in failed : link[c] = "loading" /\ home[c] = p
  BY DEF BaseInv, Loading
<1>4. /\ pipe' \in [Processes -> Seq(RequestType)]
      /\ \A q \in Processes : \A i \in DOMAIN pipe'[q] : q # p /\ pipe'[q] = pipe[q]
  <2>1. <<>> \in Seq(RequestType) /\ DOMAIN <<>> = {}
    OBVIOUS
  <2> QED BY <1>0, <1>1, <2>1 DEF Types
<1> HIDE DEF failed
<1>5. Types'
  <2>1. link' \in [Clients -> {"off", "loading", "on", "answered"}]
    BY <1>0, <1>1 DEF Types
  <2> QED BY <1>0, <1>1, <1>2, <1>4, <2>1 DEF Types, Store
<1>6. Numbering' /\ Relaying' /\ Expiry'
  BY <1>1, <1>2 DEF BaseInv, Numbering, Relaying, Expiry, Store
<1>7. Drawing' /\ Pipelined'
  BY <1>1, <1>4 DEF BaseInv, Drawing, Pipelined
<1>8. Waiting'
  BY <1>0, <1>1, <1>3 DEF Waiting
<1>9. Loading'
  <2>1. ASSUME NEW q \in Processes, NEW i \in DOMAIN pipe'[q], Loads(pipe'[q][i])
        PROVE  link'[pipe'[q][i].who] = "loading" /\ home'[pipe'[q][i].who] = q
    <3>1. pipe[q][i] \in RequestType /\ Loads(pipe[q][i]) /\ pipe'[q][i] = pipe[q][i] /\ q # p
          /\ i \in DOMAIN pipe[q]
      BY <1>0, <1>4, <2>1 DEF Types
    <3>2. pipe[q][i].who \in Clients
      BY <3>1 DEF RequestType, Loads, LoadOps, MessageOps
    <3>3. link[pipe[q][i].who] = "loading" /\ home[pipe[q][i].who] = q
      BY <3>1 DEF BaseInv, Loading
    <3>4. pipe[q][i].who \notin failed
      BY <1>3, <3>1, <3>3
    <3> QED BY <1>1, <3>1, <3>2, <3>3, <3>4
  <2>2. ASSUME NEW q \in Processes, NEW i \in DOMAIN ticks[q], ticks[q][i].op = "loaded"
        PROVE  link'[ticks[q][i].who] = "loading" /\ home'[ticks[q][i].who] = q
    <3>1. ticks[q][i] \in TickType
      BY <1>0 DEF Types
    <3>2. ticks[q][i].who \in Clients
      BY <2>2, <3>1 DEF TickType
    <3>3. link[ticks[q][i].who] = "loading" /\ home[ticks[q][i].who] = q
      BY <2>2 DEF BaseInv, Loading
    <3>4. ticks[q][i].who \notin failed
      BY <1>3, <2>2, <3>3 DEF failed, BaseInv, Loading
    <3> QED BY <1>1, <3>2, <3>3, <3>4
  <2>3. \A q \in Processes : \A i, j \in DOMAIN pipe'[q] :
          Loads(pipe'[q][i]) /\ Loads(pipe'[q][j]) /\ pipe'[q][i].who = pipe'[q][j].who => i = j
    BY <1>4 DEF BaseInv, Loading
  <2>4. ASSUME NEW q \in Processes, NEW i \in DOMAIN pipe'[q], NEW j \in DOMAIN ticks[q],
               Loads(pipe'[q][i]), ticks[q][j].op = "loaded"
        PROVE  pipe'[q][i].who # ticks[q][j].who
    <3>1. pipe'[q] = pipe[q]
      BY <1>4
    <3> QED BY <2>4, <3>1 DEF BaseInv, Loading
  <2> QED BY <1>1, <2>1, <2>2, <2>3, <2>4 DEF BaseInv, Loading
<1> QED BY <1>5, <1>6, <1>7, <1>8, <1>9 DEF BaseInv

(* Keys expire. *)
LEMMA ExpiringBase ==
  ASSUME BaseInv, MessageExpires \/ ChannelExpires
  PROVE  BaseInv'
<1>0. Types
  BY DEF BaseInv
<1>1. UNCHANGED <<idOf, pipe, ticks, startDate, relay, link, home, inbox, mid, got,
                  published, losses, breaks>>
  BY DEF MessageExpires, ChannelExpires, bounds
<1>2. Top' = Top /\ Ids' = Ids /\ RequestType' = RequestType /\ TickType' = TickType
  BY <1>1, SameTop
<1>3. /\ zset' \in [Channels -> SUBSET Ids] /\ bodies' \in SUBSET Ids
      /\ hasTTL' \in SUBSET Channels /\ Expiry'
  BY <1>0 DEF MessageExpires, ChannelExpires, Types, BaseInv, Expiry
<1>4. Types'
  BY <1>0, <1>1, <1>2, <1>3 DEF Types
<1>5. Numbering' /\ Drawing' /\ Relaying' /\ Pipelined'
  BY <1>1, <1>2 DEF BaseInv, Numbering, Drawing, Relaying, Pipelined
<1>6. Loading' /\ Waiting'
  BY <1>1 DEF BaseInv, Loading, Waiting
<1> QED BY <1>3, <1>4, <1>5, <1>6 DEF BaseInv

(* Redis executes a request. *)
LEMMA ExecuteBase ==
  ASSUME BaseInv, NEW p \in Processes, Execute(p)
  PROVE  BaseInv'
<1>0. Types /\ Numbering
  BY DEF BaseInv
<1>1. PICK i \in DOMAIN pipe[p] : Executed(p, i)
  BY <1>0, ExecuteForm
<1> DEFINE r == pipe[p][i]
           b == [r EXCEPT !.done = TRUE, !.reply = Answer(r)]
<1>2. /\ \A j \in DOMAIN pipe[p] : pipe[p][j].done <=> j < i
      /\ pipe' = [pipe EXCEPT ![p] = [pipe[p] EXCEPT ![i] = b]]
      /\ idOf' = IF r.op = "incr" THEN [idOf EXCEPT ![r.who] = 1 + Max({idOf[m] : m \in Messages})]
                 ELSE idOf
      /\ bodies' = IF r.op = "save" THEN bodies \cup {idOf[r.who]} ELSE bodies
      /\ zset' = IF r.op = "save"
                 THEN [ch \in Channels |-> IF ch \in ToSet(To[r.who])
                                           THEN zset[ch] \cup {idOf[r.who]} ELSE zset[ch]]
                 ELSE zset
      /\ hasTTL' = IF r.op = "expire" /\ zset[r.who] # {} THEN hasTTL \cup {r.who} ELSE hasTTL
      /\ UNCHANGED <<ticks, Ends, startDate, relay, bounds>>
  BY <1>1 DEF Executed
<1>3. /\ r \in RequestType /\ pipe[p] \in Seq(RequestType) /\ i \in Nat
      /\ DOMAIN pipe[p] = 1..Len(pipe[p]) /\ Len(pipe[p]) \in Nat
  BY <1>0 DEF Types
<1>4. ~r.done
  BY <1>2, <1>3
<1>5. b \in RequestType
  BY <1>0, <1>3, AnswerTyped
<1>6. /\ b.op = r.op /\ b.who = r.who /\ b.done = TRUE
  BY <1>3 DEF RequestType
<1>7. r.op = "incr" => r.who \in Messages /\ idOf[r.who] = 0 /\ r.who \in published
  BY <1>3, <1>4 DEF RequestType, MessageOps, BaseInv, Drawing, Draws
<1>8. r.op = "save" => r.who \in Messages /\ idOf[r.who] \in Ids
  <2> SUFFICES ASSUME r.op = "save" PROVE r.who \in Messages /\ idOf[r.who] \in Ids
    OBVIOUS
  <2>1. r.who \in Messages
    BY <1>3 DEF RequestType, MessageOps
  <2>2. idOf[r.who] # 0
    BY DEF BaseInv, Drawing, HasDrawn, Draws, MessageOps
  <2> QED BY <1>0, <2>1, <2>2 DEF Types, Ids
<1>9. r.op = "expire" => r.who \in Channels
  BY <1>3 DEF RequestType, MessageOps
<1> HIDE DEF b, r
<1>10. /\ Top \in Nat /\ Top' \in Nat /\ Top <= Top'
       /\ idOf' \in [Messages -> 0..Top']
       /\ \A m \in Messages : idOf'[m] = IF r.op = "incr" /\ m = r.who THEN Top' ELSE idOf[m]
       /\ r.op = "incr" => Top' = Top + 1
       /\ r.op # "incr" => Top' = Top
  <2>1. CASE r.op = "incr"
    <3>1. Top' = Top + 1 /\ Top \in Nat /\ idOf' = [idOf EXCEPT ![r.who] = Top + 1]
      BY <1>0, <1>2, <1>7, <2>1, NextId
    <3> QED BY <1>0, <1>7, <2>1, <3>1 DEF Types
  <2>2. CASE r.op # "incr"
    <3>1. idOf' = idOf /\ Top' = Top /\ Top \in Nat
      BY <1>0, <1>2, <2>2, SameTop, TopFacts
    <3> QED BY <1>0, <2>2, <3>1 DEF Types
  <2> QED BY <2>1, <2>2
<1>11. /\ Ids \subseteq Ids' /\ 0..Top \subseteq 0..Top'
       /\ Seq(Ids) \subseteq Seq(Ids') /\ SUBSET Ids \subseteq SUBSET Ids'
       /\ RequestType \subseteq RequestType'
       /\ Seq(RequestType) \subseteq Seq(RequestType') /\ Seq(TickType) \subseteq Seq(TickType')
  BY <1>10, MoreTypes
<1>12. /\ pipe' \in [Processes -> Seq(RequestType)]
       /\ \A q \in Processes : DOMAIN pipe'[q] = DOMAIN pipe[q]
       /\ \A q \in Processes : \A j \in DOMAIN pipe[q] :
            pipe'[q][j] = IF q = p /\ j = i THEN b ELSE pipe[q][j]
  BY <1>0, <1>2, <1>3, <1>5 DEF Types
<1>13. UNCHANGED <<ticks, startDate, relay, link, home, inbox, mid, got, published, losses, breaks>>
  BY <1>2 DEF Ends, bounds
<1>14. zset' \in [Channels -> SUBSET Ids] /\ bodies' \in SUBSET Ids /\ hasTTL' \in SUBSET Channels
  BY <1>0, <1>2, <1>8, <1>9 DEF Types
<1>15. Types'
  <2>1. pipe' \in [Processes -> Seq(RequestType')] /\ ticks' \in [Processes -> Seq(TickType')]
    <3>1. ticks \in [Processes -> Seq(TickType)]
      BY <1>0 DEF Types
    <3> QED BY <1>11, <1>12, <1>13, <3>1
  <2>2. /\ zset' \in [Channels -> SUBSET Ids'] /\ bodies' \in SUBSET Ids'
    BY <1>11, <1>14
  <2>3. /\ inbox' \in [Clients -> Seq(Ids')] /\ got' \in [Clients -> Seq(Ids')]
        /\ mid' \in [Clients -> 0..Top']
    <3>1. /\ inbox \in [Clients -> Seq(Ids)] /\ got \in [Clients -> Seq(Ids)]
          /\ mid \in [Clients -> 0..Top]
      BY <1>0 DEF Types
    <3> QED BY <1>11, <1>13, <3>1
  <2>4. /\ startDate' \in [Processes -> BOOLEAN]
        /\ relay' \in [Processes -> [Processes -> Seq(Messages)]]
        /\ link' \in [Clients -> {"off", "loading", "on", "answered"}]
        /\ home' \in [Clients -> Processes]
        /\ published' \in SUBSET Messages /\ losses' \in Nat /\ breaks' \in Nat
    BY <1>0, <1>13 DEF Types
  <2> QED BY <1>10, <1>14, <2>1, <2>2, <2>3, <2>4 DEF Types
<1>16. Numbering'
  <2>1. \A m \in Messages : idOf[m] \in 0..Top
    BY <1>0 DEF Types
  <2>2. CASE r.op = "incr"
    BY <1>0, <1>7, <1>10, <1>13, <2>1, <2>2 DEF Numbering
  <2>3. CASE r.op # "incr"
    BY <1>0, <1>10, <1>13, <2>3 DEF Numbering
  <2> QED BY <2>2, <2>3
<1>17. \A m \in Messages : idOf[m] # 0 => idOf'[m] # 0
  BY <1>7, <1>10
<1>18. ASSUME NEW q \in Processes, NEW j \in DOMAIN pipe[q]
       PROVE  /\ pipe'[q][j].op = pipe[q][j].op /\ pipe'[q][j].who = pipe[q][j].who
              /\ Draws(pipe'[q][j]) <=> Draws(pipe[q][j]) /\ ~(q = p /\ j = i)
              /\ HasDrawn(pipe'[q][j]) <=> HasDrawn(pipe[q][j])
                                           \/ (q = p /\ j = i /\ r.op = "incr")
              /\ Loads(pipe'[q][j]) <=> Loads(pipe[q][j])
              /\ pipe'[q][j].op \in MessageOps => pipe[q][j].who \in Messages
              /\ pipe'[q][j].done = IF q = p /\ j = i THEN TRUE ELSE pipe[q][j].done
  <2>1. pipe[q][j] \in RequestType
    BY <1>0 DEF Types
  <2>2. pipe[q][j].op \in MessageOps => pipe[q][j].who \in Messages
    BY <2>1 DEF RequestType, MessageOps
  <2>3. CASE q = p /\ j = i
    BY <1>4, <1>6, <1>12, <2>2, <2>3 DEF r, Draws, HasDrawn, Loads, MessageOps
  <2>4. CASE ~(q = p /\ j = i)
    BY <1>12, <2>2, <2>4
  <2> QED BY <2>3, <2>4
<1>19. Drawing'
  <2>1. ASSUME NEW q \in Processes, NEW j \in DOMAIN pipe'[q]
        PROVE  /\ Draws(pipe'[q][j]) => /\ idOf'[pipe'[q][j].who] = 0
                                        /\ pipe'[q][j].who \in published'
               /\ HasDrawn(pipe'[q][j]) => idOf'[pipe'[q][j].who] # 0
    <3>0. j \in DOMAIN pipe[q]
      BY <1>12
    <3>1. ASSUME Draws(pipe'[q][j])
          PROVE  idOf'[pipe'[q][j].who] = 0 /\ pipe'[q][j].who \in published'
      <4>1. Draws(pipe[q][j]) /\ ~(q = p /\ j = i) /\ pipe[q][j].who \in Messages
        BY <1>18, <3>0, <3>1 DEF Draws, MessageOps
      <4>2. idOf[pipe[q][j].who] = 0 /\ pipe[q][j].who \in published
        BY <3>0, <4>1 DEF BaseInv, Drawing
      <4>3. ~(r.op = "incr" /\ pipe[q][j].who = r.who)
        BY <1>4, <3>0, <4>1 DEF BaseInv, Drawing, r, Draws
      <4> QED BY <1>10, <1>13, <1>18, <3>0, <4>1, <4>2, <4>3
    <3>2. ASSUME HasDrawn(pipe'[q][j]) PROVE idOf'[pipe'[q][j].who] # 0
      <4>1. pipe[q][j].who \in Messages /\ pipe'[q][j].who = pipe[q][j].who
        BY <1>18, <3>0, <3>2 DEF HasDrawn
      <4>2. CASE HasDrawn(pipe[q][j])
        BY <1>17, <3>0, <4>1, <4>2 DEF BaseInv, Drawing
      <4>3. CASE q = p /\ j = i /\ r.op = "incr"
        BY <1>10, <4>1, <4>3 DEF r
      <4> QED BY <1>18, <3>0, <3>2, <4>2, <4>3
    <3> QED BY <3>1, <3>2
  <2>2. ASSUME NEW q \in Processes, NEW s \in Processes, NEW j \in DOMAIN pipe'[q],
               NEW k \in DOMAIN pipe'[s], Draws(pipe'[q][j]), Draws(pipe'[s][k]),
               pipe'[q][j].who = pipe'[s][k].who
        PROVE  q = s /\ j = k
    <3>1. j \in DOMAIN pipe[q] /\ k \in DOMAIN pipe[s]
      BY <1>12
    <3>2. Draws(pipe[q][j]) /\ Draws(pipe[s][k]) /\ pipe[q][j].who = pipe[s][k].who
      BY <1>18, <2>2, <3>1
    <3> QED BY <3>1, <3>2 DEF BaseInv, Drawing
  <2>3. ASSUME NEW q \in Processes, NEW j \in DOMAIN ticks[q], ticks[q][j].op = "saved"
        PROVE  idOf'[ticks[q][j].who] # 0
    <3>1. ticks[q][j] \in TickType
      BY <1>0 DEF Types
    <3>2. ticks[q][j].who \in Messages
      BY <2>3, <3>1 DEF TickType
    <3> QED BY <1>17, <2>3, <3>2 DEF BaseInv, Drawing
  <2> QED BY <1>13, <2>1, <2>2, <2>3 DEF Drawing
<1>20. Relaying'
  <2>1. \A q, s \in Processes : \A j \in DOMAIN relay[q][s] : relay[q][s][j] \in Messages
    BY <1>0 DEF Types
  <2> QED BY <1>13, <1>17, <2>1 DEF BaseInv, Relaying
<1>21. Pipelined'
  <2> SUFFICES ASSUME NEW q \in Processes, NEW j \in DOMAIN pipe[q], NEW k \in DOMAIN pipe[q],
                      j < k, pipe'[q][k].done
               PROVE  pipe'[q][j].done
    BY <1>12 DEF Pipelined
  <2>1. CASE q = p
    <3>1. j \in Int /\ k \in Int
      BY <1>3, <2>1
    <3>2. k <= i
      BY <1>2, <1>3, <1>18, <2>1, <3>1
    <3>3. j < i
      BY <1>3, <3>1, <3>2
    <3>4. pipe[q][j].done /\ j # i
      BY <1>2, <1>3, <2>1, <3>1, <3>3
    <3>5. pipe'[q][j].done = pipe[q][j].done
      BY <1>18, <3>4
    <3> QED BY <3>4, <3>5
  <2>2. CASE q # p
    BY <1>18, <2>2 DEF BaseInv, Pipelined
  <2> QED BY <2>1, <2>2
<1>22. Loading'
  <2>1. \A q \in Processes : \A j \in DOMAIN pipe'[q] :
          /\ j \in DOMAIN pipe[q] /\ pipe'[q][j].who = pipe[q][j].who
          /\ Loads(pipe'[q][j]) <=> Loads(pipe[q][j])
    BY <1>12, <1>18
  <2> QED BY <1>13, <2>1 DEF BaseInv, Loading
<1>23. Waiting'
  BY <1>13 DEF BaseInv, Waiting
<1>24. Expiry'
  BY <1>0, <1>2, <1>9 DEF BaseInv, Expiry, Types
<1> QED BY <1>15, <1>16, <1>19, <1>20, <1>21, <1>22, <1>23, <1>24 DEF BaseInv

LEMMA BaseInitially == Init => BaseInv
<1> SUFFICES ASSUME Init PROVE BaseInv
  OBVIOUS
<1>1. Top = 0
  <2>1. {m \in Messages : idOf[m] # 0} = {}
    BY DEF Init
  <2> QED BY <2>1, FS_EmptySet DEF Top
<1>2. \A S : <<>> \in Seq(S)
  OBVIOUS
<1>3. Types
  <2>1. (CHOOSE p \in Processes : TRUE) \in Processes
    BY DeliveryAssumption
  <2>2. /\ idOf \in [Messages -> 0..Top]
        /\ zset \in [Channels -> SUBSET Ids] /\ bodies \in SUBSET Ids
        /\ hasTTL \in SUBSET Channels
        /\ mid \in [Clients -> 0..Top]
    BY <1>1 DEF Init
  <2>3. /\ pipe \in [Processes -> Seq(RequestType)] /\ ticks \in [Processes -> Seq(TickType)]
        /\ relay \in [Processes -> [Processes -> Seq(Messages)]]
    BY <1>2 DEF Init
  <2>4. /\ home \in [Clients -> Processes] /\ inbox \in [Clients -> Seq(Ids)]
        /\ got \in [Clients -> Seq(Ids)]
        /\ link \in [Clients -> {"off", "loading", "on", "answered"}]
    BY <1>2, <2>1 DEF Init
  <2>5. /\ startDate \in [Processes -> BOOLEAN]
        /\ published \in SUBSET Messages /\ losses \in Nat /\ breaks \in Nat
    BY DeliveryAssumption DEF Init
  <2> QED BY <2>2, <2>3, <2>4, <2>5 DEF Types
<1>4. Numbering
  BY <1>1 DEF Init, Numbering
<1>5. Drawing /\ Relaying /\ Pipelined /\ Loading /\ Waiting /\ Expiry
  BY DEF Init, Drawing, Relaying, Pipelined, Loading, Waiting, Expiry
<1> QED BY <1>3, <1>4, <1>5 DEF BaseInv

LEMMA BaseStutter == BaseInv /\ UNCHANGED vars => BaseInv'
<1> SUFFICES ASSUME BaseInv, UNCHANGED vars PROVE BaseInv'
  OBVIOUS
<1>0. Types /\ Waiting
  BY DEF BaseInv
<1>1. Still /\ UNCHANGED Ends /\ losses' = losses /\ breaks' = breaks /\ idOf' = idOf
  BY DEF vars, Still, Store, Ends
<1>2. EndsTyped' /\ Waiting'
  BY <1>0, <1>1, SameEnds
<1> QED BY <1>0, <1>1, <1>2, StillBase DEF Ends, Types

LEMMA BaseStep == BaseInv /\ Sockets /\ [Next]_vars => BaseInv'
<1> SUFFICES ASSUME BaseInv, Sockets, [Next]_vars PROVE BaseInv'
  OBVIOUS
<1>0. Types
  BY DEF BaseInv
<1>1. CASE UNCHANGED vars
  BY <1>1, BaseStutter
<1>2. ASSUME NEW p \in Processes, Execute(p) PROVE BaseInv'
  BY <1>2, ExecuteBase
<1>3. ASSUME NEW p \in Processes, Reply(p) PROVE BaseInv'
  <2>1. CASE IncrReplied(p)
    <3>1. startDate' \in [Processes -> BOOLEAN]
      BY <1>0, <2>1, IncrForm DEF Types
    <3> QED BY <1>0, <2>1, <3>1, IncrForm, IdGivenBase
  <2>2. CASE StartDateReplied(p)
    <3>1. startDate' \in [Processes -> BOOLEAN]
      BY <1>0, <2>2, StartDateForm DEF Types
    <3> QED BY <1>0, <2>2, <3>1, StartDateForm, IdGivenBase
  <2>3. CASE Saved(p)
    BY <2>3, SavedBase
  <2>4. CASE TTLReplied(p)
    BY <2>4, TTLBase
  <2>5. CASE ExpireReplied(p)
    BY <2>5, ExpireBase
  <2>6. CASE RangeReplied(p)
    BY <2>6, RangeBase
  <2>7. CASE MessagesReplied(p)
    BY <2>7, MessagesBase
  <2> QED BY <1>3, <2>1, <2>2, <2>3, <2>4, <2>5, <2>6, <2>7 DEF Reply
<1>4. ASSUME NEW p \in Processes, Tick(p) PROVE BaseInv'
  BY <1>4, TickBase
<1>5. ASSUME NEW p \in Processes, ConnectionLost(p) PROVE BaseInv'
  BY <1>5, LostBase
<1>6. ASSUME NEW p \in Processes, NEW q \in Processes, Relayed(p, q) \/ RelayLost(p, q)
      PROVE  BaseInv'
  BY <1>6, RelayedBase, RelayLostBase
<1>7. ASSUME NEW m \in Messages, NEW p \in Processes, Publish(m, p) PROVE BaseInv'
  BY <1>7, PublishBase
<1>8. ASSUME NEW c \in Clients, NEW p \in Processes, Connect(c, p) PROVE BaseInv'
  BY <1>8, ConnectBase
<1>9. ASSUME NEW c \in Clients, PollTimeout(c) \/ Receive(c) PROVE BaseInv'
  BY <1>9, TimeoutBase, ReceiveBase
<1>10. ASSUME NEW c \in Clients, Break(c) \/ SendBuffer(c) \/ Ping(c) \/ Pong(c) PROVE BaseInv'
  <2>1. PICK n \in Nat : Cut(c, n)
    BY <1>0, <1>10, CutForm
  <2> QED BY <2>1, CutBase
<1>11. CASE MessageExpires \/ ChannelExpires
  BY <1>11, ExpiringBase
<1> QED BY <1>1, <1>2, <1>3, <1>4, <1>5, <1>6, <1>7, <1>8, <1>9, <1>10, <1>11 DEF Next

(***************************************************************************)
(* The sockets, action by action.                                          *)
(***************************************************************************)
LEMMA SameSockets ==
  ASSUME Types, Sockets, UNCHANGED <<inbox, sockets>>,
         \A c \in Clients : /\ link'[c] = link[c] \/ c \notin Websockets \/ link[c] # "on"
  PROVE  Sockets'
BY DEF Sockets, sockets, Idle

LEMMA ServedSockets ==
  ASSUME Types, Sockets, NEW p \in Processes, NEW m \in Messages, idOf[m] # 0, Served(p, m)
  PROVE  Sockets'
<1>1. ASSUME NEW c \in Clients
      PROVE  /\ inbox[c] \in Seq(Ids) /\ Len(inbox[c]) \in Nat /\ batch[c] \in Nat
             /\ timer[c] \in BOOLEAN /\ batch[c] <= Len(inbox[c]) /\ Copies(m, c) \in Nat
             /\ batch[c] > 0 => timer[c]
             /\ (c \in Websockets /\ link[c] = "on") \/ Idle(c)
  BY CopiesFacts DEF Types, Sockets
<1>2. ASSUME NEW c \in Clients, c \in Hit(p, m)
      PROVE  /\ inbox'[c] = inbox[c] \o Response(c, m)
             /\ Len(inbox'[c]) = Len(inbox[c]) + (IF c \in Websockets THEN Copies(m, c) ELSE 1)
             /\ Copies(m, c) > 0
  <2>1. inbox'[c] = inbox[c] \o Response(c, m) /\ Copies(m, c) > 0
    BY <1>2 DEF Served, Hit
  <2>2. /\ Response(c, m) \in Seq(Ids)
        /\ Len(Response(c, m)) = IF c \in Websockets THEN Copies(m, c) ELSE 1
    BY ResponseFacts
  <2>3. Len(inbox[c] \o Response(c, m)) = Len(inbox[c]) + Len(Response(c, m))
    BY <1>1, <2>2, ConcatProperties
  <2> QED BY <2>1, <2>2, <2>3
<1>3. ASSUME NEW c \in Clients, c \notin Hit(p, m)
      PROVE  inbox'[c] = inbox[c] /\ batch'[c] = batch[c] /\ (timer'[c] <=> timer[c])
  BY <1>3 DEF Served, Counted
<1>4. active' \in [Clients -> BOOLEAN] /\ timer' \in [Clients -> BOOLEAN]
  BY DEF Served, Counted, Sockets
<1>5. ASSUME NEW c \in Clients, c \in Hit(p, m), c \in Websockets
      PROVE  timer'[c] /\ batch'[c] = batch[c] + Copies(m, c) - (IF timer[c] THEN 0 ELSE 1)
  BY <1>5 DEF Served, Counted
<1>6. ASSUME NEW c \in Clients, c \notin Websockets
      PROVE  batch'[c] = batch[c] /\ (timer'[c] <=> timer[c])
  BY <1>6 DEF Served, Counted
<1>7. ASSUME NEW c \in Clients
      PROVE  /\ batch'[c] \in Nat /\ batch'[c] <= Len(inbox'[c])
             /\ batch'[c] > 0 => timer'[c]
  <2>1. CASE c \in Hit(p, m) /\ c \in Websockets
    <3>1. /\ timer'[c] /\ Copies(m, c) > 0 /\ Len(inbox'[c]) = Len(inbox[c]) + Copies(m, c)
      BY <1>2, <1>5, <2>1
    <3>2. batch'[c] = batch[c] + Copies(m, c) \/ batch'[c] = batch[c] + Copies(m, c) - 1
      BY <1>1, <1>5, <2>1
    <3> QED BY <1>1, <2>1, <3>1, <3>2
  <2>2. CASE c \in Hit(p, m) /\ c \notin Websockets
    <3>1. /\ batch'[c] = batch[c] /\ Len(inbox'[c]) = Len(inbox[c]) + 1
          /\ timer'[c] <=> timer[c]
      BY <1>2, <1>6, <2>2
    <3> QED BY <1>1, <2>2, <3>1
  <2>3. CASE c \notin Hit(p, m)
    BY <1>1, <1>3, <2>3
  <2> QED BY <2>1, <2>2, <2>3
<1>8. batch' \in [Clients -> Nat]
  <2>1. batch' = [c \in Clients |-> batch'[c]]
    BY DEF Served, Counted
  <2> QED BY <1>7, <2>1
<1>9. ASSUME NEW c \in Clients
      PROVE  (c \in Websockets /\ link'[c] = "on") \/ Idle(c)'
  <2>1. CASE c \in Websockets /\ link[c] = "on"
    BY <2>1 DEF Served
  <2>2. CASE ~(c \in Websockets /\ link[c] = "on")
    <3>1. Idle(c)
      BY <1>1, <2>2
    <3>2. timer'[c] <=> timer[c]
      BY <1>3, <1>6, <2>2 DEF Hit
    <3> QED BY <3>1, <3>2 DEF Idle, Served, Counted
  <2> QED BY <2>1, <2>2
<1> QED BY <1>4, <1>7, <1>8, <1>9 DEF Sockets

LEMMA ToldSockets ==
  ASSUME Types, Waiting, Sockets, NEW c \in Clients, NEW ids \in Seq(Ids),
         link[c] = "loading", Told(c, ids)
  PROVE  Sockets'
<1>1. inbox[c] = <<>> /\ batch[c] = 0
  <2>1. inbox[c] = <<>>
    BY DEF Waiting
  <2>2. batch[c] \in Nat /\ batch[c] <= 0
    BY <2>1 DEF Sockets
  <2> QED BY <2>1, <2>2
<1>2. /\ inbox' = [inbox EXCEPT ![c] = inbox[c] \o ids]
      /\ timer' = [timer EXCEPT ![c] = c \in Websockets /\ ids # <<>>]
      /\ UNCHANGED <<active, batch>>
  BY DEF Told
<1>3. timer' \in [Clients -> BOOLEAN]
  BY <1>2 DEF Sockets
<1>4. inbox[c] \o ids = ids /\ Len(ids) \in Nat
  BY <1>1
<1>5. ASSUME NEW b \in Clients
      PROVE  /\ batch'[b] <= Len(inbox'[b])
             /\ batch'[b] > 0 => timer'[b]
             /\ (b \in Websockets /\ link'[b] = "on") \/ Idle(b)'
  <2>1. CASE b = c
    <3>1. inbox'[c] = ids
      BY <1>2, <1>4 DEF Types
    <3>2. batch'[c] = 0
      BY <1>1, <1>2
    <3>3. /\ link'[c] = IF ids # <<>> /\ c \notin Websockets THEN "answered" ELSE "on"
          /\ timer'[c] <=> c \in Websockets /\ ids # <<>>
      BY <1>2 DEF Told, Types, Sockets
    <3>4. active'[c]
      BY <1>2 DEF Sockets, Idle
    <3> QED BY <1>4, <2>1, <3>1, <3>2, <3>3, <3>4 DEF Idle
  <2>2. CASE b # c
    <3>1. /\ inbox'[b] = inbox[b] /\ timer'[b] = timer[b] /\ batch'[b] = batch[b]
          /\ link'[b] = link[b] /\ active'[b] = active[b]
      BY <1>2, <2>2 DEF Told, Types, Sockets
    <3> QED BY <3>1 DEF Sockets, Idle
  <2> QED BY <2>1, <2>2
<1> QED BY <1>2, <1>3, <1>5 DEF Sockets

LEMMA ReceiveSockets ==
  ASSUME Types, Sockets, NEW c \in Clients, Receive(c)
  PROVE  Sockets'
<1> DEFINE n == IF c \in Websockets THEN 1 ELSE Len(inbox[c])
<1>1. /\ inbox' = [inbox EXCEPT ![c] = SubSeq(inbox[c], n + 1, Len(inbox[c]))]
      /\ UNCHANGED sockets /\ Len(inbox[c]) > batch[c]
      /\ link' = [link EXCEPT ![c] = IF c \in Websockets THEN @ ELSE "off"]
  BY ReceiveForm DEF Receive
<1>2. UNCHANGED <<active, timer, batch>>
  BY <1>1 DEF sockets
<1>3. inbox[c] \in Seq(Ids) /\ Len(inbox[c]) \in Nat /\ batch[c] \in Nat
  BY DEF Types, Sockets
<1>4. batch[c] <= Len(SubSeq(inbox[c], n + 1, Len(inbox[c])))
  <2>1. CASE c \in Websockets
    <3>1. Len(SubSeq(inbox[c], 2, Len(inbox[c]))) = Len(inbox[c]) - 1
      BY <1>1, <1>3
    <3> QED BY <1>1, <1>3, <2>1, <3>1
  <2>2. CASE c \notin Websockets
    <3>1. batch[c] = 0
      BY <1>3, <2>2 DEF Sockets, Idle
    <3>2. SubSeq(inbox[c], Len(inbox[c]) + 1, Len(inbox[c])) = <<>>
      BY <1>3
    <3> QED BY <2>2, <3>1, <3>2
  <2> QED BY <2>1, <2>2
<1> HIDE DEF n
<1>5. ASSUME NEW b \in Clients PROVE batch[b] <= Len(inbox'[b])
  <2>1. CASE b = c
    BY <1>1, <1>4, <2>1 DEF Types
  <2>2. CASE b # c
    BY <1>1, <2>2 DEF Types, Sockets
  <2> QED BY <2>1, <2>2
<1>6. \A b \in Clients : b \in Websockets => link'[b] = link[b]
  BY <1>1 DEF Types
<1> QED BY <1>2, <1>5, <1>6 DEF Sockets, Idle

LEMMA CutSockets ==
  ASSUME Types, Sockets, NEW c \in Clients, NEW n \in Nat, Cut(c, n)
  PROVE  Sockets'
<1>1. /\ Len(inbox'[c]) = n /\ \A b \in Clients : b # c => inbox'[b] = inbox[b]
  BY CutFacts
<1>2. ASSUME NEW b \in Clients, b # c
      PROVE  /\ link'[b] = link[b] /\ active'[b] = active[b]
             /\ timer'[b] = timer[b] /\ batch'[b] = batch[b]
  BY <1>2 DEF Cut, CutOff, Types, Sockets
<1>3. active' \in [Clients -> BOOLEAN] /\ timer' \in [Clients -> BOOLEAN]
      /\ batch' \in [Clients -> Nat]
  <2>0. /\ active \in [Clients -> BOOLEAN] /\ timer \in [Clients -> BOOLEAN]
        /\ batch \in [Clients -> Nat]
    BY DEF Sockets
  <2>1. active' = active \/ \E b \in BOOLEAN : active' = [active EXCEPT ![c] = b]
    BY DEF Cut, CutOff
  <2>2. timer' = timer \/ timer' = [timer EXCEPT ![c] = FALSE]
    BY DEF Cut, CutOff
  <2>3. batch' = batch \/ batch' = [batch EXCEPT ![c] = 0]
    BY DEF Cut, CutOff
  <2>4. active' \in [Clients -> BOOLEAN]
    BY <2>0, <2>1
  <2>5. timer' \in [Clients -> BOOLEAN]
    BY <2>0, <2>2
  <2>6. batch' \in [Clients -> Nat]
    BY <2>0, <2>3
  <2> QED BY <2>4, <2>5, <2>6
<1>4. /\ batch'[c] <= n /\ (batch'[c] > 0 => timer'[c])
      /\ (c \in Websockets /\ link'[c] = "on") \/ Idle(c)'
  <2>1. CASE CutOff(c)
    BY <2>1 DEF CutOff, Sockets, Idle
  <2>2. CASE timer' = [timer EXCEPT ![c] = FALSE] /\ batch' = [batch EXCEPT ![c] = 0]
             /\ c \in Websockets /\ link[c] = "on" /\ link' = link
    BY <2>2 DEF Sockets
  <2>3. CASE n = Len(inbox[c]) /\ timer' = timer /\ batch' = batch
             /\ c \in Websockets /\ link[c] = "on" /\ link' = link
    BY <2>3 DEF Sockets
  <2> QED BY <2>1, <2>2, <2>3 DEF Cut
<1>5. ASSUME NEW b \in Clients
      PROVE  /\ batch'[b] <= Len(inbox'[b]) /\ (batch'[b] > 0 => timer'[b])
             /\ (b \in Websockets /\ link'[b] = "on") \/ Idle(b)'
  <2>1. CASE b = c
    BY <1>1, <1>4, <2>1
  <2>2. CASE b # c
    BY <1>1, <1>2, <2>2 DEF Sockets, Idle
  <2> QED BY <2>1, <2>2
<1> QED BY <1>3, <1>5 DEF Sockets

LEMMA SocketStep == BaseInv /\ Sockets /\ [Next]_vars => Sockets'
<1> SUFFICES ASSUME BaseInv, Sockets, [Next]_vars PROVE Sockets'
  OBVIOUS
<1>0. Types /\ Waiting
  BY DEF BaseInv
<1>1. CASE UNCHANGED vars
  BY <1>0, <1>1, SameSockets DEF vars
<1>2. ASSUME UNCHANGED Ends PROVE Sockets'
  BY <1>0, <1>2, SameSockets DEF Ends
<1>3. ASSUME NEW p \in Processes, Execute(p) PROVE Sockets'
  BY <1>0, <1>2, <1>3, ExecuteForm DEF Executed
<1>4. ASSUME NEW p \in Processes, pipe[p] # <<>>, IdGiven(p, pipe[p][1].who),
             pipe[p][1].op \in {"incr", "startdate"}, pipe[p][1].done
      PROVE  Sockets'
  <2>1. pipe[p][1] \in RequestType /\ 1 \in DOMAIN pipe[p]
    BY <1>0, <1>4, HeadFacts
  <2>2. pipe[p][1].who \in Messages /\ idOf[pipe[p][1].who] # 0
    BY <1>4, <2>1 DEF RequestType, BaseInv, Drawing, Draws, HasDrawn, MessageOps
  <2> QED BY <1>0, <1>2, <1>4, <2>2, ServedSockets DEF IdGiven, Broadcasts
<1>5. ASSUME NEW p \in Processes, RangeReplied(p) PROVE Sockets'
  <2>1. /\ pipe[p] # <<>> /\ pipe[p][1].op = "range"
        /\ UNCHANGED Ends \/ Told(pipe[p][1].who, <<>>)
    BY <1>0, <1>5, RangeForm
  <2>2. pipe[p][1] \in RequestType /\ 1 \in DOMAIN pipe[p]
    BY <1>0, <2>1, HeadFacts
  <2>3. pipe[p][1].who \in Clients /\ link[pipe[p][1].who] = "loading"
    BY <2>1, <2>2 DEF RequestType, MessageOps, BaseInv, Loading, Loads, LoadOps
  <2>4. <<>> \in Seq(Ids)
    OBVIOUS
  <2> QED BY <1>0, <1>2, <2>1, <2>3, <2>4, ToldSockets
<1>6. ASSUME NEW p \in Processes, Reply(p) PROVE Sockets'
  <2>1. CASE IncrReplied(p)
    BY <1>0, <1>4, <2>1, IncrForm
  <2>2. CASE StartDateReplied(p)
    BY <1>0, <1>4, <2>2, StartDateForm
  <2>3. CASE Saved(p)
    BY <1>0, <1>2, <2>3, SavedForm
  <2>4. CASE TTLReplied(p)
    BY <1>0, <1>2, <2>4, TTLForm
  <2>5. CASE ExpireReplied(p)
    BY <1>0, <1>2, <2>5, ExpireForm
  <2>6. CASE RangeReplied(p)
    BY <1>5, <2>6
  <2>7. CASE MessagesReplied(p)
    BY <1>0, <1>2, <2>7, MessagesForm
  <2> QED BY <1>6, <2>1, <2>2, <2>3, <2>4, <2>5, <2>6, <2>7 DEF Reply
<1>7. ASSUME NEW p \in Processes, Tick(p) PROVE Sockets'
  <2> DEFINE t == ticks[p][1]
  <2>1. /\ ticks[p] # <<>>
        /\ \/ t.op = "saved" /\ Served(p, t.who)
           \/ t.op = "loaded" /\ Told(t.who, t.args)
    BY <1>0, <1>7, TickForm DEF Broadcasts
  <2>2. t \in TickType /\ 1 \in DOMAIN ticks[p]
    BY <1>0, <2>1 DEF Types
  <2>3. t.op = "saved" => t.who \in Messages /\ idOf[t.who] # 0
    BY <2>2 DEF TickType, BaseInv, Drawing
  <2>4. t.op = "loaded" => t.who \in Clients /\ t.args \in Seq(Ids) /\ link[t.who] = "loading"
    BY <2>2 DEF TickType, BaseInv, Loading
  <2> HIDE DEF t
  <2> QED BY <1>0, <2>1, <2>3, <2>4, ServedSockets, ToldSockets
<1>8. ASSUME NEW p \in Processes, ConnectionLost(p) PROVE Sockets'
  <2> DEFINE failed == {pipe[p][i].who : i \in {j \in DOMAIN pipe[p] : Loads(pipe[p][j])}}
  <2>1. /\ link' = [c \in Clients |-> IF c \in failed THEN "off" ELSE link[c]]
        /\ UNCHANGED <<inbox, sockets>>
    BY <1>0, <1>8, LostForm
  <2>2. \A c \in failed : link[c] = "loading"
    BY DEF BaseInv, Loading
  <2> HIDE DEF failed
  <2> QED BY <1>0, <2>1, <2>2, SameSockets
<1>9. ASSUME NEW p \in Processes, NEW q \in Processes, Relayed(p, q) PROVE Sockets'
  <2>1. relay[p][q] # <<>> /\ Served(q, relay[p][q][1])
    BY <1>0, <1>9, RelayedForm
  <2>2. 1 \in DOMAIN relay[p][q] /\ relay[p][q][1] \in Messages
    BY <1>0, <2>1 DEF Types
  <2>3. idOf[relay[p][q][1]] # 0
    BY <2>2 DEF BaseInv, Relaying
  <2> QED BY <1>0, <2>1, <2>2, <2>3, ServedSockets
<1>10. ASSUME NEW p \in Processes, NEW q \in Processes, RelayLost(p, q) PROVE Sockets'
  BY <1>0, <1>10, RelayLostForm, SameSockets
<1>11. ASSUME NEW m \in Messages, NEW p \in Processes, Publish(m, p) PROVE Sockets'
  BY <1>0, <1>2, <1>11, PublishForm
<1>12. ASSUME NEW c \in Clients, NEW p \in Processes, Connect(c, p) PROVE Sockets'
  <2>1. /\ link[c] = "off" /\ link' = [link EXCEPT ![c] = "loading"]
        /\ UNCHANGED <<inbox, sockets>>
    BY <1>0, <1>12, ConnectForm
  <2> QED BY <1>0, <2>1, SameSockets DEF Types
<1>13. ASSUME NEW c \in Clients, PollTimeout(c) PROVE Sockets'
  <2>1. /\ c \notin Websockets /\ link' = [link EXCEPT ![c] = "off"]
        /\ UNCHANGED <<inbox, sockets>>
    BY <1>0, <1>13, TimeoutForm
  <2> QED BY <1>0, <2>1, SameSockets DEF Types
<1>14. ASSUME NEW c \in Clients, Receive(c) PROVE Sockets'
  BY <1>0, <1>14, ReceiveSockets
<1>15. ASSUME NEW c \in Clients, Break(c) \/ SendBuffer(c) \/ Ping(c) \/ Pong(c) PROVE Sockets'
  <2>1. PICK n \in Nat : Cut(c, n)
    BY <1>0, <1>15, CutForm
  <2> QED BY <1>0, <2>1, CutSockets
<1>16. CASE MessageExpires \/ ChannelExpires
  BY <1>0, <1>16, SameSockets DEF MessageExpires, ChannelExpires
<1> QED BY <1>1, <1>3, <1>6, <1>7, <1>8, <1>9, <1>10, <1>11, <1>12, <1>13, <1>14, <1>15, <1>16
        DEF Next

LEMMA SocketsInitially == Init => Sockets
<1> SUFFICES ASSUME Init PROVE Sockets
  OBVIOUS
<1>1. Len(<<>>) = 0
  OBVIOUS
<1> QED BY <1>1 DEF Init, Sockets, Idle

LEMMA BaseAlways == Spec => [](BaseInv /\ Sockets)
BY BaseInitially, SocketsInitially, BaseStep, SocketStep, PTL DEF Spec

(***************************************************************************)
(* For any processes, messages, channels, clients and limits, with any     *)
(* faults: no id is given twice, Redis executes a prefix of every          *)
(* pipeline, a channel that will expire is a channel that has messages,    *)
(* and only an answered poll has a response on its way.                    *)
(***************************************************************************)
THEOREM DeliveryTypes == Spec => []TypeOK
<1>1. ASSUME BaseInv, Sockets PROVE TypeOK
  <2>0. Types
    BY <1>1 DEF BaseInv
  <2>1. Top \in Nat /\ Top <= Cardinality(Messages) /\ Cardinality(Messages) \in Nat
    BY <2>0, TopFacts, DeliveryAssumption, FS_CardinalityType
  <2>2. /\ idOf \in [Messages -> 0..Cardinality(Messages)]
        /\ \A ch \in Channels : zset[ch] \subseteq 1..Cardinality(Messages)
        /\ bodies \subseteq 1..Cardinality(Messages)
    BY <2>0, <2>1 DEF Types, Ids
  <2>3. \A m, n \in Messages : idOf[m] = idOf[n] /\ idOf[m] # 0 => m = n
    BY <1>1 DEF BaseInv, Numbering
  <2>4. hasTTL \subseteq {ch \in Channels : zset[ch] # {}}
    BY <1>1, <2>0 DEF BaseInv, Expiry, Types
  <2>5. \A p \in Processes : \A i, j \in DOMAIN pipe[p] :
          i < j /\ pipe[p][j].done => pipe[p][i].done
    BY <1>1 DEF BaseInv, Pipelined
  <2>6. \A c \in Polling : inbox[c] # <<>> => link[c] = "answered"
    BY <1>1 DEF BaseInv, Waiting, Polling
  <2>7. /\ active \in [Clients -> BOOLEAN] /\ timer \in [Clients -> BOOLEAN]
        /\ batch \in [Clients -> Nat]
        /\ \A c \in Clients : /\ batch[c] <= Len(inbox[c])
                              /\ batch[c] > 0 => timer[c]
                              /\ \/ c \in Websockets /\ link[c] = "on"
                                 \/ active[c] /\ ~timer[c]
    BY <1>1 DEF Sockets, Idle
  <2> QED BY <2>0, <2>2, <2>3, <2>4, <2>5, <2>6, <2>7 DEF TypeOK, Types
<1> QED BY <1>1, BaseAlways, PTL

-----------------------------------------------------------------------------
(***************************************************************************)
(* The order, action by action.  First, what the new entries of a step     *)
(* have to do with the old ones.                                           *)
(***************************************************************************)
NewOrder(p, d, new, put) ==
  /\ \A k \in DOMAIN new :
       /\ new[k].op # "startdate" /\ ~new[k].done
       /\ Saves(new[k]) => /\ d = 1 /\ Drawn(pipe[p][1]) /\ new[k].who = pipe[p][1].who
                           /\ DOMAIN new = {k}
       /\ new[k].op = "range" => new[k].args = <<mid[new[k].who]>>
       /\ new[k].op = "mget" =>
            /\ DOMAIN new = {k} /\ Ascends(new[k].args)
            /\ \A z \in ToSet(new[k].args) : z > mid[new[k].who] /\ BelowPending(p, z)
  /\ \A k \in DOMAIN put :
       /\ DOMAIN put = {k}
       /\ put[k].op = "saved" => d = 1 /\ Saves(pipe[p][1]) /\ put[k].who = pipe[p][1].who
       /\ put[k].op = "loaded" =>
            /\ new = <<>> /\ Ascends(put[k].args)
            /\ \A z \in ToSet(put[k].args) : z > mid[put[k].who] /\ BelowPending(p, z)

(* Where pending ids come from. *)
OldPipe(p, d, i) == i + d \in DOMAIN pipe[p] /\ pipe'[p][i] = pipe[p][i + d]
NewSave(p, d, i) ==
  /\ d = 1 /\ 1 \in DOMAIN pipe[p] /\ Drawn(pipe[p][1]) /\ Saves(pipe'[p][i])
  /\ pipe'[p][i].who = pipe[p][1].who
OldTick(p, e, i) == i + e \in DOMAIN ticks[p] /\ ticks'[p][i] = ticks[p][i + e]
NewTick(p, d, i) ==
  /\ d = 1 /\ 1 \in DOMAIN pipe[p] /\ Saves(pipe[p][1]) /\ ticks'[p][i].who = pipe[p][1].who

LEMMA OrderSources ==
  ASSUME BaseInv, NEW p \in Processes, NEW d \in {0, 1}, NEW e \in {0, 1},
         NEW new, NEW put, Additions(new, put), QueueStep(p, d, new, e, put),
         NewOrder(p, d, new, put)
  PROVE  /\ \A i \in DOMAIN pipe'[p] :
              i \in Nat \ {0} /\ (pipe'[p][i].op # "startdate" \/ OldPipe(p, d, i))
         /\ \A i \in DOMAIN pipe'[p] : Pends(pipe'[p][i]) => OldPipe(p, d, i) \/ NewSave(p, d, i)
         /\ \A i \in DOMAIN pipe'[p] : Drawn(pipe'[p][i]) => OldPipe(p, d, i)
         /\ \A i \in DOMAIN pipe'[p] : pipe'[p][i].done => OldPipe(p, d, i)
         /\ \A i, j \in DOMAIN pipe'[p] :
              Saves(pipe'[p][i]) /\ Saves(pipe'[p][j]) /\ i < j => OldPipe(p, d, i)
         /\ \A i \in DOMAIN ticks'[p] : i \in Nat \ {0}
         /\ \A i \in DOMAIN ticks'[p] : ticks'[p][i].op = "saved" =>
              OldTick(p, e, i) \/ NewTick(p, d, i)
         /\ \A i, j \in DOMAIN ticks'[p] : i < j => OldTick(p, e, i)
         /\ \A i \in DOMAIN pipe'[p] :
              OldPipe(p, d, i) \/ \E k \in DOMAIN new : pipe'[p][i] = new[k]
         /\ \A i \in DOMAIN ticks'[p] :
              OldTick(p, e, i) \/ \E k \in DOMAIN put : ticks'[p][i] = put[k]
<1> DEFINE NewP(i) == i - (Len(pipe[p]) - d) \in DOMAIN new /\ i > Len(pipe[p]) - d
                      /\ pipe'[p][i] = new[i - (Len(pipe[p]) - d)]
           NewT(i) == i - (Len(ticks[p]) - e) \in DOMAIN put /\ i > Len(ticks[p]) - e
                      /\ ticks'[p][i] = put[i - (Len(ticks[p]) - e)]
<1>0. /\ \A i \in DOMAIN pipe'[p] : InPipe(p, d, new, i)
      /\ \A i \in DOMAIN ticks'[p] : InTicks(p, e, put, i)
      /\ DOMAIN pipe'[p] \subseteq Nat \ {0} /\ DOMAIN ticks'[p] \subseteq Nat \ {0}
      /\ Len(pipe[p]) \in Nat /\ Len(ticks[p]) \in Nat
      /\ DOMAIN pipe[p] = 1..Len(pipe[p]) /\ DOMAIN ticks[p] = 1..Len(ticks[p])
  BY QueueMoves DEF BaseInv
<1>1. /\ \A i \in DOMAIN pipe'[p] : OldPipe(p, d, i) \/ NewP(i)
      /\ \A i \in DOMAIN ticks'[p] : OldTick(p, e, i) \/ NewT(i)
  BY <1>0 DEF InPipe, InTicks, Older, Fresh, OldPipe, OldTick
<1>2. d = 1 => 1 \in DOMAIN pipe[p]
  <2>1. pipe[p] \in Seq(RequestType)
    BY DEF BaseInv, Types
  <2> QED BY <2>1 DEF QueueStep, PipeMoves
<1>3. ASSUME NEW i \in DOMAIN pipe'[p], NewP(i)
      PROVE  /\ pipe'[p][i].op # "startdate" /\ ~pipe'[p][i].done /\ ~Drawn(pipe'[p][i])
             /\ Saves(pipe'[p][i]) => NewSave(p, d, i)
             /\ \A j \in DOMAIN pipe'[p] : Saves(pipe'[p][i]) /\ NewP(j) => i = j
  <2> DEFINE k == i - (Len(pipe[p]) - d)
  <2>1. k \in DOMAIN new /\ pipe'[p][i] = new[k]
    BY <1>3
  <2>2. pipe'[p][i].op # "startdate" /\ ~pipe'[p][i].done
    BY <2>1 DEF NewOrder
  <2>3. ~Drawn(pipe'[p][i])
    BY <2>2 DEF Drawn
  <2>4. Saves(pipe'[p][i]) => NewSave(p, d, i) /\ DOMAIN new = {k}
    BY <1>2, <2>1 DEF NewOrder, NewSave
  <2>5. ASSUME NEW j \in DOMAIN pipe'[p], NewP(j), Saves(pipe'[p][i]) PROVE i = j
    <3>1. j - (Len(pipe[p]) - d) = i - (Len(pipe[p]) - d)
      BY <2>4, <2>5
    <3>2. i \in Nat /\ j \in Nat
      BY <1>0
    <3> QED BY <1>0, <3>1, <3>2
  <2> QED BY <2>2, <2>3, <2>4, <2>5
<1>4. ASSUME NEW i \in DOMAIN ticks'[p], NewT(i)
      PROVE  /\ ticks'[p][i].op = "saved" => NewTick(p, d, i)
             /\ \A j \in DOMAIN ticks'[p] : NewT(j) => i = j
  <2> DEFINE k == i - (Len(ticks[p]) - e)
  <2>1. k \in DOMAIN put /\ ticks'[p][i] = put[k]
    BY <1>4
  <2>2. DOMAIN put = {k}
    BY <2>1 DEF NewOrder
  <2>3. ticks'[p][i].op = "saved" => NewTick(p, d, i)
    BY <1>2, <2>1 DEF NewOrder, NewTick
  <2>5. ASSUME NEW j \in DOMAIN ticks'[p], NewT(j) PROVE i = j
    <3>1. j - (Len(ticks[p]) - e) = i - (Len(ticks[p]) - e)
      BY <2>2, <2>5
    <3>2. i \in Nat /\ j \in Nat
      BY <1>0
    <3> QED BY <1>0, <3>1, <3>2
  <2> QED BY <2>3, <2>5
<1>5. ASSUME NEW i \in DOMAIN pipe'[p], NEW j \in DOMAIN pipe'[p], i < j, ~OldPipe(p, d, i)
      PROVE  NewP(i) /\ NewP(j)
  <2>1. NewP(i)
    BY <1>1, <1>5
  <2>2. ASSUME OldPipe(p, d, j) PROVE FALSE
    <3>1. j + d <= Len(pipe[p]) /\ i > Len(pipe[p]) - d /\ i \in Nat /\ j \in Nat
      BY <1>0, <2>1, <2>2 DEF OldPipe
    <3> QED BY <1>0, <1>5, <3>1
  <2> QED BY <1>1, <2>1, <2>2
<1>6. ASSUME NEW i \in DOMAIN ticks'[p], NEW j \in DOMAIN ticks'[p], i < j, ~OldTick(p, e, i)
      PROVE  NewT(i) /\ NewT(j)
  <2>1. NewT(i)
    BY <1>1, <1>6
  <2>2. ASSUME OldTick(p, e, j) PROVE FALSE
    <3>1. j + e <= Len(ticks[p]) /\ i > Len(ticks[p]) - e /\ i \in Nat /\ j \in Nat
      BY <1>0, <2>1, <2>2 DEF OldTick
    <3> QED BY <1>0, <1>6, <3>1
  <2> QED BY <1>1, <2>1, <2>2
<1>7. \A i \in DOMAIN pipe'[p] : ~(i < i)
  BY <1>0
<1>8. \A i \in DOMAIN ticks'[p] : ~(i < i)
  BY <1>0
<1>14. /\ \A i \in DOMAIN pipe'[p] :
            OldPipe(p, d, i) \/ \E k \in DOMAIN new : pipe'[p][i] = new[k]
       /\ \A i \in DOMAIN ticks'[p] :
            OldTick(p, e, i) \/ \E k \in DOMAIN put : ticks'[p][i] = put[k]
  BY <1>1
<1> HIDE DEF NewP, NewT
<1>9. /\ \A i \in DOMAIN pipe'[p] : i \in Nat \ {0} /\ (pipe'[p][i].op # "startdate"
                                                       \/ OldPipe(p, d, i))
      /\ \A i \in DOMAIN ticks'[p] : i \in Nat \ {0}
  BY <1>0, <1>1, <1>3
<1>10. /\ \A i \in DOMAIN pipe'[p] : Pends(pipe'[p][i]) => OldPipe(p, d, i) \/ NewSave(p, d, i)
       /\ \A i \in DOMAIN pipe'[p] : Drawn(pipe'[p][i]) => OldPipe(p, d, i)
       /\ \A i \in DOMAIN pipe'[p] : pipe'[p][i].done => OldPipe(p, d, i)
  BY <1>1, <1>3 DEF Pends
<1>11. \A i, j \in DOMAIN pipe'[p] :
              Saves(pipe'[p][i]) /\ Saves(pipe'[p][j]) /\ i < j => OldPipe(p, d, i)
  BY <1>3, <1>5, <1>7
<1>12. \A i \in DOMAIN ticks'[p] : ticks'[p][i].op = "saved" =>
              OldTick(p, e, i) \/ NewTick(p, d, i)
  BY <1>1, <1>4
<1>13. \A i, j \in DOMAIN ticks'[p] : i < j => OldTick(p, e, i)
  BY <1>4, <1>6, <1>8
<1> QED BY <1>9, <1>10, <1>11, <1>12, <1>13, <1>14

LEMMA OrderMoves ==
  ASSUME BaseInv, OrderInv, NEW p \in Processes, \A q \in Processes : q = p,
         NEW d \in {0, 1}, NEW e \in {0, 1}, NEW new, NEW put, Additions(new, put),
         QueueStep(p, d, new, e, put), NewOrder(p, d, new, put), UNCHANGED <<zset, mid>>
  PROVE  Queued' /\ Held' /\ Replays' /\ Pending(p)' \subseteq Pending(p)
<1> DEFINE OldP(i) == OldPipe(p, d, i)
           OldT(i) == OldTick(p, e, i)
<1>0. /\ \A i \in DOMAIN pipe'[p] :
           i \in Nat \ {0} /\ (pipe'[p][i].op # "startdate" \/ OldP(i))
      /\ \A i \in DOMAIN pipe'[p] : Pends(pipe'[p][i]) => OldP(i) \/ NewSave(p, d, i)
      /\ \A i \in DOMAIN pipe'[p] : Drawn(pipe'[p][i]) => OldP(i)
      /\ \A i \in DOMAIN pipe'[p] : pipe'[p][i].done => OldP(i)
      /\ \A i, j \in DOMAIN pipe'[p] :
           Saves(pipe'[p][i]) /\ Saves(pipe'[p][j]) /\ i < j => OldP(i)
      /\ \A i \in DOMAIN ticks'[p] : i \in Nat \ {0}
      /\ \A i \in DOMAIN ticks'[p] : ticks'[p][i].op = "saved" => OldT(i) \/ NewTick(p, d, i)
      /\ \A i, j \in DOMAIN ticks'[p] : i < j => OldT(i)
      /\ \A i \in DOMAIN pipe'[p] : OldP(i) \/ \E k \in DOMAIN new : pipe'[p][i] = new[k]
      /\ \A i \in DOMAIN ticks'[p] : OldT(i) \/ \E k \in DOMAIN put : ticks'[p][i] = put[k]
  BY OrderSources
<1>1. idOf' = idOf /\ d \in Nat /\ e \in Nat
  BY DEF QueueStep
<1>2. Queued
  BY DEF OrderInv
<1>3. \A i \in DOMAIN pipe'[p] : pipe'[p][i].op # "startdate"
  BY <1>0, <1>2 DEF Queued, OldPipe
<1>4. ASSUME NEW i \in DOMAIN pipe'[p], NEW j \in DOMAIN pipe'[p],
             \/ Saves(pipe'[p][i]) /\ Drawn(pipe'[p][j])
             \/ i < j /\ Saves(pipe'[p][i]) /\ Saves(pipe'[p][j])
             \/ i < j /\ Drawn(pipe'[p][i]) /\ Drawn(pipe'[p][j])
      PROVE  idOf[pipe'[p][i].who] < idOf[pipe'[p][j].who]
  <2>0. i \in Nat \ {0} /\ j \in Nat \ {0}
    BY <1>0
  <2>1. CASE Saves(pipe'[p][i]) /\ Drawn(pipe'[p][j])
    <3>1. OldP(j)
      BY <1>0, <2>1
    <3>2. CASE OldP(i)
      BY <1>2, <2>1, <3>1, <3>2 DEF Queued, OldPipe, Id
    <3>3. CASE NewSave(p, d, i)
      <4>1. 1 < j + d
        BY <2>0, <3>3 DEF NewSave
      <4> QED BY <1>2, <2>1, <3>1, <3>3, <4>1 DEF Queued, OldPipe, NewSave, Id
    <3> QED BY <1>0, <2>1, <3>2, <3>3 DEF Pends
  <2>2. CASE i < j /\ Saves(pipe'[p][i]) /\ Saves(pipe'[p][j])
    <3>1. OldP(i) /\ i + d < j + d
      BY <1>0, <1>1, <2>0, <2>2
    <3>2. CASE OldP(j)
      BY <1>2, <2>2, <3>1, <3>2 DEF Queued, OldPipe, Id
    <3>3. CASE NewSave(p, d, j)
      BY <1>2, <2>2, <3>1, <3>3 DEF Queued, OldPipe, NewSave, Id
    <3> QED BY <1>0, <2>2, <3>2, <3>3 DEF Pends
  <2>3. CASE i < j /\ Drawn(pipe'[p][i]) /\ Drawn(pipe'[p][j])
    <3>1. OldP(i) /\ OldP(j) /\ i + d < j + d
      BY <1>0, <1>1, <2>0, <2>3
    <3> QED BY <1>2, <2>3, <3>1 DEF Queued, OldPipe, Id
  <2> QED BY <1>4, <2>1, <2>2, <2>3
<1>5. ASSUME NEW i \in DOMAIN ticks'[p], ticks'[p][i].op = "saved",
             NEW j \in DOMAIN ticks'[p], i < j, ticks'[p][j].op = "saved"
      PROVE  idOf[ticks'[p][i].who] < idOf[ticks'[p][j].who]
  <2>1. OldT(i) /\ i + e < j + e
    BY <1>0, <1>1, <1>5
  <2>2. CASE OldT(j)
    BY <1>2, <1>5, <2>1, <2>2 DEF Queued, OldTick, Id
  <2>3. CASE NewTick(p, d, j)
    BY <1>2, <1>5, <2>1, <2>3 DEF Queued, OldTick, NewTick, Id, Pends
  <2> QED BY <1>0, <1>5, <2>2, <2>3
<1>6. ASSUME NEW i \in DOMAIN ticks'[p], ticks'[p][i].op = "saved",
             NEW j \in DOMAIN pipe'[p], Pends(pipe'[p][j])
      PROVE  idOf[ticks'[p][i].who] < idOf[pipe'[p][j].who]
  <2>0. j \in Nat \ {0}
    BY <1>0
  <2>1. CASE OldT(i) /\ OldP(j)
    BY <1>2, <1>6, <2>1 DEF Queued, OldTick, OldPipe, Id
  <2>2. CASE OldT(i) /\ NewSave(p, d, j)
    BY <1>2, <1>6, <2>2 DEF Queued, OldTick, NewSave, Id, Pends
  <2>3. CASE NewTick(p, d, i) /\ OldP(j)
    <3>1. 1 < j + d
      BY <2>0, <2>3 DEF NewTick
    <3> QED BY <1>2, <1>6, <2>3, <3>1 DEF Queued, NewTick, OldPipe, Id, Pends
  <2>4. CASE NewTick(p, d, i) /\ NewSave(p, d, j)
    BY <2>4 DEF NewTick, NewSave, Saves, Drawn
  <2> QED BY <1>0, <1>6, <2>1, <2>2, <2>3, <2>4
<1>7. Queued'
  BY <1>1, <1>3, <1>4, <1>5, <1>6 DEF Queued, Id
<1>8. Held'
  <2> SUFFICES ASSUME NEW i \in DOMAIN pipe'[p],
                      Drawn(pipe'[p][i]) \/ (Saves(pipe'[p][i]) /\ ~pipe'[p][i].done),
                      NEW ch \in Channels, NEW z \in zset[ch]
               PROVE  z < idOf[pipe'[p][i].who]
    BY <1>1 DEF Held, Id
  <2>1. CASE OldP(i)
    BY <2>1 DEF OrderInv, Held, OldPipe, Id
  <2>2. CASE NewSave(p, d, i)
    BY <2>2 DEF OrderInv, Held, NewSave, Id
  <2> QED BY <1>0, <2>1, <2>2 DEF Pends
<1>9. ASSUME NEW z, BelowPending(p, z), NEW j \in DOMAIN pipe'[p], Pends(pipe'[p][j])
      PROVE  z < idOf[pipe'[p][j].who]
  <2>1. CASE OldP(j)
    BY <1>9, <2>1 DEF BelowPending, OldPipe, Id
  <2>2. CASE NewSave(p, d, j)
    BY <1>9, <2>2 DEF BelowPending, NewSave, Id, Pends
  <2> QED BY <1>0, <1>9, <2>1, <2>2
<1>10. Replays'
  <2>1. ASSUME NEW i \in DOMAIN pipe'[p], pipe'[p][i].op = "range"
        PROVE  pipe'[p][i].args = <<mid[pipe'[p][i].who]>>
    <3>1. CASE OldP(i)
      BY <2>1, <3>1 DEF OldPipe, OrderInv, Replays, IdsRead, BodiesRead
    <3>2. CASE \E k \in DOMAIN new : pipe'[p][i] = new[k]
      BY <2>1, <3>2 DEF NewOrder
    <3> QED BY <1>0, <3>1, <3>2
  <2>2. ASSUME NEW i \in DOMAIN pipe'[p], pipe'[p][i].op = "range", pipe'[p][i].done
        PROVE  /\ Disjoint(pipe'[p][i].reply)
               /\ \A k \in DOMAIN pipe'[p][i].reply : \A z \in pipe'[p][i].reply[k] :
                   /\ z > mid[pipe'[p][i].who]
                   /\ \A j \in DOMAIN pipe'[p] :
                        Drawn(pipe'[p][j]) \/ (Saves(pipe'[p][j]) /\ j > i)
                          => z < idOf[pipe'[p][j].who]
    <3>1. OldP(i)
      BY <1>0, <2>2
    <3> DEFINE r == pipe[p][i + d]
    <3>2. /\ Disjoint(r.reply)
          /\ \A k \in DOMAIN r.reply : \A z \in r.reply[k] :
                   /\ z > mid[r.who]
                   /\ \A j \in DOMAIN pipe[p] :
                        Drawn(pipe[p][j]) \/ (Saves(pipe[p][j]) /\ j > i + d) => z < Id(pipe[p][j])
      BY <2>2, <3>1 DEF OldPipe, OrderInv, Replays, IdsRead, BodiesRead
    <3>3. ASSUME NEW k \in DOMAIN r.reply, NEW z \in r.reply[k], NEW j \in DOMAIN pipe'[p],
                 Drawn(pipe'[p][j]) \/ (Saves(pipe'[p][j]) /\ j > i)
          PROVE  z < idOf[pipe'[p][j].who]
      <4>1. CASE OldP(j)
        <5>1. j > i => j + d > i + d
          BY <1>0, <1>1
        <5> QED BY <3>2, <3>3, <4>1, <5>1 DEF OldPipe, Id
      <4>2. CASE NewSave(p, d, j)
        BY <3>2, <4>2 DEF NewSave, Id
      <4> QED BY <1>0, <3>3, <4>1, <4>2 DEF Pends
    <3>4. pipe'[p][i] = r
      BY <3>1 DEF OldPipe
    <3> HIDE DEF r
    <3> QED BY <3>2, <3>3, <3>4
  <2>3. ASSUME NEW i \in DOMAIN pipe'[p], pipe'[p][i].op = "mget"
        PROVE  /\ Ascends(pipe'[p][i].args)
               /\ \A z \in ToSet(pipe'[p][i].args) :
                    z > mid[pipe'[p][i].who] /\ BelowPending(p, z)
    <3>1. CASE OldP(i)
      BY <2>3, <3>1 DEF OldPipe, OrderInv, Replays, BodiesRead, ReplayPutOff, BelowPending
    <3>2. CASE \E k \in DOMAIN new : pipe'[p][i] = new[k]
      BY <2>3, <3>2 DEF NewOrder
    <3> QED BY <1>0, <3>1, <3>2
  <2>4. ASSUME NEW i \in DOMAIN pipe'[p], pipe'[p][i].op = "mget", pipe'[p][i].done
        PROVE  /\ Ascends(pipe'[p][i].reply)
               /\ ToSet(pipe'[p][i].reply) \subseteq ToSet(pipe'[p][i].args)
    <3>1. OldP(i)
      BY <1>0, <2>4
    <3>2. BodiesRead(p, i + d)
      BY <3>1 DEF OldPipe, OrderInv, Replays
    <3> QED BY <2>4, <3>1, <3>2 DEF OldPipe, BodiesRead
  <2>5. ASSUME NEW i \in DOMAIN ticks'[p], ticks'[p][i].op = "loaded"
        PROVE  /\ Ascends(ticks'[p][i].args)
               /\ \A z \in ToSet(ticks'[p][i].args) :
                    /\ z > mid[ticks'[p][i].who] /\ BelowPending(p, z)
                    /\ \A j \in DOMAIN ticks'[p] :
                         j > i /\ ticks'[p][j].op = "saved" => z < idOf[ticks'[p][j].who]
    <3>1. CASE OldT(i)
      <4> DEFINE t == ticks[p][i + e]
      <4>1. /\ Ascends(t.args)
            /\ \A z \in ToSet(t.args) :
                 /\ z > mid[t.who] /\ BelowPending(p, z)
                 /\ \A j \in DOMAIN ticks[p] :
                      j > i + e /\ ticks[p][j].op = "saved" => z < Id(ticks[p][j])
        BY <2>5, <3>1 DEF OldTick, OrderInv, Replays, BodiesRead, ReplayPutOff, BelowPending
      <4>2. ASSUME NEW z \in ToSet(t.args), NEW j \in DOMAIN ticks'[p], j > i,
                   ticks'[p][j].op = "saved"
            PROVE  z < idOf[ticks'[p][j].who]
        <5>1. CASE OldT(j)
          <6>1. j + e > i + e
            BY <1>0, <1>1, <4>2
          <6> QED BY <4>1, <4>2, <5>1, <6>1 DEF OldTick, Id
        <5>2. CASE NewTick(p, d, j)
          BY <4>1, <5>2 DEF NewTick, Id, BelowPending, Pends
        <5> QED BY <1>0, <4>2, <5>1, <5>2
      <4>3. ticks'[p][i] = t
        BY <3>1 DEF OldTick
      <4> HIDE DEF t
      <4> QED BY <4>1, <4>2, <4>3
    <3>2. CASE ~OldT(i)
      <4>1. PICK k \in DOMAIN put : ticks'[p][i] = put[k]
        BY <1>0, <3>2
      <4>2. \A j \in DOMAIN ticks'[p] : ~(j > i)
        BY <1>0, <3>2
      <4> QED BY <2>5, <4>1, <4>2 DEF NewOrder
    <3> QED BY <3>1, <3>2
  <2>6. ASSUME NEW z, BelowPending(p, z) PROVE BelowPending(p, z)'
    BY <1>1, <1>9, <2>6 DEF BelowPending, Id
  <2>7. ASSUME NEW i \in DOMAIN pipe'[p] PROVE IdsRead(p, i)'
    BY <1>1, <2>1, <2>2 DEF IdsRead, Id
  <2>8. ASSUME NEW i \in DOMAIN pipe'[p] PROVE BodiesRead(p, i)'
    BY <2>3, <2>4, <2>6 DEF BodiesRead
  <2>9. ASSUME NEW i \in DOMAIN ticks'[p] PROVE ReplayPutOff(p, i)'
    BY <1>1, <2>5, <2>6 DEF ReplayPutOff, Id
  <2> QED BY <2>7, <2>8, <2>9 DEF Replays
<1>11. Pending(p)' \subseteq Pending(p)
  <2>1. ASSUME NEW i \in DOMAIN pipe'[p], Pends(pipe'[p][i])
        PROVE  idOf[pipe'[p][i].who] \in Pending(p)
    <3>1. CASE OldP(i)
      BY <2>1, <3>1 DEF OldPipe, Pending, Id
    <3>2. CASE NewSave(p, d, i)
      BY <3>2 DEF NewSave, Pending, Id, Pends
    <3> QED BY <1>0, <2>1, <3>1, <3>2
  <2>2. ASSUME NEW i \in DOMAIN ticks'[p], ticks'[p][i].op = "saved"
        PROVE  idOf[ticks'[p][i].who] \in Pending(p)
    <3>1. CASE OldT(i)
      BY <2>2, <3>1 DEF OldTick, Pending, Id
    <3>2. CASE NewTick(p, d, i)
      BY <3>2 DEF NewTick, Pending, Id, Pends
    <3> QED BY <1>0, <2>2, <3>1, <3>2
  <2> QED BY <1>1, <2>1, <2>2 DEF Pending, Id
<1> QED BY <1>7, <1>8, <1>10, <1>11

(* One process, where OneProcess holds. *)
Only(p) == \A q \in Processes : q = p

LEMMA QuietOrder ==
  ASSUME BaseInv, OrderInv, NEW p \in Processes, Only(p), NEW d \in {0, 1},
         NEW new, NEW put, Additions(new, put), QueueStep(p, d, new, 0, put),
         NewOrder(p, d, new, put), UNCHANGED <<Store, startDate, relay, inbox, mid, got>>
  PROVE  OrderInv'
<1>1. /\ idOf' = idOf /\ zset' = zset /\ mid' = mid /\ inbox' = inbox /\ got' = got
      /\ startDate' = startDate /\ relay' = relay
  BY DEF QueueStep, Store
<1>2. Queued' /\ Held' /\ Replays' /\ Pending(p)' \subseteq Pending(p)
  BY <1>1, OrderMoves DEF Only
<1>3. Addressed' /\ Alone'
  BY <1>1 DEF OrderInv, Addressed, Alone
<1>4. Seen'
  BY <1>1, <1>2 DEF OrderInv, Seen, Only
<1> QED BY <1>2, <1>3, <1>4 DEF OrderInv

LEMMA OneCopy ==
  ASSUME OneWay, NEW m \in Messages, NEW c \in Clients, Copies(m, c) > 0
  PROVE  Copies(m, c) = 1
<1> DEFINE K == {k \in DOMAIN To[m] : To[m][k] \in ToSet(Subscribed[c])}
<1>1. Copies(m, c) = Cardinality(K) /\ Cardinality(K) \in Nat
  BY CopiesFacts DEF Copies
<1>2. K # {}
  <2>1. K = {} => Cardinality(K) = 0
    BY FS_EmptySet
  <2> QED BY <1>1, <2>1
<1>3. PICK k \in K : TRUE
  BY <1>2
<1>4. K = {k}
  <2> SUFFICES ASSUME NEW l \in K PROVE l = k
    BY <1>3
  <2>1. PICK i \in DOMAIN Subscribed[c] : Subscribed[c][i] = To[m][k]
    BY <1>3 DEF ToSet
  <2>2. PICK j \in DOMAIN Subscribed[c] : Subscribed[c][j] = To[m][l]
    BY DEF ToSet
  <2> QED BY <1>3, <2>1, <2>2 DEF OneWay
<1> QED BY <1>1, <1>4, FS_Singleton

LEMMA AppendedAscends ==
  ASSUME NEW S \in SUBSET Int, NEW q \in Seq(S), NEW r \in Seq(S), Ascends(q), Ascends(r),
         \A z \in ToSet(q), y \in ToSet(r) : z < y
  PROVE  Ascends(q \o r) /\ ToSet(q \o r) = ToSet(q) \cup ToSet(r)
<1> DEFINE x == q \o r
<1>1. /\ x \in Seq(S) /\ Len(x) = Len(q) + Len(r) /\ Len(q) \in Nat /\ Len(r) \in Nat
      /\ \A i \in 1..(Len(q) + Len(r)) : x[i] = IF i <= Len(q) THEN q[i] ELSE r[i - Len(q)]
      /\ DOMAIN q = 1..Len(q) /\ DOMAIN r = 1..Len(r)
  BY ConcatProperties
<1> HIDE DEF x
<1>2. DOMAIN x = 1..(Len(q) + Len(r))
  BY <1>1
<1>3. ASSUME NEW i \in DOMAIN x
      PROVE  \/ i \in DOMAIN q /\ x[i] = q[i] /\ q[i] \in ToSet(q)
             \/ /\ i > Len(q) /\ i - Len(q) \in DOMAIN r /\ x[i] = r[i - Len(q)]
                /\ r[i - Len(q)] \in ToSet(r)
  BY <1>1, <1>2 DEF ToSet
<1>4. ASSUME NEW i \in DOMAIN x, NEW j \in DOMAIN x, i < j PROVE x[i] < x[j]
  <2>0. i \in Int /\ j \in Int
    BY <1>1, <1>2
  <2>1. CASE i \in DOMAIN q /\ j \in DOMAIN q
    BY <1>1, <1>2, <1>4, <2>1 DEF Ascends
  <2>2. CASE i \in DOMAIN q /\ j \notin DOMAIN q
    BY <1>3, <2>2, <1>1
  <2>3. CASE i \notin DOMAIN q
    <3>1. j \notin DOMAIN q
      BY <1>1, <1>2, <1>4, <2>0, <2>3
    <3>2. /\ i - Len(q) \in DOMAIN r /\ x[i] = r[i - Len(q)]
          /\ j - Len(q) \in DOMAIN r /\ x[j] = r[j - Len(q)] /\ i - Len(q) < j - Len(q)
      BY <1>1, <1>3, <1>4, <2>0, <2>3, <3>1
    <3> QED BY <3>2 DEF Ascends
  <2> QED BY <2>1, <2>2, <2>3
<1>5. ToSet(x) = ToSet(q) \cup ToSet(r)
  <2>1. ToSet(x) \subseteq ToSet(q) \cup ToSet(r)
    BY <1>3 DEF ToSet
  <2>2. ASSUME NEW i \in DOMAIN q PROVE q[i] \in ToSet(x)
    <3>1. i \in DOMAIN x /\ x[i] = q[i]
      BY <1>1, <1>2
    <3> QED BY <3>1 DEF ToSet
  <2>3. ASSUME NEW i \in DOMAIN r PROVE r[i] \in ToSet(x)
    <3>1. /\ i + Len(q) \in DOMAIN x /\ ~(i + Len(q) <= Len(q)) /\ (i + Len(q)) - Len(q) = i
      BY <1>1, <1>2
    <3>2. x[i + Len(q)] = r[i]
      BY <1>1, <1>2, <3>1
    <3> QED BY <3>1, <3>2 DEF ToSet
  <2> QED BY <2>1, <2>2, <2>3 DEF ToSet
<1> QED BY <1>4, <1>5 DEF Ascends, x

(* A broadcast of a message that is older than what is pending after it. *)
LEMMA ServedOrder ==
  ASSUME BaseInv, OrderInv, OneWay, NEW p \in Processes, Only(p), NEW m \in Messages,
         idOf[m] # 0, idOf[m] \in Pending(p), Served(p, m), idOf' = idOf,
         Pending(p)' \subseteq {y \in Pending(p) : y > idOf[m]}
  PROVE  Seen'
<1>0. Types
  BY DEF BaseInv
<1>1. mid' = mid /\ got' = got
  BY DEF Served
<1>2. Ids \in SUBSET Int
  BY DEF Ids
<1>3. ASSUME NEW c \in Clients, c \in Hit(p, m)
      PROVE  /\ Ascends(inbox'[c])
             /\ ToSet(inbox'[c]) = ToSet(inbox[c]) \cup {idOf[m]}
  <2> DEFINE x == Response(c, m)
  <2>1. inbox'[c] = inbox[c] \o x
    BY <1>3 DEF Served
  <2>2. x \in Seq(Ids) /\ (\A k \in DOMAIN x : x[k] = idOf[m]) /\ Len(x) = 1
    <3>1. Copies(m, c) = 1
      BY <1>3, OneCopy DEF Hit
    <3> QED BY <1>0, <3>1, ResponseFacts
  <2> HIDE DEF x
  <2>3. DOMAIN x = {1} /\ x[1] = idOf[m]
    BY <2>2
  <2>4. Ascends(x) /\ ToSet(x) = {idOf[m]}
    BY <2>3 DEF Ascends, ToSet
  <2>5. inbox[c] \in Seq(Ids) /\ Ascends(inbox[c])
    BY <1>0 DEF Types, OrderInv, Seen
  <2>6. \A z \in ToSet(inbox[c]), y \in ToSet(x) : z < y
    BY <2>4 DEF OrderInv, Seen
  <2> QED BY <1>2, <2>1, <2>2, <2>4, <2>5, <2>6, AppendedAscends
<1>4. ASSUME NEW c \in Clients, c \notin Hit(p, m) PROVE inbox'[c] = inbox[c]
  BY <1>4 DEF Served
<1>5. \A c \in Clients : mid[c] < idOf[m]
  BY DEF OrderInv, Seen
<1>6. ASSUME NEW c \in Clients
      PROVE  /\ Ascends(inbox'[c])
             /\ \A z \in ToSet(inbox'[c]) : z > mid[c]
             /\ \A z \in {mid[c]} \cup ToSet(inbox'[c]) : \A y \in Pending(p)' : z < y
  <2>0. /\ Ascends(inbox[c]) /\ \A z \in ToSet(inbox[c]) : z > mid[c]
        /\ \A z \in {mid[c]} \cup ToSet(inbox[c]) : \A y \in Pending(p) : z < y
    BY DEF OrderInv, Seen
  <2>1. CASE c \in Hit(p, m)
    <3>1. idOf[m] > mid[c] /\ \A y \in Pending(p)' : idOf[m] < y
      <4>1. mid[c] \in Int /\ idOf[m] \in Int
        BY <1>0 DEF Types
      <4>2. \A y \in Pending(p) : y \in Int => (y > idOf[m] => idOf[m] < y)
        BY <4>1
      <4>3. \A y \in Pending(p) : y \in Int
        <5>1. /\ \A i \in DOMAIN pipe[p] : Pends(pipe[p][i]) => idOf[pipe[p][i].who] \in Int
              /\ \A i \in DOMAIN ticks[p] : ticks[p][i].op = "saved"
                                               => idOf[ticks[p][i].who] \in Int
          <6>1. /\ \A i \in DOMAIN pipe[p] : pipe[p][i] \in RequestType
                /\ \A i \in DOMAIN ticks[p] : ticks[p][i] \in TickType
            BY <1>0 DEF Types
          <6>2. /\ \A i \in DOMAIN pipe[p] : Pends(pipe[p][i]) => pipe[p][i].who \in Messages
                /\ \A i \in DOMAIN ticks[p] : ticks[p][i].op = "saved"
                                                => ticks[p][i].who \in Messages
            BY <6>1 DEF RequestType, TickType, Pends, Drawn, Saves, MessageOps
          <6> QED BY <1>0, <6>2 DEF Types
        <5> QED BY <5>1 DEF Pending, Id
      <4> QED BY <1>5, <4>1, <4>2, <4>3
    <3> QED BY <1>3, <2>0, <2>1, <3>1
  <2>2. CASE c \notin Hit(p, m)
    BY <1>4, <2>0, <2>2
  <2> QED BY <2>1, <2>2
<1> QED BY <1>1, <1>6 DEF OrderInv, Seen, Only

(* A client gets the messages it missed. *)
LEMMA ToldOrder ==
  ASSUME BaseInv, OrderInv, NEW p \in Processes, Only(p), NEW c \in Clients,
         NEW ids \in Seq(Ids), link[c] = "loading", Told(c, ids), Ascends(ids),
         Pending(p)' \subseteq Pending(p),
         \A z \in ToSet(ids) : z > mid[c] /\ \A y \in Pending(p)' : z < y
  PROVE  Seen'
<1>0. Types
  BY DEF BaseInv
<1>1. mid' = mid /\ got' = got /\ inbox' = [inbox EXCEPT ![c] = inbox[c] \o ids]
  BY DEF Told
<1>2. inbox'[c] = ids /\ \A b \in Clients : b # c => inbox'[b] = inbox[b]
  <2>1. inbox[c] = <<>>
    BY DEF BaseInv, Waiting
  <2>2. <<>> \o ids = ids
    OBVIOUS
  <2> QED BY <1>0, <1>1, <2>1, <2>2 DEF Types
<1>3. \A y \in Pending(p)' : mid[c] < y
  BY DEF OrderInv, Seen
<1>4. ASSUME NEW b \in Clients
      PROVE  /\ Ascends(inbox'[b])
             /\ \A z \in ToSet(inbox'[b]) : z > mid[b]
             /\ \A z \in {mid[b]} \cup ToSet(inbox'[b]) : \A y \in Pending(p)' : z < y
  <2>1. CASE b = c
    BY <1>2, <1>3, <2>1
  <2>2. CASE b # c
    BY <1>2, <2>2 DEF OrderInv, Seen
  <2> QED BY <2>1, <2>2
<1> QED BY <1>1, <1>4 DEF OrderInv, Seen, Only

LEMMA TickOrder ==
  ASSUME BaseInv, OrderInv, Sequential, NEW p \in Processes, Only(p), Tick(p)
  PROVE  OrderInv'
<1> DEFINE t == ticks[p][1]
<1>0. Types
  BY DEF BaseInv
<1>1. /\ ticks[p] # <<>> /\ QueueStep(p, 0, <<>>, 1, <<>>)
      /\ UNCHANGED <<Store, startDate, bounds>>
      /\ \/ t.op = "saved" /\ Broadcasts(p, t.who)
         \/ t.op = "loaded" /\ Told(t.who, t.args) /\ UNCHANGED relay
  BY <1>0, TickForm
<1>2. t \in TickType /\ 1 \in DOMAIN ticks[p]
  BY <1>0, <1>1 DEF Types
<1>3. Additions(<<>>, <<>>) /\ NewOrder(p, 0, <<>>, <<>>)
  BY DEF Additions, NewOrder
<1>4. zset' = zset /\ mid' = mid /\ idOf' = idOf /\ startDate' = startDate
  BY <1>1 DEF Store, QueueStep, Broadcasts, Served, Told
<1>5. Queued' /\ Held' /\ Replays' /\ Pending(p)' \subseteq Pending(p)
  BY <1>1, <1>3, <1>4, OrderMoves DEF Only
<1>6. Addressed'
  BY <1>4 DEF OrderInv, Addressed
<1>7. Alone'
  <2>1. relay'[p][p] = relay[p][p]
    BY <1>0, <1>1 DEF Broadcasts, Types
  <2> QED BY <1>4, <2>1 DEF OrderInv, Alone, Only
<1>8. /\ \A i \in DOMAIN pipe'[p] : Pends(pipe'[p][i]) =>
           \E j \in DOMAIN pipe[p] : Pends(pipe[p][j]) /\ idOf'[pipe'[p][i].who] = Id(pipe[p][j])
      /\ \A i \in DOMAIN ticks'[p] : ticks'[p][i].op = "saved" =>
           \E j \in DOMAIN ticks[p] :
             j > 1 /\ ticks[p][j].op = "saved" /\ idOf'[ticks'[p][i].who] = Id(ticks[p][j])
  <2>1. /\ \A i \in DOMAIN pipe'[p] : Pends(pipe'[p][i]) => OldPipe(p, 0, i) \/ NewSave(p, 0, i)
        /\ \A i \in DOMAIN ticks'[p] : i \in Nat \ {0}
        /\ \A i \in DOMAIN ticks'[p] : ticks'[p][i].op = "saved" =>
             OldTick(p, 1, i) \/ NewTick(p, 0, i)
    BY <1>1, <1>3, OrderSources
  <2>2. ASSUME NEW i \in DOMAIN pipe'[p], Pends(pipe'[p][i])
        PROVE  \E j \in DOMAIN pipe[p] : Pends(pipe[p][j]) /\ idOf'[pipe'[p][i].who] = Id(pipe[p][j])
    <3>1. i + 0 \in DOMAIN pipe[p] /\ pipe'[p][i] = pipe[p][i + 0]
      BY <2>1, <2>2 DEF OldPipe, NewSave
    <3> QED BY <1>4, <2>2, <3>1 DEF Id
  <2>3. ASSUME NEW i \in DOMAIN ticks'[p], ticks'[p][i].op = "saved"
        PROVE  \E j \in DOMAIN ticks[p] :
                 j > 1 /\ ticks[p][j].op = "saved" /\ idOf'[ticks'[p][i].who] = Id(ticks[p][j])
    <3>1. i + 1 \in DOMAIN ticks[p] /\ ticks'[p][i] = ticks[p][i + 1] /\ i + 1 > 1
      BY <2>1, <2>3 DEF OldTick, NewTick
    <3> QED BY <1>4, <2>3, <3>1 DEF Id
  <2> QED BY <2>2, <2>3
<1>9. ASSUME NEW z, BelowPending(p, z),
             \A j \in DOMAIN ticks[p] : j > 1 /\ ticks[p][j].op = "saved" => z < Id(ticks[p][j])
      PROVE  \A y \in Pending(p)' : z < y
  <2>1. /\ \A i \in DOMAIN pipe'[p] : Pends(pipe'[p][i]) => z < idOf'[pipe'[p][i].who]
        /\ \A i \in DOMAIN ticks'[p] : ticks'[p][i].op = "saved" => z < idOf'[ticks'[p][i].who]
    BY <1>8, <1>9 DEF BelowPending
  <2> QED BY <2>1 DEF Pending, Id
<1>10. CASE t.op = "saved"
  <2> DEFINE m == t.who
  <2>1. m \in Messages /\ idOf[m] # 0 /\ idOf[m] \in Pending(p) /\ Broadcasts(p, m)
    BY <1>1, <1>2, <1>10 DEF TickType, BaseInv, Drawing, Pending, Id
  <2>2. \A y \in Pending(p)' : idOf[m] < y
    <3>1. /\ BelowPending(p, idOf[m])
          /\ \A j \in DOMAIN ticks[p] : j > 1 /\ ticks[p][j].op = "saved"
                                          => idOf[m] < Id(ticks[p][j])
      <4>1. \A j \in DOMAIN ticks[p] : j > 1 => 1 < j
        BY <1>0 DEF Types
      <4> QED BY <1>2, <1>10, <4>1 DEF OrderInv, Queued, BelowPending, Id
    <3> QED BY <1>9, <3>1
  <2>3. \A y \in Pending(p)' : y > idOf[m]
    BY <2>2
  <2>4. Seen'
    BY <1>4, <1>5, <2>1, <2>3, ServedOrder DEF Sequential, Broadcasts
  <2> QED BY <1>5, <1>6, <1>7, <2>4 DEF OrderInv
<1>11. CASE t.op = "loaded"
  <2>1. /\ t.who \in Clients /\ t.args \in Seq(Ids) /\ link[t.who] = "loading"
        /\ Told(t.who, t.args)
    BY <1>1, <1>2, <1>11 DEF TickType, BaseInv, Loading
  <2>2. ReplayPutOff(p, 1)
    BY <1>2 DEF OrderInv, Replays
  <2>3. /\ Ascends(t.args)
        /\ \A z \in ToSet(t.args) : z > mid[t.who] /\ \A y \in Pending(p)' : z < y
    BY <1>9, <1>11, <2>2 DEF ReplayPutOff
  <2>4. Seen'
    BY <1>5, <2>1, <2>3, ToldOrder
  <2> QED BY <1>5, <1>6, <1>7, <2>4 DEF OrderInv
<1> QED BY <1>1, <1>10, <1>11

LEMMA IncrOrder ==
  ASSUME BaseInv, OrderInv, Sequential, NEW p \in Processes, Only(p), IncrReplied(p)
  PROVE  OrderInv'
<1> DEFINE m == pipe[p][1].who
           x == Request("save", m, <<>>)
<1>0. Types
  BY DEF BaseInv
<1>1. /\ pipe[p] # <<>> /\ pipe[p][1].op = "incr" /\ pipe[p][1].done
      /\ IdGiven(p, m) /\ UNCHANGED <<Store, startDate, bounds>>
  BY <1>0, IncrForm
<1>2. m \in Messages
  <2>1. pipe[p][1] \in RequestType
    BY <1>0, <1>1, HeadFacts
  <2> QED BY <1>1, <2>1 DEF RequestType, MessageOps
<1>3. QueueStep(p, 1, <<x>>, 0, <<>>) /\ UNCHANGED <<Ends, relay>>
  BY <1>1, <1>2 DEF IdGiven, Sequential, OrderInv, Alone
<1>4. x \in RequestType
  BY <1>0, <1>2, RequestFacts DEF MessageOps
<1>5. x.op = "save" /\ x.who = m /\ x.done = FALSE
  BY DEF Request
<1> HIDE DEF x
<1>6. DOMAIN <<x>> = {1} /\ <<x>>[1] = x
  BY OneEntry
<1>7. Additions(<<x>>, <<>>)
  BY <1>4 DEF Additions
<1>8. NewOrder(p, 1, <<x>>, <<>>)
  BY <1>1, <1>5, <1>6 DEF NewOrder, Saves, Drawn
<1> QED BY <1>1, <1>3, <1>7, <1>8, QuietOrder DEF Ends

LEMMA SavedOrder ==
  ASSUME BaseInv, OrderInv, NEW p \in Processes, Only(p), Saved(p)
  PROVE  OrderInv'
<1> DEFINE m == pipe[p][1].who
           x == Request("ttl", m, <<>>)
           t == [op |-> "saved", who |-> m, args |-> <<>>]
<1>0. Types
  BY DEF BaseInv
<1>1. /\ pipe[p] # <<>> /\ pipe[p][1].op = "save" /\ pipe[p][1].done
      /\ QueueStep(p, 1, <<x>>, 0, <<t>>)
      /\ UNCHANGED <<Store, Ends, startDate, relay, bounds>>
  BY <1>0, SavedForm
<1>2. m \in Messages
  <2>1. pipe[p][1] \in RequestType
    BY <1>0, <1>1, HeadFacts
  <2> QED BY <1>1, <2>1 DEF RequestType, MessageOps
<1>3. x \in RequestType /\ t \in TickType
  BY <1>0, <1>2, RequestFacts DEF MessageOps
<1>4. /\ x.op = "ttl" /\ x.who = m /\ x.done = FALSE
      /\ t.op = "saved" /\ t.who = m
  BY DEF Request
<1> HIDE DEF x, t
<1>5. DOMAIN <<x>> = {1} /\ <<x>>[1] = x /\ DOMAIN <<t>> = {1} /\ <<t>>[1] = t
  BY OneEntry
<1>6. Additions(<<x>>, <<t>>)
  BY <1>3 DEF Additions
<1>7. NewOrder(p, 1, <<x>>, <<t>>)
  BY <1>1, <1>4, <1>5 DEF NewOrder, Saves
<1> QED BY <1>1, <1>6, <1>7, QuietOrder DEF Ends

LEMMA TTLOrder ==
  ASSUME BaseInv, OrderInv, NEW p \in Processes, Only(p), TTLReplied(p)
  PROVE  OrderInv'
<1> DEFINE chs == pipe[p][1].reply
           new == [k \in DOMAIN chs |-> Request("expire", chs[k], <<>>)]
<1>0. Types
  BY DEF BaseInv
<1>1. /\ pipe[p] # <<>> /\ pipe[p][1].op = "ttl" /\ pipe[p][1].done
      /\ QueueStep(p, 1, new, 0, <<>>)
      /\ UNCHANGED <<Store, Ends, startDate, relay, bounds>>
  BY <1>0, TTLForm
<1>2. chs \in Seq(Channels)
  <2>1. pipe[p][1] \in RequestType
    BY <1>0, <1>1, HeadFacts
  <2> QED BY <1>1, <2>1 DEF RequestType, MessageOps
<1>3. Additions(new, <<>>)
  BY <1>0, <1>2, ExpiresTyped DEF Additions
<1>4. \A k \in DOMAIN new : new[k].op = "expire" /\ new[k].done = FALSE
  BY DEF Request
<1> HIDE DEF new
<1>5. NewOrder(p, 1, new, <<>>)
  BY <1>4 DEF NewOrder, Saves
<1> QED BY <1>1, <1>3, <1>5, QuietOrder DEF Ends

LEMMA ExpireOrder ==
  ASSUME BaseInv, OrderInv, NEW p \in Processes, Only(p), ExpireReplied(p)
  PROVE  OrderInv'
<1>1. /\ QueueStep(p, 1, <<>>, 0, <<>>) /\ pipe[p][1].op = "expire"
      /\ UNCHANGED <<Store, Ends, startDate, relay, bounds>>
  BY ExpireForm DEF BaseInv
<1>2. Additions(<<>>, <<>>) /\ NewOrder(p, 1, <<>>, <<>>)
  BY DEF Additions, NewOrder
<1> QED BY <1>1, <1>2, QuietOrder DEF Ends

(* The ids that were read: the last ones, in order. *)
LEMMA ReadFacts ==
  ASSUME BaseInv, OrderInv, NEW p \in Processes, pipe[p] # <<>>, pipe[p][1].op = "range",
         pipe[p][1].done
  PROVE  LET ids == LastOnes(Sorted(pipe[p][1].reply), ReplayLimit) IN
         /\ ids \in Seq(Ids) /\ Ascends(ids)
         /\ \A z \in ToSet(ids) : z > mid[pipe[p][1].who] /\ BelowPending(p, z)
<1> DEFINE r == pipe[p][1]
           ids == LastOnes(Sorted(r.reply), ReplayLimit)
           n == Len(r.reply)
<1>1. r.reply \in Seq(SUBSET Ids) /\ Types
  BY LoadFacts DEF LoadOps, BaseInv
<1>2. Top \in Nat /\ n \in Nat /\ ReplayLimit \in Nat
  BY <1>1, TopFacts, DeliveryAssumption
<1>3. r.reply \in [1..n -> SUBSET (1..Top)] /\ DOMAIN r.reply = 1..n
  BY <1>1 DEF Ids
<1>4. 1 \in DOMAIN pipe[p] /\ \A j \in DOMAIN pipe[p] : j # 1 => j > 1
  BY <1>1 DEF Types
<1>5. IdsRead(p, 1)
  BY <1>4 DEF OrderInv, Replays
<1>6. /\ Disjoint(r.reply)
      /\ \A k \in DOMAIN r.reply : \A z \in r.reply[k] : z > mid[r.who] /\ BelowPending(p, z)
  <2>1. \A j \in DOMAIN pipe[p] : Pends(pipe[p][j]) =>
          Drawn(pipe[p][j]) \/ (Saves(pipe[p][j]) /\ j > 1)
    BY <1>4 DEF Pends, Saves
  <2> QED BY <1>5, <2>1 DEF IdsRead, BelowPending
<1> HIDE DEF n, r
<1>7. /\ Sorted(r.reply) \in Seq(1..Top)
      /\ ToSet(Sorted(r.reply)) = UNION {r.reply[k] : k \in 1..n}
      /\ Ascends(Sorted(r.reply))
  BY <1>2, <1>3, <1>6, SortedFacts
<1>8. ids \in Seq(1..Top) /\ ToSet(ids) \subseteq ToSet(Sorted(r.reply)) /\ Ascends(ids)
  BY <1>2, <1>7, LastOnesFacts
<1> HIDE DEF ids
<1>9. \A z \in ToSet(ids) : \E k \in DOMAIN r.reply : z \in r.reply[k]
  BY <1>3, <1>7, <1>8
<1>10. \A z \in ToSet(ids) : z > mid[r.who] /\ BelowPending(p, z)
  BY <1>6, <1>9
<1> QED BY <1>8, <1>10 DEF Ids, r, ids

LEMMA RangeOrder ==
  ASSUME BaseInv, OrderInv, NEW p \in Processes, Only(p), RangeReplied(p)
  PROVE  OrderInv'
<1> DEFINE c == pipe[p][1].who
           ids == LastOnes(Sorted(pipe[p][1].reply), ReplayLimit)
           x == Request("mget", c, ids)
<1>0. Types
  BY DEF BaseInv
<1>1. /\ pipe[p] # <<>> /\ pipe[p][1].op = "range" /\ pipe[p][1].done
      /\ UNCHANGED <<Store, startDate, relay, bounds>>
      /\ \/ /\ ids # <<>>
            /\ QueueStep(p, 1, <<x>>, 0, <<>>) /\ UNCHANGED Ends
         \/ /\ ids = <<>>
            /\ QueueStep(p, 1, <<>>, 0, <<>>) /\ Told(c, <<>>)
  BY <1>0, RangeForm
<1>2. c \in Clients /\ link[c] = "loading"
  BY <1>1, LoadFacts DEF LoadOps
<1>3. /\ ids \in Seq(Ids) /\ Ascends(ids)
      /\ \A z \in ToSet(ids) : z > mid[c] /\ BelowPending(p, z)
  BY <1>1, ReadFacts
<1> HIDE DEF ids
<1>4. CASE ids # <<>>
  <2>0. QueueStep(p, 1, <<x>>, 0, <<>>) /\ UNCHANGED Ends
    BY <1>1, <1>4
  <2>1. x \in RequestType
    BY <1>0, <1>2, <1>3, RequestFacts
  <2>2. x.op = "mget" /\ x.who = c /\ x.done = FALSE /\ x.args = ids
    BY DEF Request
  <2> HIDE DEF x
  <2>3. Additions(<<x>>, <<>>)
    BY <2>1 DEF Additions
  <2>4. DOMAIN <<x>> = {1} /\ <<x>>[1] = x
    BY OneEntry
  <2>5. NewOrder(p, 1, <<x>>, <<>>)
    BY <1>3, <2>2, <2>4 DEF NewOrder, Saves
  <2> QED BY <1>1, <2>0, <2>3, <2>5, QuietOrder DEF Ends
<1>5. CASE ids = <<>>
  <2>0. QueueStep(p, 1, <<>>, 0, <<>>) /\ Told(c, <<>>)
    BY <1>1, <1>5
  <2>1. Additions(<<>>, <<>>) /\ NewOrder(p, 1, <<>>, <<>>)
    BY DEF Additions, NewOrder
  <2>2. zset' = zset /\ mid' = mid /\ idOf' = idOf /\ startDate' = startDate /\ relay' = relay
    BY <1>1, <2>0 DEF Store, QueueStep, Told
  <2>3. Queued' /\ Held' /\ Replays' /\ Pending(p)' \subseteq Pending(p)
    BY <2>0, <2>1, <2>2, OrderMoves DEF Only
  <2>4. Seen'
    <3>1. <<>> \in Seq(Ids) /\ Ascends(<<>>) /\ ToSet(<<>>) = {}
      BY DEF Ascends, ToSet
    <3> QED BY <1>2, <2>0, <2>3, <3>1, ToldOrder
  <2>5. Addressed' /\ Alone'
    BY <2>2 DEF OrderInv, Addressed, Alone
  <2> QED BY <2>3, <2>4, <2>5 DEF OrderInv
<1> QED BY <1>4, <1>5

LEMMA MessagesOrder ==
  ASSUME BaseInv, OrderInv, NEW p \in Processes, Only(p), MessagesReplied(p)
  PROVE  OrderInv'
<1> DEFINE c == pipe[p][1].who
           ids == pipe[p][1].reply
           t == [op |-> "loaded", who |-> c, args |-> ids]
<1>0. Types
  BY DEF BaseInv
<1>1. /\ pipe[p] # <<>> /\ pipe[p][1].op = "mget" /\ pipe[p][1].done
      /\ QueueStep(p, 1, <<>>, 0, <<t>>)
      /\ UNCHANGED <<Store, Ends, startDate, relay, bounds>>
  BY <1>0, MessagesForm
<1>2. c \in Clients /\ ids \in Seq(Ids)
  BY <1>1, LoadFacts DEF LoadOps
<1>3. BodiesRead(p, 1)
  BY <1>0, <1>1, HeadFacts DEF OrderInv, Replays
<1>4. /\ Ascends(ids)
      /\ \A z \in ToSet(ids) : z > mid[c] /\ BelowPending(p, z)
  BY <1>1, <1>3 DEF BodiesRead
<1>5. t \in TickType
  BY <1>0, <1>2, RequestFacts
<1>6. t.op = "loaded" /\ t.who = c /\ t.args = ids
  OBVIOUS
<1> HIDE DEF t
<1>7. DOMAIN <<t>> = {1} /\ <<t>>[1] = t
  BY OneEntry
<1>8. Additions(<<>>, <<t>>)
  BY <1>5 DEF Additions
<1>9. NewOrder(p, 1, <<>>, <<t>>)
  BY <1>4, <1>6, <1>7 DEF NewOrder
<1> QED BY <1>1, <1>8, <1>9, QuietOrder DEF Ends

LEMMA PublishOrder ==
  ASSUME BaseInv, OrderInv, NEW m \in Messages, NEW p \in Processes, Only(p), Publish(m, p)
  PROVE  OrderInv'
<1> DEFINE x == Request("incr", m, <<>>)
<1>0. Types
  BY DEF BaseInv
<1>1. /\ QueueStep(p, 0, <<x>>, 0, <<>>)
      /\ UNCHANGED <<Store, Ends, startDate, relay, losses, breaks>>
  BY <1>0, PublishForm
<1>2. x \in RequestType
  BY <1>0, RequestFacts DEF MessageOps
<1>3. x.op = "incr" /\ x.who = m /\ x.done = FALSE
  BY DEF Request
<1> HIDE DEF x
<1>4. DOMAIN <<x>> = {1} /\ <<x>>[1] = x
  BY OneEntry
<1>5. Additions(<<x>>, <<>>)
  BY <1>2 DEF Additions
<1>6. NewOrder(p, 0, <<x>>, <<>>)
  BY <1>3, <1>4 DEF NewOrder, Saves
<1> QED BY <1>1, <1>5, <1>6, QuietOrder DEF Ends

LEMMA ConnectOrder ==
  ASSUME BaseInv, OrderInv, NEW c \in Clients, NEW p \in Processes, Only(p), Connect(c, p)
  PROVE  OrderInv'
<1> DEFINE x == Request("range", c, <<mid[c]>>)
<1>0. Types
  BY DEF BaseInv
<1>1. /\ QueueStep(p, 0, <<x>>, 0, <<>>)
      /\ UNCHANGED <<Store, inbox, mid, got, startDate, relay, bounds>>
  BY <1>0, ConnectForm
<1>2. x \in RequestType
  BY <1>0, RequestFacts
<1>3. x.op = "range" /\ x.who = c /\ x.done = FALSE /\ x.args = <<mid[c]>>
  BY DEF Request
<1> HIDE DEF x
<1>4. DOMAIN <<x>> = {1} /\ <<x>>[1] = x
  BY OneEntry
<1>5. Additions(<<x>>, <<>>)
  BY <1>2 DEF Additions
<1>6. NewOrder(p, 0, <<x>>, <<>>)
  BY <1>3, <1>4 DEF NewOrder, Saves
<1> QED BY <1>1, <1>5, <1>6, QuietOrder

-----------------------------------------------------------------------------
(***************************************************************************)
(* The order, at the ends and in Redis.                                    *)
(***************************************************************************)
LEMMA StillOrder ==
  ASSUME BaseInv, OrderInv, Still, Seen',
         \A c \in Clients : link[c] = "loading" => mid'[c] = mid[c]
  PROVE  OrderInv'
<1>1. /\ idOf' = idOf /\ zset' = zset /\ pipe' = pipe /\ ticks' = ticks
      /\ startDate' = startDate /\ relay' = relay
  BY DEF Still, Store
<1>2. Queued' /\ Held' /\ Addressed' /\ Alone'
  BY <1>1 DEF OrderInv, Queued, Held, Addressed, Alone, Id
<1>3. ASSUME NEW p \in Processes, NEW i \in DOMAIN pipe[p], Loads(pipe[p][i])
      PROVE  mid'[pipe[p][i].who] = mid[pipe[p][i].who]
  <2>1. pipe[p][i] \in RequestType
    BY DEF BaseInv, Types
  <2>2. pipe[p][i].who \in Clients
    BY <1>3, <2>1 DEF RequestType, Loads, LoadOps, MessageOps
  <2> QED BY <1>3, <2>2 DEF BaseInv, Loading
<1>4. ASSUME NEW p \in Processes, NEW i \in DOMAIN ticks[p], ticks[p][i].op = "loaded"
      PROVE  mid'[ticks[p][i].who] = mid[ticks[p][i].who]
  <2>1. ticks[p][i] \in TickType
    BY DEF BaseInv, Types
  <2>2. ticks[p][i].who \in Clients
    BY <1>4, <2>1 DEF TickType
  <2> QED BY <1>4, <2>2 DEF BaseInv, Loading
<1>5. ASSUME NEW p \in Processes, NEW z PROVE BelowPending(p, z)' <=> BelowPending(p, z)
  BY <1>1 DEF BelowPending, Id
<1>6. ASSUME NEW p \in Processes, NEW i \in DOMAIN pipe[p] PROVE IdsRead(p, i)' /\ BodiesRead(p, i)'
  <2>1. IdsRead(p, i) /\ BodiesRead(p, i)
    BY DEF OrderInv, Replays
  <2>2. IdsRead(p, i)'
    BY <1>1, <1>3, <2>1 DEF IdsRead, Id, Loads, LoadOps
  <2>3. BodiesRead(p, i)'
    BY <1>1, <1>3, <1>5, <2>1 DEF BodiesRead, Loads, LoadOps
  <2> QED BY <2>2, <2>3
<1>7. ASSUME NEW p \in Processes, NEW i \in DOMAIN ticks[p] PROVE ReplayPutOff(p, i)'
  <2>1. ReplayPutOff(p, i)
    BY DEF OrderInv, Replays
  <2> QED BY <1>1, <1>4, <1>5, <2>1 DEF ReplayPutOff, Id
<1>8. Replays'
  BY <1>1, <1>6, <1>7 DEF Replays
<1> QED BY <1>2, <1>8 DEF OrderInv

LEMMA TimeoutOrder ==
  ASSUME BaseInv, OrderInv, NEW c \in Clients, PollTimeout(c)
  PROVE  OrderInv'
<1>1. Still /\ UNCHANGED <<inbox, mid, got>>
  BY TimeoutForm DEF BaseInv
<1>2. \A p \in Processes : Pending(p)' = Pending(p)
  BY <1>1 DEF Still, Pending, Id
<1>3. Seen'
  BY <1>1, <1>2 DEF OrderInv, Seen
<1> QED BY <1>1, <1>3, StillOrder

LEMMA CutOrder ==
  ASSUME BaseInv, OrderInv, NEW c \in Clients, NEW n \in Nat, Cut(c, n)
  PROVE  OrderInv'
<1>0. Types
  BY DEF BaseInv
<1>1. /\ Still /\ UNCHANGED <<mid, got>> /\ n \in 0..Len(inbox[c])
      /\ inbox'[c] = SubSeq(inbox[c], 1, n)
      /\ \A b \in Clients : b # c => inbox'[b] = inbox[b]
  BY <1>0, CutFacts DEF Cut
<1>2. \A p \in Processes : Pending(p)' = Pending(p)
  BY <1>1 DEF Still, Pending, Id
<1>3. \A i \in DOMAIN inbox'[c] : i \in DOMAIN inbox[c] /\ inbox'[c][i] = inbox[c][i]
  <2>1. inbox[c] \in Seq(Ids)
    BY <1>0 DEF Types
  <2> QED BY <1>1, <2>1
<1>4. Ascends(inbox'[c]) /\ ToSet(inbox'[c]) \subseteq ToSet(inbox[c])
  <2>1. Ascends(inbox[c])
    BY DEF OrderInv, Seen
  <2> QED BY <1>3, <2>1 DEF Ascends, ToSet
<1>5. ASSUME NEW b \in Clients
      PROVE  Ascends(inbox'[b]) /\ ToSet(inbox'[b]) \subseteq ToSet(inbox[b])
  <2>1. CASE b = c
    BY <1>4, <2>1
  <2>2. CASE b # c
    BY <1>1, <2>2 DEF OrderInv, Seen
  <2> QED BY <2>1, <2>2
<1>6. Seen'
  BY <1>1, <1>2, <1>5 DEF OrderInv, Seen
<1> QED BY <1>1, <1>6, StillOrder

(* A client takes the first n responses. *)
LEMMA SplitAscends ==
  ASSUME NEW N \in Nat, NEW q \in Seq(1..N), Ascends(q), NEW n \in 1..Len(q)
  PROVE  LET a == SubSeq(q, 1, n)
             b == SubSeq(q, n + 1, Len(q)) IN
         /\ a \in Seq(1..N) /\ b \in Seq(1..N) /\ Ascends(a) /\ Ascends(b)
         /\ ToSet(a) \subseteq ToSet(q) /\ ToSet(b) \subseteq ToSet(q)
         /\ \A z \in ToSet(a) : z <= q[n]
         /\ \A z \in ToSet(b) : z > q[n]
         /\ q[n] \in ToSet(q)
<1> DEFINE a == SubSeq(q, 1, n)
           b == SubSeq(q, n + 1, Len(q))
<1>1. /\ a \in Seq(1..N) /\ Len(a) = n /\ \A i \in 1..n : a[i] = q[i]
      /\ b \in Seq(1..N) /\ Len(b) = Len(q) - n /\ \A i \in 1..(Len(q) - n) : b[i] = q[n + i]
      /\ Len(q) \in Nat /\ n \in Nat /\ DOMAIN q = 1..Len(q)
  <2>0. Len(q) \in Nat /\ n \in Nat /\ DOMAIN q = 1..Len(q) /\ n <= Len(q)
    OBVIOUS
  <2>1. a \in Seq(1..N) /\ Len(a) = n /\ \A i \in 1..n : a[i] = q[i]
    BY <2>0
  <2>2. b \in Seq(1..N)
    BY <2>0
  <2>3. Len(b) = Len(q) - n
    <3>1. \A i \in (n + 1)..Len(q) : q[i] \in 1..N
      BY <2>0
    <3>2. Len(b) = IF n + 1 <= Len(q) THEN Len(q) - (n + 1) + 1 ELSE 0
      BY <2>0, <3>1, SubSeqProperties
    <3>3. ASSUME NEW k \in Nat, n <= k
          PROVE  (IF n + 1 <= k THEN k - (n + 1) + 1 ELSE 0) = k - n
      BY <2>0, <3>3
    <3> QED BY <2>0, <3>2, <3>3
  <2>4. \A i \in 1..(Len(q) - n) : b[i] = q[n + i]
    BY <2>0, SubSeqProperties
  <2> QED BY <2>0, <2>1, <2>2, <2>3, <2>4
<1> HIDE DEF a, b
<1>2. DOMAIN a = 1..n /\ DOMAIN b = 1..(Len(q) - n)
  BY <1>1
<1>3. \A i \in DOMAIN a : i \in DOMAIN q /\ a[i] = q[i] /\ q[i] <= q[n]
  <2> SUFFICES ASSUME NEW i \in 1..n PROVE i \in DOMAIN q /\ a[i] = q[i] /\ q[i] <= q[n]
    BY <1>2
  <2>1. i \in DOMAIN q /\ n \in DOMAIN q /\ a[i] = q[i] /\ q[i] \in Int /\ q[n] \in Int
    BY <1>1
  <2>2. i < n \/ i = n
    OBVIOUS
  <2> QED BY <2>1, <2>2 DEF Ascends
<1>4. \A i \in DOMAIN b : n + i \in DOMAIN q /\ b[i] = q[n + i] /\ q[n + i] > q[n]
  <2> SUFFICES ASSUME NEW i \in 1..(Len(q) - n)
               PROVE  n + i \in DOMAIN q /\ b[i] = q[n + i] /\ q[n + i] > q[n]
    BY <1>2
  <2>1. n + i \in DOMAIN q /\ n \in DOMAIN q /\ n < n + i
    BY <1>1
  <2>2. q[n] < q[n + i]
    BY <2>1 DEF Ascends
  <2>3. q[n] \in Int /\ q[n + i] \in Int
    BY <2>1
  <2> QED BY <1>1, <2>1, <2>2, <2>3
<1>5. Ascends(a)
  BY <1>3 DEF Ascends
<1>6. Ascends(b)
  <2> SUFFICES ASSUME NEW i \in DOMAIN b, NEW j \in DOMAIN b, i < j PROVE b[i] < b[j]
    BY DEF Ascends
  <2>1. n + i < n + j
    BY <1>1, <1>2
  <2> QED BY <1>4, <2>1 DEF Ascends
<1>7. ToSet(a) \subseteq ToSet(q) /\ \A z \in ToSet(a) : z <= q[n]
  BY <1>3 DEF ToSet
<1>8. ToSet(b) \subseteq ToSet(q) /\ \A z \in ToSet(b) : z > q[n]
  BY <1>4 DEF ToSet
<1>9. q[n] \in ToSet(q)
  BY <1>1 DEF ToSet
<1> QED BY <1>1, <1>5, <1>6, <1>7, <1>8, <1>9 DEF a, b

LEMMA ReceiveOrder ==
  ASSUME BaseInv, OrderInv, Sockets, NEW c \in Clients, Receive(c)
  PROVE  OrderInv'
<1> DEFINE q == inbox[c]
           n == IF c \in Websockets THEN 1 ELSE Len(q)
           a == SubSeq(q, 1, n)
           b == SubSeq(q, n + 1, Len(q))
<1>0. Types
  BY DEF BaseInv
<1>1. /\ q # <<>>
      /\ got' = [got EXCEPT ![c] = @ \o a]
      /\ inbox' = [inbox EXCEPT ![c] = b]
      /\ mid' = [mid EXCEPT ![c] = q[n]]
      /\ Still
  BY <1>0, ReceiveForm
<1>2. q \in Seq(1..Top) /\ n \in 1..Len(q) /\ Top \in Nat
  <2>1. q \in Seq(1..Top) /\ Len(q) \in Nat /\ Len(q) # 0 /\ Top \in Nat
    BY <1>0, <1>1, TopFacts DEF Types, Ids
  <2> QED BY <2>1
<1>3. /\ Ascends(q) /\ Ascends(got[c]) /\ got[c] \in Seq(1..Top)
      /\ \A z \in ToSet(got[c]) : z <= mid[c]
      /\ \A z \in ToSet(q) : z > mid[c]
      /\ mid[c] \in Int
  BY <1>0 DEF OrderInv, Seen, Types, Ids
<1>4. \A d \in Clients : d # c =>
        inbox'[d] = inbox[d] /\ got'[d] = got[d] /\ mid'[d] = mid[d]
  BY <1>0, <1>1 DEF Types
<1>5. inbox'[c] = b /\ got'[c] = got[c] \o a /\ mid'[c] = q[n]
  BY <1>0, <1>1 DEF Types
<1> HIDE DEF q, n
<1>6. /\ a \in Seq(1..Top) /\ b \in Seq(1..Top) /\ Ascends(a) /\ Ascends(b)
      /\ ToSet(a) \subseteq ToSet(q) /\ ToSet(b) \subseteq ToSet(q)
      /\ \A z \in ToSet(a) : z <= q[n]
      /\ \A z \in ToSet(b) : z > q[n]
      /\ q[n] \in ToSet(q)
  BY <1>2, <1>3, SplitAscends
<1> HIDE DEF a, b
<1>7. ToSet(got[c]) \subseteq 1..Top /\ ToSet(q) \subseteq 1..Top
  BY <1>2, <1>3 DEF ToSet
<1>8. \A z \in ToSet(got[c]), y \in ToSet(a) : z < y
  BY <1>3, <1>6, <1>7
<1>9. Ascends(got[c] \o a) /\ ToSet(got[c] \o a) = ToSet(got[c]) \cup ToSet(a)
  <2>1. (1..Top) \in SUBSET Int
    OBVIOUS
  <2> QED BY <1>3, <1>6, <1>8, <2>1, AppendedAscends
<1>10. \A z \in ToSet(got[c]) : z <= q[n]
  BY <1>3, <1>6, <1>7
<1>11. \A p \in Processes : Pending(p)' = Pending(p)
  BY <1>1 DEF Still, Pending, Id
<1>12. \A p \in Processes : \A z \in {q[n]} \cup ToSet(b) : \A y \in Pending(p) : z < y
  BY <1>6 DEF OrderInv, Seen, q
<1>13. ASSUME NEW d \in Clients
       PROVE  /\ Ascends(got'[d]) /\ Ascends(inbox'[d])
              /\ \A z \in ToSet(got'[d]) : z <= mid'[d]
              /\ \A z \in ToSet(inbox'[d]) : z > mid'[d]
              /\ \A p \in Processes : \A z \in {mid'[d]} \cup ToSet(inbox'[d]) :
                   \A y \in Pending(p)' : z < y
  <2>1. CASE d = c
    BY <1>5, <1>6, <1>9, <1>10, <1>11, <1>12, <2>1
  <2>2. CASE d # c
    BY <1>4, <1>11, <2>2 DEF OrderInv, Seen
  <2> QED BY <2>1, <2>2
<1>14. Seen'
  BY <1>13 DEF Seen
<1>15. \A d \in Clients : link[d] = "loading" => mid'[d] = mid[d]
  BY <1>1, <1>4 DEF BaseInv, Waiting, q
<1> QED BY <1>1, <1>14, <1>15, StillOrder

LEMMA LostOrder ==
  ASSUME BaseInv, OrderInv, NEW p \in Processes, ConnectionLost(p)
  PROVE  OrderInv'
<1>0. Types
  BY DEF BaseInv
<1>1. /\ pipe' = [pipe EXCEPT ![p] = <<>>]
      /\ UNCHANGED <<idOf, Store, ticks, startDate, relay, home, inbox, mid, got,
                     published, breaks>>
  BY <1>0, LostForm
<1>2. zset' = zset
  BY <1>1 DEF Store
<1>3. \A q \in Processes : \A i \in DOMAIN pipe'[q] : pipe'[q] = pipe[q]
  <2>1. DOMAIN <<>> = {}
    OBVIOUS
  <2> QED BY <1>0, <1>1, <2>1 DEF Types
<1>4. Queued' /\ Held' /\ Addressed' /\ Alone'
  BY <1>1, <1>2, <1>3 DEF OrderInv, Queued, Held, Addressed, Alone, Id
<1>5. \A q \in Processes : \A z : BelowPending(q, z) => BelowPending(q, z)'
  BY <1>1, <1>3 DEF BelowPending, Id
<1>6. ASSUME NEW q \in Processes, NEW i \in DOMAIN pipe'[q]
      PROVE  IdsRead(q, i)' /\ BodiesRead(q, i)'
  <2>1. pipe'[q] = pipe[q] /\ IdsRead(q, i) /\ BodiesRead(q, i)
    BY <1>3 DEF OrderInv, Replays
  <2>2. IdsRead(q, i)'
    BY <1>1, <2>1 DEF IdsRead, Id
  <2>3. BodiesRead(q, i)'
    BY <1>1, <1>5, <2>1 DEF BodiesRead
  <2> QED BY <2>2, <2>3
<1>7. ASSUME NEW q \in Processes, NEW i \in DOMAIN ticks'[q] PROVE ReplayPutOff(q, i)'
  <2>1. ReplayPutOff(q, i)
    BY <1>1 DEF OrderInv, Replays
  <2> QED BY <1>1, <1>5, <2>1 DEF ReplayPutOff, Id
<1>8. \A q \in Processes : Pending(q)' \subseteq Pending(q)
  BY <1>1, <1>3 DEF Pending, Id
<1>9. Seen'
  BY <1>1, <1>8 DEF OrderInv, Seen
<1> QED BY <1>4, <1>6, <1>7, <1>9 DEF OrderInv, Replays

LEMMA ExpiringOrder ==
  ASSUME BaseInv, OrderInv, MessageExpires \/ ChannelExpires
  PROVE  OrderInv'
<1>1. UNCHANGED <<idOf, pipe, ticks, startDate, relay, link, home, inbox, mid, got,
                  published, losses, breaks>>
  BY DEF MessageExpires, ChannelExpires, bounds
<1>2. \A ch \in Channels : zset'[ch] \subseteq zset[ch]
  BY DEF MessageExpires, ChannelExpires, BaseInv, Types
<1>3. Queued' /\ Alone'
  BY <1>1 DEF OrderInv, Queued, Alone, Id
<1>4. Held' /\ Addressed'
  BY <1>1, <1>2 DEF OrderInv, Held, Addressed, Id
<1>5. Replays'
  BY <1>1 DEF OrderInv, Replays, IdsRead, BodiesRead, ReplayPutOff, BelowPending, Id
<1>6. \A p \in Processes : Pending(p)' = Pending(p)
  BY <1>1 DEF Pending, Id
<1>7. Seen'
  BY <1>1, <1>6 DEF OrderInv, Seen
<1> QED BY <1>3, <1>4, <1>5, <1>7 DEF OrderInv

(* Redis executes a request. *)
LEMMA ExecuteOrder ==
  ASSUME BaseInv, OrderInv, OneWay, NEW p \in Processes, Only(p), Execute(p)
  PROVE  OrderInv'
<1>0. Types /\ Numbering
  BY DEF BaseInv
<1>1. PICK i \in DOMAIN pipe[p] : Executed(p, i)
  BY <1>0, ExecuteForm
<1> DEFINE r == pipe[p][i]
           b == [r EXCEPT !.done = TRUE, !.reply = Answer(r)]
<1>2. /\ \A j \in DOMAIN pipe[p] : pipe[p][j].done <=> j < i
      /\ pipe' = [pipe EXCEPT ![p] = [pipe[p] EXCEPT ![i] = b]]
      /\ idOf' = IF r.op = "incr" THEN [idOf EXCEPT ![r.who] = 1 + Max({idOf[m] : m \in Messages})]
                 ELSE idOf
      /\ zset' = IF r.op = "save"
                 THEN [ch \in Channels |-> IF ch \in ToSet(To[r.who])
                                           THEN zset[ch] \cup {idOf[r.who]} ELSE zset[ch]]
                 ELSE zset
      /\ UNCHANGED <<ticks, Ends, startDate, relay>>
  BY <1>1 DEF Executed
<1>3. /\ r \in RequestType /\ pipe[p] \in Seq(RequestType) /\ i \in Nat
      /\ DOMAIN pipe[p] \subseteq Nat /\ DOMAIN pipe'[p] = DOMAIN pipe[p]
      /\ \A j \in DOMAIN pipe[p] : pipe'[p][j] = IF j = i THEN b ELSE pipe[p][j]
  BY <1>0, <1>2 DEF Types
<1>4. /\ ~r.done /\ b.op = r.op /\ b.who = r.who /\ b.args = r.args /\ b.done = TRUE
      /\ b.reply = Answer(r)
  BY <1>2, <1>3 DEF RequestType
<1>5. r.op = "incr" => r.who \in Messages /\ idOf[r.who] = 0
  BY <1>3, <1>4 DEF RequestType, MessageOps, BaseInv, Drawing, Draws
<1>6. r.op = "save" => r.who \in Messages /\ idOf[r.who] \in Ids
  <2> SUFFICES ASSUME r.op = "save" PROVE r.who \in Messages /\ idOf[r.who] \in Ids
    OBVIOUS
  <2>1. r.who \in Messages
    BY <1>3 DEF RequestType, MessageOps
  <2>2. idOf[r.who] # 0
    BY DEF BaseInv, Drawing, HasDrawn, Draws, MessageOps
  <2> QED BY <1>0, <2>1, <2>2 DEF Types, Ids
<1>7. /\ Top \in Nat /\ \A m \in Messages : idOf[m] \in 0..Top
      /\ \A ch \in Channels : zset[ch] \subseteq Ids /\ zset'[ch] \subseteq Ids
      /\ \A ch \in Channels : \A z \in zset'[ch] :
           z \in zset[ch] \/ (r.op = "save" /\ z = idOf[r.who] /\ ch \in ToSet(To[r.who]))
  BY <1>0, <1>2, <1>6, TopFacts DEF Types
<1> DEFINE Now(j) == r.op = "incr" /\ j = i
<1>8. ASSUME NEW j \in DOMAIN pipe[p], Pends(pipe'[p][j])
      PROVE  /\ Pends(pipe[p][j]) /\ ~Now(j) => /\ idOf'[pipe'[p][j].who] = Id(pipe[p][j])
                                                /\ Id(pipe[p][j]) \in Ids
             /\ Now(j) => idOf'[pipe'[p][j].who] = Top + 1
             /\ ~Now(j) => Pends(pipe[p][j])
             /\ Drawn(pipe'[p][j]) <=> Drawn(pipe[p][j]) \/ Now(j)
             /\ Saves(pipe'[p][j]) <=> Saves(pipe[p][j])
             /\ Saves(pipe'[p][j]) /\ ~pipe'[p][j].done => ~pipe[p][j].done /\ j # i
             /\ pipe'[p][j].who = pipe[p][j].who
  <2>1. pipe'[p][j] = (IF j = i THEN b ELSE pipe[p][j]) /\ pipe'[p][j].who = pipe[p][j].who
    BY <1>3, <1>4
  <2>2. pipe[p][j] \in RequestType
    BY <1>3
  <2>3. pipe[p][j].op \in MessageOps /\ pipe[p][j].who \in Messages
    BY <1>4, <1>8, <2>1, <2>2 DEF RequestType, Pends, Drawn, Saves, MessageOps
  <2>4. /\ Drawn(pipe'[p][j]) <=> Drawn(pipe[p][j]) \/ Now(j)
        /\ Saves(pipe'[p][j]) <=> Saves(pipe[p][j])
        /\ Saves(pipe'[p][j]) /\ ~pipe'[p][j].done => ~pipe[p][j].done /\ j # i
    BY <1>4, <2>1 DEF Drawn, Saves
  <2>5. ~Now(j) => Pends(pipe[p][j])
    BY <1>8, <2>4 DEF Pends
  <2>6. ASSUME Now(j) PROVE idOf'[pipe'[p][j].who] = Top + 1
    <3>1. idOf' = [idOf EXCEPT ![r.who] = Top + 1]
      BY <1>0, <1>2, <1>5, <2>6, NextId
    <3> QED BY <1>0, <2>1, <2>3, <2>6, <3>1 DEF Types
  <2>7. ASSUME Pends(pipe[p][j]), ~Now(j)
        PROVE  idOf'[pipe'[p][j].who] = Id(pipe[p][j]) /\ Id(pipe[p][j]) \in Ids
    <3>1. HasDrawn(pipe[p][j])
      BY <2>3, <2>7 DEF HasDrawn, Draws, Pends, Drawn, Saves
    <3>2. Id(pipe[p][j]) \in Ids
      BY <1>7, <2>3, <3>1 DEF BaseInv, Drawing, Ids, Id
    <3>3. idOf'[pipe[p][j].who] = idOf[pipe[p][j].who]
      <4>1. r.op = "incr" => pipe[p][j].who # r.who
        BY <1>5, <1>7, <3>2 DEF Ids, Id
      <4> QED BY <1>0, <1>2, <2>3, <4>1 DEF Types
    <3> QED BY <2>1, <3>2, <3>3 DEF Id
  <2> QED BY <2>1, <2>4, <2>5, <2>6, <2>7
<1>9. ASSUME NEW m \in Messages, idOf[m] # 0 PROVE idOf'[m] = idOf[m]
  BY <1>0, <1>2, <1>5, <1>9 DEF Types
<1>10. ASSUME NEW j \in DOMAIN pipe[p]
       PROVE  /\ pipe'[p][j].op = pipe[p][j].op /\ pipe'[p][j].args = pipe[p][j].args
              /\ pipe'[p][j].who = pipe[p][j].who
              /\ j # i => pipe'[p][j] = pipe[p][j]
  BY <1>3, <1>4
<1>11. UNCHANGED <<ticks, startDate, relay, link, home, inbox, mid, got>>
  BY <1>2 DEF Ends
<1>12. \A z \in Ids : z < Top + 1 /\ z \in Nat
  BY <1>7 DEF Ids
<1>13. pipe'[p][i] = b
  BY <1>3
<1> HIDE DEF r, b, Now
<1>14. Queued'
  <2>1. \A j \in DOMAIN pipe'[p] : pipe'[p][j].op # "startdate"
    BY <1>3, <1>10 DEF OrderInv, Queued
  <2>2. ASSUME NEW j \in DOMAIN pipe[p], NEW k \in DOMAIN pipe[p],
               \/ Saves(pipe'[p][j]) /\ Drawn(pipe'[p][k])
               \/ j < k /\ Saves(pipe'[p][j]) /\ Saves(pipe'[p][k])
               \/ j < k /\ Drawn(pipe'[p][j]) /\ Drawn(pipe'[p][k])
        PROVE  idOf'[pipe'[p][j].who] < idOf'[pipe'[p][k].who]
    <3>0. Pends(pipe'[p][j]) /\ Pends(pipe'[p][k])
      BY <2>2 DEF Pends
    <3>1. CASE ~Now(j) /\ ~Now(k)
      BY <1>8, <2>2, <3>0, <3>1 DEF OrderInv, Queued
    <3>2. CASE ~Now(j) /\ Now(k)
      BY <1>8, <1>12, <3>0, <3>2
    <3>3. CASE Now(j)
      <4>1. Drawn(pipe'[p][j]) /\ ~Saves(pipe'[p][j])
        BY <1>8, <1>10, <3>0, <3>3 DEF Now, Saves, r
      <4>2. j < k /\ Drawn(pipe'[p][k]) /\ ~Now(k)
        BY <1>3, <2>2, <3>3, <4>1 DEF Now
      <4>3. pipe[p][k].done
        BY <1>8, <3>0, <4>2 DEF Drawn
      <4> QED BY <1>2, <1>3, <3>3, <4>2, <4>3 DEF Now
    <3> QED BY <3>1, <3>2, <3>3
  <2>3. ASSUME NEW j \in DOMAIN ticks[p], ticks[p][j].op = "saved"
        PROVE  /\ ticks[p][j].who \in Messages /\ idOf[ticks[p][j].who] # 0
               /\ idOf'[ticks[p][j].who] = Id(ticks[p][j]) /\ Id(ticks[p][j]) \in Ids
    <3>1. ticks[p][j] \in TickType
      BY <1>0 DEF Types
    <3>2. ticks[p][j].who \in Messages /\ idOf[ticks[p][j].who] # 0
      BY <2>3, <3>1 DEF TickType, BaseInv, Drawing
    <3> QED BY <1>7, <1>9, <3>2 DEF Id, Ids
  <2>4. ASSUME NEW j \in DOMAIN ticks[p], ticks[p][j].op = "saved"
        PROVE  /\ \A k \in DOMAIN ticks[p] : j < k /\ ticks[p][k].op = "saved"
                    => idOf'[ticks[p][j].who] < idOf'[ticks[p][k].who]
               /\ \A k \in DOMAIN pipe[p] : Pends(pipe'[p][k])
                    => idOf'[ticks[p][j].who] < idOf'[pipe'[p][k].who]
    <3>1. \A k \in DOMAIN ticks[p] : j < k /\ ticks[p][k].op = "saved"
                    => idOf'[ticks[p][j].who] < idOf'[ticks[p][k].who]
      BY <2>3, <2>4 DEF OrderInv, Queued
    <3>2. ASSUME NEW k \in DOMAIN pipe[p], Pends(pipe'[p][k])
          PROVE  idOf'[ticks[p][j].who] < idOf'[pipe'[p][k].who]
      <4>1. CASE Now(k)
        BY <1>8, <1>12, <2>3, <2>4, <3>2, <4>1
      <4>2. CASE ~Now(k)
        BY <1>8, <2>3, <2>4, <3>2, <4>2 DEF OrderInv, Queued
      <4> QED BY <4>1, <4>2
    <3> QED BY <3>1, <3>2
  <2> QED BY <1>3, <1>11, <2>1, <2>2, <2>4 DEF Queued, Only, Id
<1>15. Held'
  <2> SUFFICES ASSUME NEW j \in DOMAIN pipe[p],
                      Drawn(pipe'[p][j]) \/ (Saves(pipe'[p][j]) /\ ~pipe'[p][j].done),
                      NEW ch \in Channels, NEW z \in zset'[ch]
               PROVE  z < idOf'[pipe'[p][j].who]
    BY <1>3 DEF Held, Only, Id
  <2>0. Pends(pipe'[p][j])
    BY DEF Pends
  <2>1. CASE Now(j)
    BY <1>7, <1>8, <1>12, <2>0, <2>1
  <2>2. CASE ~Now(j) /\ z \in zset[ch]
    BY <1>8, <2>0, <2>2 DEF OrderInv, Held
  <2>3. CASE ~Now(j) /\ r.op = "save" /\ z = idOf[r.who]
    <3>1. Saves(r) /\ Id(r) = z
      BY <2>3 DEF Saves, Id
    <3>2. Drawn(pipe[p][j]) \/ (Saves(pipe[p][j]) /\ i < j)
      BY <1>2, <1>3, <1>8, <2>0, <2>3
    <3> QED BY <1>8, <2>0, <2>3, <3>1, <3>2 DEF OrderInv, Queued, r
  <2> QED BY <1>7, <2>1, <2>2, <2>3
<1>16. Addressed'
  <2> SUFFICES ASSUME NEW ch \in Channels, NEW z \in zset'[ch]
               PROVE  \E m \in Messages : idOf'[m] = z /\ ch \in ToSet(To[m])
    BY DEF Addressed
  <2>1. \E m \in Messages : idOf[m] = z /\ ch \in ToSet(To[m])
    BY <1>6, <1>7 DEF OrderInv, Addressed
  <2>2. z # 0
    BY <1>7 DEF Ids
  <2> QED BY <1>9, <2>1, <2>2
<1>17. ASSUME NEW z \in Ids, BelowPending(p, z) PROVE BelowPending(p, z)'
  <2> SUFFICES ASSUME NEW j \in DOMAIN pipe[p], Pends(pipe'[p][j])
               PROVE  z < idOf'[pipe'[p][j].who]
    BY <1>3 DEF BelowPending, Id
  <2>1. CASE Now(j)
    BY <1>8, <1>12, <2>1
  <2>2. CASE ~Now(j)
    BY <1>8, <1>17, <2>2 DEF BelowPending
  <2> QED BY <2>1, <2>2
<1>18. ASSUME NEW j \in DOMAIN pipe[p], pipe[p][j].op = "range"
       PROVE  IdsRead(p, j)'
  <2> DEFINE x == pipe'[p][j]
  <2>0. x.op = "range" /\ x.who = pipe[p][j].who /\ x.args = <<mid[x.who]>>
    BY <1>10, <1>18 DEF OrderInv, Replays, IdsRead
  <2>1. ASSUME x.done
        PROVE  /\ Disjoint(x.reply)
               /\ \A k \in DOMAIN x.reply : \A z \in x.reply[k] : z \in Ids /\ z > mid[x.who]
               /\ \A k \in DOMAIN x.reply : \A z \in x.reply[k] : \A l \in DOMAIN pipe[p] :
                    /\ Pends(pipe[p][l]) /\ ~Now(l)
                    /\ Drawn(pipe'[p][l]) \/ (Saves(pipe'[p][l]) /\ l > j)
                    => z < Id(pipe[p][l])
    <3>1. CASE j # i
      <4>1. x = pipe[p][j]
        BY <1>10, <3>1
      <4>2. x \in RequestType
        BY <1>3, <4>1
      <4>3. \A k \in DOMAIN x.reply : \A z \in x.reply[k] : z \in Ids
        BY <1>18, <4>1, <4>2 DEF RequestType, MessageOps
      <4>4. IdsRead(p, j)
        BY DEF OrderInv, Replays
      <4>5. \A l \in DOMAIN pipe[p] :
              /\ Pends(pipe[p][l]) /\ ~Now(l)
              /\ Drawn(pipe'[p][l]) \/ (Saves(pipe'[p][l]) /\ l > j)
              => Drawn(pipe[p][l]) \/ (Saves(pipe[p][l]) /\ l > j)
        BY <1>8 DEF Pends
      <4> QED BY <1>18, <2>1, <4>1, <4>3, <4>4, <4>5 DEF IdsRead
    <3>2. CASE j = i
      <4> DEFINE c == r.who
      <4>0. x = b /\ r = pipe[p][j]
        BY <1>13, <3>2 DEF r
      <4>1. c \in Clients /\ Subscribed[c] \in Seq(Channels) /\ r.op = "range"
            /\ r.args = <<mid[c]>>
        <5>1. c \in Clients
          BY <1>3, <1>18, <4>0 DEF RequestType, MessageOps
        <5> QED BY <1>4, <1>18, <2>0, <4>0, <5>1, DeliveryAssumption
      <4>2. x.reply = [k \in DOMAIN Subscribed[c] |->
              Newest({z \in zset[Subscribed[c][k]] : z > r.args[1]}, RangeLimit)]
        BY <1>4, <4>0, <4>1 DEF Answer
      <4>3. /\ DOMAIN x.reply = DOMAIN Subscribed[c]
            /\ \A k \in DOMAIN x.reply : Subscribed[c][k] \in Channels
            /\ \A k \in DOMAIN x.reply : \A z \in x.reply[k] :
                 z \in zset[Subscribed[c][k]] /\ z > mid[c]
        BY <4>1, <4>2 DEF Newest
      <4> HIDE DEF x, c
      <4>4. \A k \in DOMAIN x.reply : \A z \in x.reply[k] : z \in Ids /\ z > mid[x.who]
        BY <1>4, <1>7, <4>0, <4>3 DEF c
      <4>5. ASSUME NEW k \in DOMAIN x.reply, NEW l \in DOMAIN x.reply,
                   NEW z \in x.reply[k], z \in x.reply[l]
            PROVE  k = l
        <5>1. PICK m \in Messages : idOf[m] = z /\ Subscribed[c][k] \in ToSet(To[m])
          BY <4>3 DEF OrderInv, Addressed
        <5>2. PICK n \in Messages : idOf[n] = z /\ Subscribed[c][l] \in ToSet(To[n])
          BY <4>3, <4>5 DEF OrderInv, Addressed
        <5>3. m = n
          BY <1>0, <4>4, <5>1, <5>2 DEF Numbering, Ids
        <5> QED BY <4>1, <4>3, <5>1, <5>2, <5>3 DEF OneWay, ToSet
      <4>6. Disjoint(x.reply)
        BY <4>5 DEF Disjoint
      <4>7. ASSUME NEW k \in DOMAIN x.reply, NEW z \in x.reply[k], NEW l \in DOMAIN pipe[p],
                   Pends(pipe[p][l]), ~Now(l), Drawn(pipe'[p][l]) \/ (Saves(pipe'[p][l]) /\ l > j)
            PROVE  z < Id(pipe[p][l])
        <5>1. Pends(pipe'[p][l])
          BY <4>7 DEF Pends
        <5>2. Drawn(pipe[p][l]) \/ (Saves(pipe[p][l]) /\ ~pipe[p][l].done)
          <6>1. l > j => ~(l < i)
            BY <1>3, <3>2
          <6> QED BY <1>2, <1>8, <4>7, <5>1, <6>1
        <5> QED BY <4>3, <5>2 DEF OrderInv, Held
      <4> QED BY <4>4, <4>6, <4>7
    <3> QED BY <3>1, <3>2
  <2>2. ASSUME x.done, NEW k \in DOMAIN x.reply, NEW z \in x.reply[k], NEW l \in DOMAIN pipe'[p],
               Drawn(pipe'[p][l]) \/ (Saves(pipe'[p][l]) /\ l > j)
        PROVE  z < idOf'[pipe'[p][l].who]
    <3>0. l \in DOMAIN pipe[p] /\ Pends(pipe'[p][l]) /\ z \in Ids
      BY <1>3, <2>1, <2>2 DEF Pends
    <3> HIDE DEF x
    <3>1. CASE Now(l)
      BY <1>8, <1>12, <3>0, <3>1
    <3>2. CASE ~Now(l)
      <4>1. Pends(pipe[p][l]) /\ idOf'[pipe'[p][l].who] = Id(pipe[p][l])
        BY <1>8, <3>0, <3>2
      <4> QED BY <2>1, <2>2, <3>0, <3>2, <4>1
    <3> QED BY <3>1, <3>2
  <2>3. mid' = mid
    BY <1>11
  <2>4. x.done => Disjoint(x.reply) /\ \A k \in DOMAIN x.reply : \A z \in x.reply[k] : z > mid[x.who]
    BY <2>1
  <2> QED BY <2>0, <2>2, <2>3, <2>4 DEF IdsRead, Id
<1>19. ASSUME NEW j \in DOMAIN pipe[p], pipe[p][j].op = "mget"
       PROVE  BodiesRead(p, j)'
  <2> DEFINE x == pipe'[p][j]
  <2>0. x.op = "mget" /\ x.who = pipe[p][j].who /\ x.args = pipe[p][j].args
    BY <1>10, <1>19
  <2>1. pipe[p][j].args \in Seq(Ids)
    <3>1. pipe[p][j] \in RequestType
      BY <1>3
    <3> QED BY <1>19, <3>1 DEF RequestType, MessageOps
  <2>2. \A z \in ToSet(pipe[p][j].args) : z \in Ids
    BY <2>1 DEF ToSet
  <2>3. BodiesRead(p, j)
    BY DEF OrderInv, Replays
  <2>4. Ascends(x.args) /\ \A z \in ToSet(x.args) : z > mid'[x.who] /\ BelowPending(p, z)'
    <3>1. mid' = mid
      BY <1>11
    <3> QED BY <1>17, <1>19, <2>0, <2>2, <2>3, <3>1 DEF BodiesRead
  <2>5. ASSUME x.done PROVE Ascends(x.reply) /\ ToSet(x.reply) \subseteq ToSet(x.args)
    <3>1. CASE j # i
      BY <1>10, <1>19, <2>3, <2>5, <3>1 DEF BodiesRead
    <3>2. CASE j = i
      <4>1. x.reply = Kept(x.args, bodies)
        BY <1>4, <1>13, <1>19, <2>0, <3>2 DEF Answer, r
      <4>2. Ids \subseteq Int
        BY DEF Ids
      <4>3. x.args \in Seq(Ids) /\ Ascends(x.args)
        BY <2>0, <2>1, <2>4
      <4> HIDE DEF x
      <4>4. Ascends(Kept(x.args, bodies)) /\ ToSet(Kept(x.args, bodies)) = ToSet(x.args) \cap bodies
        BY <4>2, <4>3, KeptFacts
      <4> QED BY <4>1, <4>4
    <3> QED BY <3>1, <3>2
  <2> QED BY <2>0, <2>4, <2>5 DEF BodiesRead
<1>20. ASSUME NEW j \in DOMAIN ticks[p], ticks[p][j].op = "loaded"
       PROVE  ReplayPutOff(p, j)'
  <2> DEFINE t == ticks[p][j]
  <2>1. t.args \in Seq(Ids)
    <3>1. t \in TickType
      BY <1>0 DEF Types
    <3> QED BY <1>20, <3>1 DEF TickType
  <2>2. \A z \in ToSet(t.args) : z \in Ids
    BY <2>1 DEF ToSet
  <2>3. /\ Ascends(t.args)
        /\ \A z \in ToSet(t.args) :
             /\ z > mid[t.who] /\ BelowPending(p, z)
             /\ \A k \in DOMAIN ticks[p] : k > j /\ ticks[p][k].op = "saved" => z < Id(ticks[p][k])
    BY <1>20 DEF OrderInv, Replays, ReplayPutOff
  <2>4. ASSUME NEW k \in DOMAIN ticks[p], ticks[p][k].op = "saved"
        PROVE  idOf'[ticks[p][k].who] = Id(ticks[p][k])
    <3>1. ticks[p][k] \in TickType
      BY <1>0 DEF Types
    <3>2. ticks[p][k].who \in Messages /\ idOf[ticks[p][k].who] # 0
      BY <2>4, <3>1 DEF TickType, BaseInv, Drawing
    <3> QED BY <1>9, <3>2 DEF Id
  <2>5. \A z \in ToSet(t.args) : BelowPending(p, z)'
    BY <1>17, <2>2, <2>3
  <2>6. ticks'[p] = ticks[p] /\ mid' = mid
    BY <1>11
  <2> QED BY <2>3, <2>4, <2>5, <2>6 DEF ReplayPutOff, Id
<1>21. Replays'
  <2>1. \A j \in DOMAIN pipe[p] : IdsRead(p, j)' /\ BodiesRead(p, j)'
    BY <1>10, <1>18, <1>19 DEF IdsRead, BodiesRead
  <2>2. ASSUME NEW j \in DOMAIN ticks[p] PROVE ReplayPutOff(p, j)'
    <3>1. CASE ticks[p][j].op = "loaded"
      BY <1>20, <3>1
    <3>2. CASE ticks[p][j].op # "loaded"
      BY <1>11, <3>2 DEF ReplayPutOff
    <3> QED BY <3>1, <3>2
  <2> QED BY <1>3, <1>11, <2>1, <2>2 DEF Replays, Only
<1>22. Seen'
  <2>1. ASSUME NEW c \in Clients, NEW z \in {mid[c]} \cup ToSet(inbox[c]), NEW y \in Pending(p)'
        PROVE  z < y
    <3>0. z \in 0..Top /\ z < Top + 1
      <4>1. mid[c] \in 0..Top /\ inbox[c] \in Seq(Ids)
        BY <1>0 DEF Types
      <4>2. ToSet(inbox[c]) \subseteq Ids
        BY <4>1 DEF ToSet
      <4>3. Ids \subseteq 0..Top /\ Top \in Nat
        BY <1>7 DEF Ids
      <4>4. z \in 0..Top
        BY <4>1, <4>2, <4>3
      <4> QED BY <4>3, <4>4
    <3>1. \A u \in Pending(p) : z < u
      BY DEF OrderInv, Seen
    <3>2. ASSUME NEW j \in DOMAIN pipe[p], Pends(pipe'[p][j]) PROVE z < idOf'[pipe'[p][j].who]
      <4>1. CASE Now(j)
        BY <1>8, <3>0, <3>2, <4>1
      <4>2. CASE ~Now(j)
        BY <1>8, <3>1, <3>2, <4>2 DEF Pending
      <4> QED BY <4>1, <4>2
    <3>3. ASSUME NEW j \in DOMAIN ticks[p], ticks[p][j].op = "saved"
          PROVE  z < idOf'[ticks[p][j].who]
      <4>1. ticks[p][j] \in TickType
        BY <1>0 DEF Types
      <4>2. ticks[p][j].who \in Messages /\ idOf[ticks[p][j].who] # 0
        BY <3>3, <4>1 DEF TickType, BaseInv, Drawing
      <4>3. idOf'[ticks[p][j].who] = Id(ticks[p][j]) /\ Id(ticks[p][j]) \in Pending(p)
        BY <1>9, <3>3, <4>2 DEF Id, Pending
      <4> QED BY <3>1, <4>3
    <3> QED BY <1>3, <1>11, <3>2, <3>3 DEF Pending, Id
  <2> QED BY <1>11, <2>1 DEF OrderInv, Seen, Only
<1>23. Alone'
  BY <1>11 DEF OrderInv, Alone
<1> QED BY <1>14, <1>15, <1>16, <1>21, <1>22, <1>23 DEF OrderInv

LEMMA OrderInitially ==
  ASSUME Sequential, Init
  PROVE  OrderInv
<1>1. DOMAIN <<>> = {} /\ Ascends(<<>>) /\ ToSet(<<>>) = {}
  BY DEF Ascends, ToSet
<1>2. Queued /\ Held /\ Replays
  BY <1>1 DEF Init, Queued, Held, Replays
<1>3. Addressed /\ Alone
  BY DEF Init, Addressed, Alone, Sequential
<1>4. \A p \in Processes : Pending(p) = {}
  BY <1>1 DEF Init, Pending
<1>5. Seen
  BY <1>1, <1>4 DEF Init, Seen
<1> QED BY <1>2, <1>3, <1>5 DEF OrderInv

LEMMA OrderStep ==
  ASSUME Sequential, BaseInv, Sockets, OrderInv, [Next]_vars
  PROVE  OrderInv'
<1>0. Types
  BY DEF BaseInv
<1>a. \A p \in Processes : Only(p)
  BY DEF Sequential, OneProcess, Only
<1>1. CASE UNCHANGED vars
  <2>1. Still /\ UNCHANGED <<inbox, mid, got>>
    BY <1>1 DEF vars, Still, Store
  <2>2. \A p \in Processes : Pending(p)' = Pending(p)
    BY <2>1 DEF Still, Pending, Id
  <2>3. Seen'
    BY <2>1, <2>2 DEF OrderInv, Seen
  <2> QED BY <2>1, <2>3, StillOrder
<1>2. ASSUME NEW p \in Processes, Execute(p) PROVE OrderInv'
  BY <1>a, <1>2, ExecuteOrder DEF Sequential
<1>3. ASSUME NEW p \in Processes, Reply(p) PROVE OrderInv'
  <2>1. CASE IncrReplied(p)
    BY <1>a, <2>1, IncrOrder
  <2>2. CASE StartDateReplied(p)
    <3>1. pipe[p] # <<>> /\ pipe[p][1].op = "startdate"
      BY <1>0, <2>2, StartDateForm
    <3>2. 1 \in DOMAIN pipe[p]
      BY <1>0, <3>1, HeadFacts
    <3> QED BY <3>1, <3>2 DEF OrderInv, Queued
  <2>3. CASE Saved(p)
    BY <1>a, <2>3, SavedOrder
  <2>4. CASE TTLReplied(p)
    BY <1>a, <2>4, TTLOrder
  <2>5. CASE ExpireReplied(p)
    BY <1>a, <2>5, ExpireOrder
  <2>6. CASE RangeReplied(p)
    BY <1>a, <2>6, RangeOrder
  <2>7. CASE MessagesReplied(p)
    BY <1>a, <2>7, MessagesOrder
  <2> QED BY <1>3, <2>1, <2>2, <2>3, <2>4, <2>5, <2>6, <2>7 DEF Reply
<1>4. ASSUME NEW p \in Processes, Tick(p) PROVE OrderInv'
  BY <1>a, <1>4, TickOrder
<1>5. ASSUME NEW p \in Processes, ConnectionLost(p) PROVE OrderInv'
  BY <1>5, LostOrder
<1>6. ASSUME NEW p \in Processes, NEW q \in Processes, Relayed(p, q) PROVE OrderInv'
  BY <1>a, <1>0, <1>6, RelayedForm DEF OrderInv, Alone, Only
<1>7. ASSUME NEW m \in Messages, NEW p \in Processes, Publish(m, p) PROVE OrderInv'
  BY <1>a, <1>7, PublishOrder
<1>8. ASSUME NEW c \in Clients, NEW p \in Processes, Connect(c, p) PROVE OrderInv'
  BY <1>a, <1>8, ConnectOrder
<1>9. ASSUME NEW c \in Clients, PollTimeout(c) \/ Receive(c) PROVE OrderInv'
  BY <1>9, TimeoutOrder, ReceiveOrder
<1>10. ASSUME NEW c \in Clients, Break(c) \/ SendBuffer(c) \/ Ping(c) \/ Pong(c) PROVE OrderInv'
  <2>1. PICK n \in Nat : Cut(c, n)
    BY <1>0, <1>10, CutForm
  <2> QED BY <2>1, CutOrder
<1>11. CASE MessageExpires \/ ChannelExpires
  BY <1>11, ExpiringOrder
<1>12. ASSUME NEW p \in Processes, NEW q \in Processes, RelayLost(p, q) PROVE OrderInv'
  BY <1>a, <1>0, <1>12, RelayLostForm DEF OrderInv, Alone, Only
<1> QED BY <1>1, <1>2, <1>3, <1>4, <1>5, <1>6, <1>7, <1>8, <1>9, <1>10, <1>11, <1>12 DEF Next

LEMMA OrderAlways == Sequential => (Spec => []OrderInv)
<1> SUFFICES ASSUME Sequential PROVE Spec => []OrderInv
  OBVIOUS
<1>1. Init => OrderInv
  BY OrderInitially
<1>2. BaseInv /\ Sockets /\ OrderInv /\ [Next]_vars => OrderInv'
  BY OrderStep
<1> QED BY <1>1, <1>2, BaseAlways, PTL DEF Spec

(***************************************************************************)
(* For any messages, channels, clients and limits, with breaking           *)
(* connections and expiring keys: a client gets every id once and in       *)
(* order, over all its polls, replays and broadcasts - in a single process *)
(* that knows the start date, if every message is stored and reaches a     *)
(* client over one channel only.  Each of these is needed: a second        *)
(* process broadcasts a later id before the first one is done with its     *)
(* own; in a process without the start date a message waits for it while a *)
(* later one, answered when it is there, is saved; a message that is not   *)
(* stored is broadcast while an older one is being saved; and a message in *)
(* two channels is read twice.                                             *)
(***************************************************************************)
THEOREM DeliveredInOrder == Sequential => (Spec => []Ascending)
<1> SUFFICES ASSUME Sequential PROVE Spec => []Ascending
  OBVIOUS
<1>1. OrderInv => Ascending
  BY DEF OrderInv, Seen, Ascending, Ascends
<1> QED BY <1>1, OrderAlways, PTL

-----------------------------------------------------------------------------
(***************************************************************************)
(* Completeness, in the same process, as long as it has not lost Redis and *)
(* nothing expires.                                                        *)
(***************************************************************************)
Persisted == \A ch \in Channels : zset[ch] \subseteq bodies

(* What a polling client does not have, and a replay would bring it. *)
Missing(c) == {i \in ChannelLog(c) : i > mid[c] /\ ~Superseded(c, i)}

SavedAt(p, j) == Saves(pipe[p][j]) /\ pipe[p][j].done

(* What is saved but not yet broadcast. *)
Broadcasting(p) ==
  {Id(pipe[p][i]) : i \in {j \in DOMAIN pipe[p] : SavedAt(p, j)}}
  \cup {Id(ticks[p][i]) : i \in {j \in DOMAIN ticks[p] : ticks[p][j].op = "saved"}}

(* The ids of q are all there is up to the last of them. *)
Covers(c, q) ==
  /\ q # <<>>
  /\ \A i \in Missing(c) : i \in ToSet(q) \/ \A z \in ToSet(q) : z < i

ReadAll(p, k) ==
  LET r == pipe[p][k] IN
  r.op = "range" /\ r.done /\ r.who \in Polling =>
    /\ \A x \in DOMAIN r.reply : r.reply[x] \subseteq ChannelLog(r.who)
    /\ \A i \in Missing(r.who) :
         \/ \E x \in DOMAIN r.reply : i \in r.reply[x]
         \/ \E j \in DOMAIN pipe[p] : j > k /\ SavedAt(p, j) /\ Id(pipe[p][j]) = i

AskedAll(p, k) ==
  LET r == pipe[p][k] IN
  r.op = "mget" /\ r.who \in Polling =>
    /\ ToSet(r.args) \subseteq bodies /\ Covers(r.who, r.args)
    /\ r.done => ToSet(r.reply) = ToSet(r.args)

PutOffAll(p, k) ==
  LET t == ticks[p][k] IN t.op = "loaded" /\ t.who \in Polling => Covers(t.who, t.args)

Arrived(c) == \A i \in ChannelLog(c) : i <= mid[c] => i \in ToSet(got[c]) \/ Superseded(c, i)

AnsweredAll(c) ==
  link[c] = "answered" =>
    \A i \in Missing(c), z \in ToSet(inbox[c]) : i <= z => i \in ToSet(inbox[c])

Announced(c) == link[c] = "on" => \A p \in Processes : Missing(c) \subseteq Broadcasting(p)

Complete ==
  /\ Persisted
  /\ \A p \in Processes : /\ \A k \in DOMAIN pipe[p] : ReadAll(p, k) /\ AskedAll(p, k)
                          /\ \A k \in DOMAIN ticks[p] : PutOffAll(p, k)
  /\ \A c \in Polling : Arrived(c) /\ AnsweredAll(c) /\ Announced(c)

CompleteInv == losses = 0 => Complete

(***************************************************************************)
(* Sets of ids that only grow.                                             *)
(***************************************************************************)
LEMMA LimitFacts ==
  LET n == Min({RangeLimit, ReplayLimit}) IN
  n \in Nat /\ n <= RangeLimit /\ n <= ReplayLimit
<1> DEFINE x == IF RangeLimit <= ReplayLimit THEN RangeLimit ELSE ReplayLimit
           L == {RangeLimit, ReplayLimit}
<1>1. RangeLimit \in Nat /\ ReplayLimit \in Nat
  BY DeliveryAssumption
<1>2. \E y \in L : \A z \in L : y <= z
  <2>1. x \in L /\ \A z \in L : x <= z
    BY <1>1
  <2> QED BY <2>1
<1>3. Min(L) \in L /\ \A z \in L : Min(L) <= z
  BY <1>2 DEF Min
<1> QED BY <1>1, <1>3

LEMMA LogFacts ==
  ASSUME Types, NEW c \in Clients
  PROVE  /\ ChannelLog(c) \subseteq Ids /\ Top \in Nat
         /\ \A S \in SUBSET Ids : IsFiniteSet(S) /\ Cardinality(S) \in Nat
         /\ \A k \in DOMAIN Subscribed[c] :
              Subscribed[c][k] \in Channels /\ zset[Subscribed[c][k]] \subseteq ChannelLog(c)
         /\ \A ch \in Channels : ch \in ChannelsOf(c) => zset[ch] \subseteq ChannelLog(c)
         /\ \A i \in ChannelLog(c) : \E k \in DOMAIN Subscribed[c] : i \in zset[Subscribed[c][k]]
<1>1. Subscribed[c] \in Seq(Channels)
  BY DeliveryAssumption
<1>2. /\ \A k \in DOMAIN Subscribed[c] : Subscribed[c][k] \in Channels
      /\ ChannelsOf(c) = {Subscribed[c][k] : k \in DOMAIN Subscribed[c]}
  BY <1>1 DEF ChannelsOf, ToSet
<1>3. \A ch \in Channels : zset[ch] \in SUBSET Ids
  BY DEF Types
<1>4. Top \in Nat
  BY TopFacts
<1>5. ASSUME NEW S \in SUBSET Ids PROVE IsFiniteSet(S) /\ Cardinality(S) \in Nat
  <2>1. IsFiniteSet(Ids)
    BY <1>4, FS_Interval DEF Ids
  <2>2. IsFiniteSet(S)
    BY <2>1, FS_Subset
  <2> QED BY <2>2, FS_CardinalityType
<1>6. /\ ChannelLog(c) \subseteq Ids
      /\ \A k \in DOMAIN Subscribed[c] : zset[Subscribed[c][k]] \subseteq ChannelLog(c)
      /\ \A i \in ChannelLog(c) : \E k \in DOMAIN Subscribed[c] : i \in zset[Subscribed[c][k]]
      /\ \A ch \in ChannelsOf(c) : zset[ch] \subseteq ChannelLog(c)
  BY <1>2, <1>3 DEF ChannelLog
<1> QED BY <1>2, <1>4, <1>5, <1>6

(* What is superseded: by a set of later ids of the same channels. *)
LEMMA SupersededBy ==
  ASSUME Types, NEW c \in Clients, NEW i \in Ids, NEW S \in SUBSET ChannelLog(c),
         \A j \in S : j > i,
         Cardinality(S) >= RangeLimit \/ Cardinality(S) >= ReplayLimit
  PROVE  Superseded(c, i)
<1> DEFINE later == {j \in ChannelLog(c) : j > i}
           n == Min({RangeLimit, ReplayLimit})
<1>1. later \in SUBSET Ids /\ S \in SUBSET Ids
  BY LogFacts
<1>2. /\ IsFiniteSet(later) /\ Cardinality(later) \in Nat
      /\ IsFiniteSet(S) /\ Cardinality(S) \in Nat
  BY <1>1, LogFacts
<1>3. S \in SUBSET later
  OBVIOUS
<1>4. Cardinality(S) <= Cardinality(later)
  BY <1>2, <1>3, FS_Subset
<1>5. n \in Nat /\ n <= RangeLimit /\ n <= ReplayLimit /\ RangeLimit \in Nat /\ ReplayLimit \in Nat
  BY LimitFacts, DeliveryAssumption
<1>6. Superseded(c, i) <=> Cardinality(later) >= n
  BY DEF Superseded
<1> HIDE DEF later, n
<1> QED BY <1>2, <1>4, <1>5, <1>6

Grows == \A ch \in Channels : zset[ch] \subseteq zset'[ch]

LEMMA LogGrows ==
  ASSUME Types, Grows, NEW c \in Clients
  PROVE  ChannelLog(c) \subseteq ChannelLog(c)'
<1>1. \A ch \in ChannelsOf(c) : ch \in Channels
  BY DeliveryAssumption DEF ChannelsOf, ToSet
<1> QED BY <1>1 DEF ChannelLog, Grows

LEMMA SupersededGrows ==
  ASSUME Types, Types', Grows, NEW c \in Clients, NEW i, Superseded(c, i)
  PROVE  Superseded(c, i)'
<1> DEFINE later == {j \in ChannelLog(c) : j > i}
           later2 == {j \in ChannelLog(c)' : j > i}
           n == Min({RangeLimit, ReplayLimit})
<1>1. later \in SUBSET later2
  BY LogGrows
<1>2. ChannelLog(c) \subseteq Ids /\ \A S \in SUBSET Ids : IsFiniteSet(S) /\ Cardinality(S) \in Nat
  BY LogFacts
<1>3. /\ ChannelLog(c)' \subseteq Ids'
      /\ \A S \in SUBSET Ids' : IsFiniteSet(S) /\ Cardinality(S) \in Nat
  <2>1. Types => /\ ChannelLog(c) \subseteq Ids
                 /\ \A S \in SUBSET Ids : IsFiniteSet(S) /\ Cardinality(S) \in Nat
    BY LogFacts
  <2>2. (Types => /\ ChannelLog(c) \subseteq Ids
                  /\ \A S \in SUBSET Ids : IsFiniteSet(S) /\ Cardinality(S) \in Nat)'
    BY LogFacts, PTL
  <2> QED BY <2>2
<1>4. IsFiniteSet(later2) /\ Cardinality(later2) \in Nat /\ Cardinality(later) \in Nat
  BY <1>2, <1>3
<1>5. Cardinality(later) <= Cardinality(later2)
  BY <1>1, <1>4, FS_Subset
<1>6. (Superseded(c, i) <=> Cardinality(later) >= n)
      /\ (Superseded(c, i)' <=> Cardinality(later2) >= n)
  BY DEF Superseded
<1>7. n \in Nat
  BY LimitFacts
<1> HIDE DEF later, later2, n
<1> QED BY <1>4, <1>5, <1>6, <1>7

(* While ids are added and clients get more, less of the old is missing. *)
LEMMA MissingShrinks ==
  ASSUME Types, Types', Grows, NEW c \in Clients, mid'[c] >= mid[c]
  PROVE  \A i \in ChannelLog(c) : i \in Missing(c)' => i \in Missing(c)
<1> SUFFICES ASSUME NEW i \in ChannelLog(c), i \in Missing(c)' PROVE i \in Missing(c)
  OBVIOUS
<1>1. i > mid'[c] /\ ~Superseded(c, i)'
  BY DEF Missing
<1>2. ~Superseded(c, i)
  BY <1>1, SupersededGrows
<1>3. i \in Int /\ mid[c] \in Int /\ mid'[c] \in Int
  <2>1. i \in Ids /\ Ids \subseteq Int
    BY LogFacts DEF Ids
  <2>2. mid[c] \in 0..Top /\ mid'[c] \in 0..Top' /\ Top \in Nat /\ Top' \in Nat
    <3>1. (Types => Top \in Nat)'
      BY TopFacts, PTL
    <3> QED BY <3>1, TopFacts DEF Types
  <2> QED BY <2>1, <2>2
<1>4. i > mid[c]
  BY <1>1, <1>3
<1> QED BY <1>2, <1>4 DEF Missing

(* What is left out of the last n of a list has n larger ones. *)
LEMMA LastOnesRest ==
  ASSUME NEW N \in Nat, NEW q \in Seq(1..N), NEW n \in Nat, Ascends(q),
         NEW i \in ToSet(q), i \notin ToSet(LastOnes(q, n))
  PROVE  Cardinality({j \in ToSet(q) : j > i}) >= n
<1> DEFINE S == {j \in ToSet(q) : j > i}
           f == [x \in 1..n |-> q[Len(q) - n + x]]
<1>1. Len(q) \in Nat /\ DOMAIN q = 1..Len(q) /\ \A x \in 1..Len(q) : q[x] \in 1..N
  OBVIOUS
<1>2. PICK a \in 1..Len(q) : q[a] = i
  BY <1>1 DEF ToSet
<1>3. Len(q) > n /\ a <= Len(q) - n
  <2>1. CASE Len(q) <= n
    <3>1. ~(Len(q) > n)
      BY <1>1, <2>1
    <3>2. LastOnes(q, n) = SubSeq(q, 1, Len(q))
      BY <3>1 DEF LastOnes
    <3>3. SubSeq(q, 1, Len(q)) = q
      OBVIOUS
    <3> QED BY <3>2, <3>3
  <2>2. CASE Len(q) > n /\ a > Len(q) - n
    <3> DEFINE b == Len(q) - n + 1
               r == SubSeq(q, b, Len(q))
    <3>1. LastOnes(q, n) = r
      BY <2>2 DEF LastOnes
    <3>2. b \in 1..Len(q) + 1 /\ a - b + 1 \in 1..(Len(q) - b + 1) /\ b + (a - b + 1) - 1 = a
      BY <1>1, <2>2
    <3>3. DOMAIN r = 1..(Len(q) - b + 1) /\ \A x \in 1..(Len(q) - b + 1) : r[x] = q[b + x - 1]
      BY <1>1, <3>2, SubSeqProperties
    <3>4. r[a - b + 1] = i /\ a - b + 1 \in DOMAIN r
      BY <1>2, <3>2, <3>3
    <3>5. i \in ToSet(r)
      BY <3>4 DEF ToSet
    <3> QED BY <3>1, <3>5
  <2> QED BY <1>1, <1>2, <2>1, <2>2
<1>4. \A x \in 1..n : Len(q) - n + x \in 1..Len(q) /\ a < Len(q) - n + x
  BY <1>1, <1>2, <1>3
<1>5. \A x \in 1..n : f[x] \in S
  <2> SUFFICES ASSUME NEW x \in 1..n PROVE f[x] \in S
    OBVIOUS
  <2> DEFINE b == Len(q) - n + x
  <2>1. b \in 1..Len(q) /\ a < b
    BY <1>4
  <2>2. f[x] = q[b]
    OBVIOUS
  <2> HIDE DEF b
  <2>3. q[a] < q[b]
    BY <1>1, <1>2, <2>1 DEF Ascends
  <2>4. q[b] \in ToSet(q) /\ q[b] > i
    BY <1>1, <1>2, <2>1, <2>3 DEF ToSet
  <2> QED BY <2>2, <2>4
<1>6. \A x, y \in 1..n : f[x] = f[y] => x = y
  <2> SUFFICES ASSUME NEW x \in 1..n, NEW y \in 1..n, x # y PROVE f[x] # f[y]
    OBVIOUS
  <2> DEFINE b == Len(q) - n + x
             c == Len(q) - n + y
  <2>1. b \in 1..Len(q) /\ c \in 1..Len(q) /\ (b < c \/ c < b)
    BY <1>1, <1>4
  <2>2. f[x] = q[b] /\ f[y] = q[c]
    OBVIOUS
  <2> HIDE DEF b, c
  <2>3. q[b] < q[c] \/ q[c] < q[b]
    BY <1>1, <2>1 DEF Ascends
  <2>4. q[b] \in Int /\ q[c] \in Int
    BY <1>1, <2>1
  <2> QED BY <2>2, <2>3, <2>4
<1>7. f \in Injection(1..n, S)
  BY <1>5, <1>6 DEF Injection, IsInjective
<1>8. S \subseteq 1..N
  BY <1>1 DEF ToSet
<1>9. IsFiniteSet(S)
  <2>1. IsFiniteSet(1..N)
    BY FS_Interval
  <2> QED BY <1>8, <2>1, FS_Subset
<1>10. Cardinality(S) \in Nat
  BY <1>9, FS_CardinalityType
<1>11. Cardinality(1..n) = n
  BY FS_Interval
<1> HIDE DEF f, S
<1>12. Cardinality(1..n) <= Cardinality(S)
  BY <1>7, <1>9, FS_Injection
<1> QED BY <1>10, <1>11, <1>12 DEF S

(***************************************************************************)
(* What a shift keeps of a queue, for the two kinds of queue.              *)
(***************************************************************************)
Retained(q, d, x) ==
  \A i \in 1..(Len(q) - d) : i \in DOMAIN Shift(q, d, x) /\ Shift(q, d, x)[i] = q[i + d]

LEMMA PipeKept ==
  ASSUME NEW q \in Seq(RequestType), NEW x \in Seq(RequestType), NEW d \in {0, 1},
         d = 1 => q # <<>>
  PROVE  Retained(q, d, x)
<1> DEFINE S == RequestType
<1>1. q \in Seq(S) /\ x \in Seq(S)
  OBVIOUS
<1> HIDE DEF S
<1> QED BY <1>1, Shifted DEF Retained

LEMMA TicksKept ==
  ASSUME NEW q \in Seq(TickType), NEW x \in Seq(TickType), NEW d \in {0, 1},
         d = 1 => q # <<>>
  PROVE  Retained(q, d, x)
<1> DEFINE S == TickType
<1>1. q \in Seq(S) /\ x \in Seq(S)
  OBVIOUS
<1> HIDE DEF S
<1> QED BY <1>1, Shifted DEF Retained

(***************************************************************************)
(* A step of the queues moves what is in them forward.                     *)
(***************************************************************************)
LEMMA QueueForward ==
  ASSUME Types, NEW p \in Processes, NEW d \in {0, 1}, NEW e \in {0, 1}, NEW new, NEW put,
         Additions(new, put), QueueStep(p, d, new, e, put)
  PROVE  /\ \A i \in DOMAIN pipe[p] : i > d =>
              i - d \in DOMAIN pipe'[p] /\ pipe'[p][i - d] = pipe[p][i]
         /\ \A i \in DOMAIN ticks[p] : i > e =>
              i - e \in DOMAIN ticks'[p] /\ ticks'[p][i - e] = ticks[p][i]
         /\ \A k \in DOMAIN put : \E i \in DOMAIN ticks'[p] : ticks'[p][i] = put[k]
<1>1. pipe[p] \in Seq(RequestType) /\ ticks[p] \in Seq(TickType)
  BY DEF Types
<1>2. /\ pipe'[p] = Shift(pipe[p], d, new) /\ ticks'[p] = Shift(ticks[p], e, put)
      /\ d = 1 => pipe[p] # <<>>
      /\ e = 1 => ticks[p] # <<>>
  BY DEF Types, QueueStep, PipeMoves, TicksMove, Shift
<1>3. new \in Seq(RequestType) /\ put \in Seq(TickType)
  BY DEF Additions
<1>4. \A i \in 1..(Len(pipe[p]) - d) :
        i \in DOMAIN pipe'[p] /\ pipe'[p][i] = pipe[p][i + d]
  <2>1. Retained(pipe[p], d, new)
    BY <1>1, <1>2, <1>3, PipeKept
  <2>2. pipe'[p] = Shift(pipe[p], d, new)
    BY <1>2
  <2> QED BY <2>1, <2>2 DEF Retained
<1>5. \A i \in 1..(Len(ticks[p]) - e) :
        i \in DOMAIN ticks'[p] /\ ticks'[p][i] = ticks[p][i + e]
  <2>1. Retained(ticks[p], e, put)
    BY <1>1, <1>2, <1>3, TicksKept
  <2>2. ticks'[p] = Shift(ticks[p], e, put)
    BY <1>2
  <2> QED BY <2>1, <2>2 DEF Retained
<1>6. ASSUME NEW i \in DOMAIN pipe[p], i > d
      PROVE  i - d \in DOMAIN pipe'[p] /\ pipe'[p][i - d] = pipe[p][i]
  <2>1. i - d \in 1..(Len(pipe[p]) - d) /\ (i - d) + d = i
    BY <1>1, <1>6
  <2> QED BY <1>4, <2>1
<1>7. ASSUME NEW i \in DOMAIN ticks[p], i > e
      PROVE  i - e \in DOMAIN ticks'[p] /\ ticks'[p][i - e] = ticks[p][i]
  <2>1. i - e \in 1..(Len(ticks[p]) - e) /\ (i - e) + e = i
    BY <1>1, <1>7
  <2> QED BY <1>5, <2>1
<1>8. ASSUME NEW k \in DOMAIN put PROVE \E i \in DOMAIN ticks'[p] : ticks'[p][i] = put[k]
  <2> DEFINE y == SubSeq(ticks[p], 1 + e, Len(ticks[p]))
  <2>1. y \in Seq(TickType) /\ k \in 1..Len(put) /\ Len(put) \in Nat
    BY <1>1, <1>2, <1>3
  <2>2. ticks'[p] = y \o put
    BY <1>2 DEF Shift
  <2> HIDE DEF y
  <2>3. /\ Len(y \o put) = Len(y) + Len(put)
        /\ \A i \in 1..(Len(y) + Len(put)) :
             (y \o put)[i] = IF i <= Len(y) THEN y[i] ELSE put[i - Len(y)]
        /\ y \o put \in Seq(TickType)
    BY <1>3, <2>1, ConcatProperties
  <2>4. Len(y) + k \in 1..(Len(y) + Len(put)) /\ ~(Len(y) + k <= Len(y))
        /\ (Len(y) + k) - Len(y) = k /\ Len(y) \in Nat
    BY <2>1
  <2>5. (y \o put)[Len(y) + k] = put[k] /\ Len(y) + k \in DOMAIN (y \o put)
    BY <2>3, <2>4
  <2> QED BY <2>2, <2>5
<1> QED BY <1>6, <1>7, <1>8

(***************************************************************************)
(* Completeness of the queues, in a step that neither saves nor receives.  *)
(***************************************************************************)
NewComplete(p, d, new, put) ==
  /\ \A k \in DOMAIN new :
       /\ ~new[k].done
       /\ new[k].op = "mget" /\ new[k].who \in Polling =>
            ToSet(new[k].args) \subseteq bodies /\ Covers(new[k].who, new[k].args)
  /\ \A k \in DOMAIN put :
       put[k].op = "loaded" /\ put[k].who \in Polling => Covers(put[k].who, put[k].args)
  /\ d = 1 /\ SavedAt(p, 1) =>
       \E k \in DOMAIN put : put[k].op = "saved" /\ put[k].who = pipe[p][1].who

(* What is still to be broadcast after a step. *)
StaysBroadcasting(p, e) ==
  Broadcasting(p) \subseteq
    Broadcasting(p)'
    \cup {Id(ticks[p][i]) : i \in {j \in DOMAIN ticks[p] : j <= e /\ ticks[p][j].op = "saved"}}

LEMMA QueueComplete ==
  ASSUME Types, Complete, NEW p \in Processes, Only(p), NEW d \in {0, 1}, NEW e \in {0, 1},
         NEW new, NEW put, Additions(new, put), QueueStep(p, d, new, e, put),
         NewComplete(p, d, new, put), UNCHANGED <<zset, bodies, mid, got>>
  PROVE  /\ Persisted'
         /\ \A k \in DOMAIN pipe'[p] : ReadAll(p, k)' /\ AskedAll(p, k)'
         /\ \A k \in DOMAIN ticks'[p] : PutOffAll(p, k)'
         /\ \A c \in Polling : Arrived(c)' /\ Missing(c)' = Missing(c)
         /\ StaysBroadcasting(p, e)
<1>0. idOf' = idOf /\ zset' = zset /\ bodies' = bodies /\ mid' = mid /\ got' = got
  BY DEF QueueStep
<1>1. /\ \A i \in DOMAIN pipe'[p] : InPipe(p, d, new, i) /\ i \in Nat \ {0}
      /\ \A i \in DOMAIN ticks'[p] : InTicks(p, e, put, i) /\ i \in Nat \ {0}
  BY QueueMoves
<1>2. /\ \A i \in DOMAIN pipe[p] : i > d =>
           i - d \in DOMAIN pipe'[p] /\ pipe'[p][i - d] = pipe[p][i]
      /\ \A i \in DOMAIN ticks[p] : i > e =>
           i - e \in DOMAIN ticks'[p] /\ ticks'[p][i - e] = ticks[p][i]
      /\ \A k \in DOMAIN put : \E i \in DOMAIN ticks'[p] : ticks'[p][i] = put[k]
  BY QueueForward
<1>3. Persisted' /\ \A c : /\ ChannelLog(c)' = ChannelLog(c)
                           /\ \A i : Superseded(c, i)' <=> Superseded(c, i)
  BY <1>0 DEF Complete, Persisted, ChannelLog, Superseded
<1>4. ASSUME NEW c \in Polling PROVE Arrived(c)' /\ Missing(c)' = Missing(c)
  BY <1>0, <1>3 DEF Complete, Arrived, Missing
<1>5. \A c \in Polling : \A q : Covers(c, q)' <=> Covers(c, q)
  BY <1>4 DEF Covers
<1>6. /\ \A k \in DOMAIN pipe[p] : ReadAll(p, k) /\ AskedAll(p, k)
      /\ \A k \in DOMAIN ticks[p] : PutOffAll(p, k)
  BY DEF Complete
<1>7. /\ \A k \in DOMAIN pipe[p] : k \in Nat /\ k >= 1
      /\ \A k \in DOMAIN ticks[p] : k \in Nat /\ k >= 1
      /\ d \in Nat /\ e \in Nat
  BY DEF Types
<1>8. ASSUME NEW k \in DOMAIN pipe'[p]
      PROVE  \/ k + d \in DOMAIN pipe[p] /\ pipe'[p][k] = pipe[p][k + d]
             \/ \E l \in DOMAIN new : pipe'[p][k] = new[l]
  BY <1>1 DEF InPipe, Older, Fresh
<1>9. ASSUME NEW k \in DOMAIN ticks'[p]
      PROVE  \/ k + e \in DOMAIN ticks[p] /\ ticks'[p][k] = ticks[p][k + e]
             \/ \E l \in DOMAIN put : ticks'[p][k] = put[l]
  BY <1>1 DEF InTicks, Older, Fresh
<1>10. ASSUME NEW k \in DOMAIN pipe'[p] PROVE ReadAll(p, k)'
  <2> SUFFICES ASSUME pipe'[p][k].op = "range", pipe'[p][k].done, pipe'[p][k].who \in Polling
               PROVE  ReadAll(p, k)'
    BY DEF ReadAll
  <2>1. k + d \in DOMAIN pipe[p] /\ pipe'[p][k] = pipe[p][k + d] /\ k \in Nat
    BY <1>1, <1>8, <1>10 DEF NewComplete
  <2> DEFINE r == pipe[p][k + d]
  <2>2. ReadAll(p, k + d) /\ r.op = "range" /\ r.done /\ r.who \in Polling
    BY <1>6, <2>1
  <2>3. \A x \in DOMAIN r.reply : r.reply[x] \subseteq ChannelLog(r.who)
    BY <2>2 DEF ReadAll
  <2>4. ASSUME NEW i \in Missing(r.who)
        PROVE  \/ \E x \in DOMAIN r.reply : i \in r.reply[x]
               \/ \E j \in DOMAIN pipe'[p] : j > k /\ SavedAt(p, j)' /\ Id(pipe[p][j])' = i
    <3>1. CASE \E j \in DOMAIN pipe[p] : j > k + d /\ SavedAt(p, j) /\ Id(pipe[p][j]) = i
      <4>1. PICK j \in DOMAIN pipe[p] : j > k + d /\ SavedAt(p, j) /\ Id(pipe[p][j]) = i
        BY <3>1
      <4>2. j > d /\ j - d > k
        BY <1>7, <2>1, <4>1
      <4>3. j - d \in DOMAIN pipe'[p] /\ pipe'[p][j - d] = pipe[p][j]
        BY <1>2, <4>2
      <4>4. SavedAt(p, j - d)' /\ Id(pipe[p][j - d])' = i
        BY <1>0, <4>1, <4>3 DEF SavedAt, Saves, Id
      <4> QED BY <4>2, <4>3, <4>4
    <3> QED BY <2>2, <3>1 DEF ReadAll
  <2>5. PICK c \in Polling : c = r.who
    BY <2>2
  <2>6. Missing(c)' = Missing(c) /\ ChannelLog(c)' = ChannelLog(c)
    BY <1>3, <1>4
  <2> QED BY <2>1, <2>3, <2>4, <2>5, <2>6 DEF ReadAll
<1>11. ASSUME NEW k \in DOMAIN pipe'[p] PROVE AskedAll(p, k)'
  <2> SUFFICES ASSUME pipe'[p][k].op = "mget", pipe'[p][k].who \in Polling
               PROVE  AskedAll(p, k)'
    BY DEF AskedAll
  <2> DEFINE r == pipe'[p][k]
  <2>1. /\ ToSet(r.args) \subseteq bodies /\ Covers(r.who, r.args)
        /\ r.done => ToSet(r.reply) = ToSet(r.args)
    <3>1. CASE k + d \in DOMAIN pipe[p] /\ pipe'[p][k] = pipe[p][k + d]
      <4>1. AskedAll(p, k + d)
        BY <1>6, <3>1
      <4> QED BY <3>1, <4>1 DEF AskedAll
    <3>2. CASE \E l \in DOMAIN new : pipe'[p][k] = new[l]
      BY <3>2 DEF NewComplete
    <3> QED BY <1>8, <3>1, <3>2
  <2> QED BY <1>0, <1>5, <2>1 DEF AskedAll
<1>12. ASSUME NEW k \in DOMAIN ticks'[p] PROVE PutOffAll(p, k)'
  <2> SUFFICES ASSUME ticks'[p][k].op = "loaded", ticks'[p][k].who \in Polling
               PROVE  PutOffAll(p, k)'
    BY DEF PutOffAll
  <2> DEFINE t == ticks'[p][k]
  <2>1. Covers(t.who, t.args)
    <3>1. CASE k + e \in DOMAIN ticks[p] /\ ticks'[p][k] = ticks[p][k + e]
      <4>1. PutOffAll(p, k + e)
        BY <1>6, <3>1
      <4> QED BY <3>1, <4>1 DEF PutOffAll
    <3>2. CASE \E l \in DOMAIN put : ticks'[p][k] = put[l]
      BY <3>2 DEF NewComplete
    <3> QED BY <1>9, <3>1, <3>2
  <2> QED BY <1>5, <2>1 DEF PutOffAll
<1>13. StaysBroadcasting(p, e)
  <2>1. ASSUME NEW i \in DOMAIN pipe[p], SavedAt(p, i) PROVE Id(pipe[p][i]) \in Broadcasting(p)'
    <3>1. CASE i > d
      <4>1. i - d \in DOMAIN pipe'[p] /\ pipe'[p][i - d] = pipe[p][i]
        BY <1>2, <3>1
      <4>2. SavedAt(p, i - d)' /\ Id(pipe[p][i - d])' = Id(pipe[p][i])
        BY <1>0, <2>1, <4>1 DEF SavedAt, Saves, Id
      <4>3. Id(pipe[p][i - d])' \in Broadcasting(p)'
        BY <4>1, <4>2 DEF Broadcasting
      <4> QED BY <4>2, <4>3
    <3>2. CASE ~(i > d)
      <4>1. i = 1 /\ d = 1
        BY <1>7, <3>2
      <4>2. PICK l \in DOMAIN put : put[l].op = "saved" /\ put[l].who = pipe[p][1].who
        BY <2>1, <4>1 DEF NewComplete
      <4>3. PICK j \in DOMAIN ticks'[p] : ticks'[p][j] = put[l]
        BY <1>2
      <4>4. ticks'[p][j].op = "saved" /\ Id(ticks[p][j])' = Id(pipe[p][i])
        BY <1>0, <4>1, <4>2, <4>3 DEF Id
      <4>5. Id(ticks[p][j])' \in Broadcasting(p)'
        BY <4>4 DEF Broadcasting
      <4> QED BY <4>4, <4>5
    <3> QED BY <3>1, <3>2
  <2>2. ASSUME NEW i \in DOMAIN ticks[p], ticks[p][i].op = "saved", i > e
        PROVE  Id(ticks[p][i]) \in Broadcasting(p)'
    <3>1. i - e \in DOMAIN ticks'[p] /\ ticks'[p][i - e] = ticks[p][i]
      BY <1>2, <2>2
    <3>2. ticks'[p][i - e].op = "saved" /\ Id(ticks[p][i - e])' = Id(ticks[p][i])
      BY <1>0, <2>2, <3>1 DEF Id
    <3>3. Id(ticks[p][i - e])' \in Broadcasting(p)'
      BY <3>1, <3>2 DEF Broadcasting
    <3> QED BY <3>2, <3>3
  <2>3. ASSUME NEW z \in Broadcasting(p)
        PROVE  \/ z \in Broadcasting(p)'
               \/ \E i \in DOMAIN ticks[p] :
                    i <= e /\ ticks[p][i].op = "saved" /\ z = Id(ticks[p][i])
    <3>1. CASE \E i \in DOMAIN pipe[p] : SavedAt(p, i) /\ z = Id(pipe[p][i])
      BY <2>1, <3>1
    <3>2. CASE \E i \in DOMAIN ticks[p] : ticks[p][i].op = "saved" /\ z = Id(ticks[p][i])
      <4>1. PICK i \in DOMAIN ticks[p] : ticks[p][i].op = "saved" /\ z = Id(ticks[p][i])
        BY <3>2
      <4>2. i > e \/ i <= e
        BY <1>7
      <4> QED BY <2>2, <4>1, <4>2
    <3> QED BY <3>1, <3>2 DEF Broadcasting
  <2> QED BY <2>3 DEF StaysBroadcasting
<1> QED BY <1>3, <1>4, <1>10, <1>11, <1>12, <1>13

(* The queues are complete after a step, and so are the clients. *)
LEMMA EndsComplete ==
  ASSUME NEW p \in Processes, Only(p), Persisted',
         \A k \in DOMAIN pipe'[p] : ReadAll(p, k)' /\ AskedAll(p, k)',
         \A k \in DOMAIN ticks'[p] : PutOffAll(p, k)',
         \A c \in Polling : Arrived(c)' /\ AnsweredAll(c)' /\ Announced(c)'
  PROVE  Complete'
<1>1. \A q \in Processes : /\ \A k \in DOMAIN pipe'[q] : ReadAll(q, k)' /\ AskedAll(q, k)'
                           /\ \A k \in DOMAIN ticks'[q] : PutOffAll(q, k)'
  BY DEF Only
<1> QED BY <1>1 DEF Complete

(* Nothing happens at the ends. *)
LEMMA QuietComplete ==
  ASSUME Types, Complete, NEW p \in Processes, Only(p), NEW d \in {0, 1}, NEW new, NEW put,
         Additions(new, put), QueueStep(p, d, new, 0, put), NewComplete(p, d, new, put),
         UNCHANGED <<Store, Ends>>
  PROVE  Complete'
<1>1. UNCHANGED <<zset, bodies, mid, got, link, inbox>>
  BY DEF Store, Ends
<1>2. /\ Persisted'
      /\ \A k \in DOMAIN pipe'[p] : ReadAll(p, k)' /\ AskedAll(p, k)'
      /\ \A k \in DOMAIN ticks'[p] : PutOffAll(p, k)'
      /\ \A c \in Polling : Arrived(c)' /\ Missing(c)' = Missing(c)
      /\ StaysBroadcasting(p, 0)
  BY <1>1, QueueComplete
<1>3. Broadcasting(p) \subseteq Broadcasting(p)'
  <2>1. \A j \in DOMAIN ticks[p] : ~(j <= 0)
    BY DEF Types
  <2> QED BY <1>2, <2>1 DEF StaysBroadcasting
<1>4. ASSUME NEW c \in Polling PROVE AnsweredAll(c)' /\ Announced(c)'
  <2>1. AnsweredAll(c) /\ Announced(c)
    BY DEF Complete
  <2>2. Missing(c)' = Missing(c)
    BY <1>2
  <2>3. AnsweredAll(c)'
    BY <1>1, <2>1, <2>2 DEF AnsweredAll
  <2>4. ASSUME link[c] = "on", NEW q \in Processes PROVE Missing(c) \subseteq Broadcasting(q)'
    <3>1. Missing(c) \subseteq Broadcasting(p) /\ q = p
      BY <2>1, <2>4 DEF Announced, Only
    <3> QED BY <1>3, <3>1
  <2>5. Announced(c)'
    BY <1>1, <2>2, <2>4 DEF Announced
  <2> QED BY <2>3, <2>5
<1> QED BY <1>2, <1>4, EndsComplete

(* The head of a pipeline that is no saved message. *)
LEMMA NotSaved ==
  ASSUME NEW p \in Processes, pipe[p][1].op # "save"
  PROVE  ~SavedAt(p, 1)
BY DEF SavedAt, Saves

LEMMA IncrComplete ==
  ASSUME BaseInv, OrderInv, Complete, Sequential, NEW p \in Processes, Only(p), IncrReplied(p)
  PROVE  Complete'
<1> DEFINE m == pipe[p][1].who
           x == Request("save", m, <<>>)
<1>0. Types
  BY DEF BaseInv
<1>1. /\ pipe[p] # <<>> /\ pipe[p][1].op = "incr" /\ pipe[p][1].done
      /\ IdGiven(p, m) /\ UNCHANGED <<Store, startDate, bounds>>
  BY <1>0, IncrForm
<1>2. m \in Messages
  <2>1. pipe[p][1] \in RequestType
    BY <1>0, <1>1, HeadFacts
  <2> QED BY <1>1, <2>1 DEF RequestType, MessageOps
<1>3. QueueStep(p, 1, <<x>>, 0, <<>>) /\ UNCHANGED <<Ends, relay>>
  BY <1>1, <1>2 DEF IdGiven, Sequential, OrderInv, Alone
<1>4. x \in RequestType
  BY <1>0, <1>2, RequestFacts DEF MessageOps
<1>5. x.op = "save" /\ x.done = FALSE
  BY DEF Request
<1> HIDE DEF x
<1>6. DOMAIN <<x>> = {1} /\ <<x>>[1] = x
  BY OneEntry
<1>7. Additions(<<x>>, <<>>)
  BY <1>4 DEF Additions
<1>8. ~SavedAt(p, 1)
  BY <1>1, NotSaved
<1>9. NewComplete(p, 1, <<x>>, <<>>)
  BY <1>5, <1>6, <1>8 DEF NewComplete
<1> QED BY <1>0, <1>1, <1>3, <1>7, <1>9, QuietComplete

LEMMA SavedComplete ==
  ASSUME BaseInv, Complete, NEW p \in Processes, Only(p), Saved(p)
  PROVE  Complete'
<1> DEFINE m == pipe[p][1].who
           x == Request("ttl", m, <<>>)
           t == [op |-> "saved", who |-> m, args |-> <<>>]
<1>0. Types
  BY DEF BaseInv
<1>1. /\ pipe[p] # <<>> /\ pipe[p][1].op = "save" /\ pipe[p][1].done
      /\ QueueStep(p, 1, <<x>>, 0, <<t>>)
      /\ UNCHANGED <<Store, Ends, startDate, relay, bounds>>
  BY <1>0, SavedForm
<1>2. m \in Messages
  <2>1. pipe[p][1] \in RequestType
    BY <1>0, <1>1, HeadFacts
  <2> QED BY <1>1, <2>1 DEF RequestType, MessageOps
<1>3. x \in RequestType /\ t \in TickType
  BY <1>0, <1>2, RequestFacts DEF MessageOps
<1>4. x.op = "ttl" /\ x.done = FALSE /\ t.op = "saved" /\ t.who = m
  BY DEF Request
<1> HIDE DEF x, t
<1>5. DOMAIN <<x>> = {1} /\ <<x>>[1] = x /\ DOMAIN <<t>> = {1} /\ <<t>>[1] = t
  BY OneEntry
<1>6. Additions(<<x>>, <<t>>)
  BY <1>3 DEF Additions
<1>7. NewComplete(p, 1, <<x>>, <<t>>)
  BY <1>4, <1>5 DEF NewComplete
<1> QED BY <1>0, <1>1, <1>6, <1>7, QuietComplete

LEMMA TTLComplete ==
  ASSUME BaseInv, Complete, NEW p \in Processes, Only(p), TTLReplied(p)
  PROVE  Complete'
<1> DEFINE chs == pipe[p][1].reply
           new == [k \in DOMAIN chs |-> Request("expire", chs[k], <<>>)]
<1>0. Types
  BY DEF BaseInv
<1>1. /\ pipe[p] # <<>> /\ pipe[p][1].op = "ttl" /\ pipe[p][1].done
      /\ QueueStep(p, 1, new, 0, <<>>)
      /\ UNCHANGED <<Store, Ends, startDate, relay, bounds>>
  BY <1>0, TTLForm
<1>2. chs \in Seq(Channels)
  <2>1. pipe[p][1] \in RequestType
    BY <1>0, <1>1, HeadFacts
  <2> QED BY <1>1, <2>1 DEF RequestType, MessageOps
<1>3. Additions(new, <<>>)
  BY <1>0, <1>2, ExpiresTyped DEF Additions
<1>4. \A k \in DOMAIN new : new[k].op = "expire" /\ ~new[k].done
  BY DEF Request
<1> HIDE DEF new
<1>5. ~SavedAt(p, 1)
  BY <1>1, NotSaved
<1>6. NewComplete(p, 1, new, <<>>)
  BY <1>4, <1>5 DEF NewComplete
<1> QED BY <1>0, <1>1, <1>3, <1>6, QuietComplete

LEMMA ExpireComplete ==
  ASSUME BaseInv, Complete, NEW p \in Processes, Only(p), ExpireReplied(p)
  PROVE  Complete'
<1>0. Types
  BY DEF BaseInv
<1>1. /\ QueueStep(p, 1, <<>>, 0, <<>>) /\ pipe[p][1].op = "expire"
      /\ UNCHANGED <<Store, Ends, startDate, relay, bounds>>
  BY <1>0, ExpireForm
<1>2. ~SavedAt(p, 1)
  BY <1>1, NotSaved
<1>3. Additions(<<>>, <<>>) /\ NewComplete(p, 1, <<>>, <<>>)
  BY <1>2 DEF Additions, NewComplete
<1> QED BY <1>0, <1>1, <1>3, QuietComplete

LEMMA PublishComplete ==
  ASSUME BaseInv, Complete, NEW m \in Messages, NEW p \in Processes, Only(p), Publish(m, p)
  PROVE  Complete'
<1> DEFINE x == Request("incr", m, <<>>)
<1>0. Types
  BY DEF BaseInv
<1>1. /\ QueueStep(p, 0, <<x>>, 0, <<>>)
      /\ UNCHANGED <<Store, Ends, startDate, relay, losses, breaks>>
  BY <1>0, PublishForm
<1>2. x \in RequestType
  BY <1>0, RequestFacts DEF MessageOps
<1>3. x.op = "incr" /\ x.done = FALSE
  BY DEF Request
<1> HIDE DEF x
<1>4. DOMAIN <<x>> = {1} /\ <<x>>[1] = x
  BY OneEntry
<1>5. Additions(<<x>>, <<>>)
  BY <1>2 DEF Additions
<1>6. NewComplete(p, 0, <<x>>, <<>>)
  BY <1>3, <1>4 DEF NewComplete
<1> QED BY <1>0, <1>1, <1>5, <1>6, QuietComplete

LEMMA MessagesComplete ==
  ASSUME BaseInv, Complete, NEW p \in Processes, Only(p), MessagesReplied(p)
  PROVE  Complete'
<1> DEFINE c == pipe[p][1].who
           ids == pipe[p][1].reply
           t == [op |-> "loaded", who |-> c, args |-> ids]
<1>0. Types
  BY DEF BaseInv
<1>1. /\ pipe[p] # <<>> /\ pipe[p][1].op = "mget" /\ pipe[p][1].done
      /\ QueueStep(p, 1, <<>>, 0, <<t>>)
      /\ UNCHANGED <<Store, Ends, startDate, relay, bounds>>
  BY <1>0, MessagesForm
<1>2. c \in Clients /\ ids \in Seq(Ids) /\ pipe[p][1].args \in Seq(Ids)
  <2>1. pipe[p][1] \in RequestType
    BY <1>0, <1>1, HeadFacts
  <2> QED BY <1>1, <2>1 DEF RequestType, MessageOps
<1>3. ASSUME c \in Polling PROVE Covers(c, ids)
  <2>1. AskedAll(p, 1)
    BY <1>0, <1>1, HeadFacts DEF Complete
  <2> DEFINE q == pipe[p][1].args
  <2>2. Covers(c, q) /\ ToSet(ids) = ToSet(q)
    BY <1>1, <1>3, <2>1 DEF AskedAll
  <2>3. ids # <<>>
    <3>1. q[1] \in ToSet(q)
      BY <1>2, <2>2 DEF Covers, ToSet
    <3>2. ids = <<>> => ToSet(ids) = {}
      BY DEF ToSet
    <3> QED BY <2>2, <3>1, <3>2
  <2> QED BY <2>2, <2>3 DEF Covers
<1>4. t \in TickType
  BY <1>0, <1>2, RequestFacts
<1>5. t.op = "loaded" /\ t.who = c /\ t.args = ids
  OBVIOUS
<1> HIDE DEF t
<1>6. DOMAIN <<t>> = {1} /\ <<t>>[1] = t
  BY OneEntry
<1>7. Additions(<<>>, <<t>>)
  BY <1>4 DEF Additions
<1>8. ~SavedAt(p, 1)
  BY <1>1, NotSaved
<1>9. NewComplete(p, 1, <<>>, <<t>>)
  BY <1>3, <1>5, <1>6, <1>8 DEF NewComplete
<1> QED BY <1>0, <1>1, <1>7, <1>9, QuietComplete

LEMMA ElementsTyped ==
  ASSUME NEW S, NEW q \in Seq(S)
  PROVE  ToSet(q) \subseteq S
BY DEF ToSet

(***************************************************************************)
(* A replay: what was read and is not sent is superseded.                  *)
(***************************************************************************)
LEMMA ReadCovers ==
  ASSUME BaseInv, OrderInv, Complete, NEW p \in Processes, pipe[p] # <<>>,
         pipe[p][1].op = "range", pipe[p][1].done,
         NEW c \in Polling, c = pipe[p][1].who,
         NEW ids, ids = LastOnes(Sorted(pipe[p][1].reply), ReplayLimit)
  PROVE  /\ ToSet(ids) \subseteq bodies
         /\ \A i \in Missing(c) : i \in ToSet(ids) \/ \A z \in ToSet(ids) : z < i
         /\ ids = <<>> => Missing(c) \subseteq Broadcasting(p)
<1> DEFINE r == pipe[p][1]
           n == Len(r.reply)
           all == Sorted(r.reply)
<1>1. r.reply \in Seq(SUBSET Ids) /\ Types
  BY LoadFacts DEF LoadOps, BaseInv
<1>2. Top \in Nat /\ n \in Nat /\ ReplayLimit \in Nat
  BY <1>1, TopFacts, DeliveryAssumption
<1>3. r.reply \in [1..n -> SUBSET (1..Top)] /\ DOMAIN r.reply = 1..n
  BY <1>1 DEF Ids
<1>4. 1 \in DOMAIN pipe[p]
  BY <1>1, HeadFacts
<1>5. IdsRead(p, 1)
  BY <1>4 DEF OrderInv, Replays
<1>6. /\ Disjoint(r.reply)
      /\ \A k \in DOMAIN r.reply : \A z \in r.reply[k] :
           \A j \in DOMAIN pipe[p] : j > 1 /\ SavedAt(p, j) => z < Id(pipe[p][j])
  BY <1>5 DEF IdsRead, SavedAt
<1>7. ReadAll(p, 1)
  BY <1>4 DEF Complete
<1>8. /\ \A k \in DOMAIN r.reply : r.reply[k] \subseteq ChannelLog(c)
      /\ \A i \in Missing(c) :
           \/ \E k \in DOMAIN r.reply : i \in r.reply[k]
           \/ \E j \in DOMAIN pipe[p] : j > 1 /\ SavedAt(p, j) /\ Id(pipe[p][j]) = i
  BY <1>7 DEF ReadAll
<1> HIDE DEF r, n, all
<1>9. all \in Seq(1..Top) /\ ToSet(all) = UNION {r.reply[k] : k \in 1..n} /\ Ascends(all)
  <2>1. /\ Sorted(r.reply) \in Seq(1..Top)
        /\ ToSet(Sorted(r.reply)) = UNION {r.reply[k] : k \in 1..n}
        /\ Disjoint(r.reply) => Ascends(Sorted(r.reply))
    BY <1>2, <1>3, SortedFacts
  <2> QED BY <1>6, <2>1 DEF all
<1>10. ids = LastOnes(all, ReplayLimit)
  BY DEF all, r
<1>11. ToSet(ids) \subseteq ToSet(all)
  BY <1>2, <1>9, <1>10, LastOnesFacts
<1>12. ToSet(all) \subseteq ChannelLog(c)
  BY <1>3, <1>8, <1>9
<1>13. c \in Clients
  BY DEF Polling
<1>14. ChannelLog(c) \subseteq bodies
  <2>1. \A i \in ChannelLog(c) : \E k \in DOMAIN Subscribed[c] :
          i \in zset[Subscribed[c][k]] /\ Subscribed[c][k] \in Channels
    BY <1>1, <1>13, LogFacts
  <2> QED BY <2>1 DEF Complete, Persisted
<1>15. ASSUME NEW i \in Missing(c), i \notin ToSet(ids)
       PROVE  \E j \in DOMAIN pipe[p] : j > 1 /\ SavedAt(p, j) /\ Id(pipe[p][j]) = i
  <2> SUFFICES ASSUME NEW k \in DOMAIN r.reply, i \in r.reply[k] PROVE FALSE
    BY <1>8
  <2> DEFINE S == {j \in ToSet(all) : j > i}
  <2>1. i \in ToSet(all)
    BY <1>3, <1>9
  <2>2. Cardinality(S) >= ReplayLimit
    BY <1>2, <1>9, <1>10, <1>15, <2>1, LastOnesRest
  <2>3. S \in SUBSET ChannelLog(c) /\ \A j \in S : j > i
    BY <1>12
  <2>4. i \in Ids
    BY <1>9, <2>1, ElementsTyped DEF Ids
  <2> HIDE DEF S
  <2>5. Superseded(c, i)
    BY <1>1, <1>13, <2>2, <2>3, <2>4, SupersededBy
  <2> QED BY <2>5 DEF Missing
<1>16. ASSUME NEW i \in Missing(c), i \notin ToSet(ids), NEW z \in ToSet(ids) PROVE z < i
  <2>1. PICK j \in DOMAIN pipe[p] : j > 1 /\ SavedAt(p, j) /\ Id(pipe[p][j]) = i
    BY <1>15, <1>16
  <2>2. \E k \in DOMAIN r.reply : z \in r.reply[k]
    BY <1>3, <1>9, <1>11
  <2> QED BY <1>6, <2>1, <2>2
<1>17. ASSUME ids = <<>> PROVE Missing(c) \subseteq Broadcasting(p)
  <2>1. ToSet(ids) = {}
    BY <1>17 DEF ToSet
  <2> QED BY <1>15, <2>1 DEF Broadcasting
<1> QED BY <1>11, <1>12, <1>14, <1>16, <1>17

(* A client is told what it missed, and another step of the queues follows. *)
LEMMA ToldComplete ==
  ASSUME BaseInv, Complete, NEW p \in Processes, Only(p), NEW c \in Clients,
         NEW ids \in Seq(Ids), link[c] = "loading", Told(c, ids),
         \A b \in Polling : Missing(b)' = Missing(b),
         Broadcasting(p) \subseteq Broadcasting(p)',
         c \in Polling => \/ Covers(c, ids)
                          \/ ids = <<>> /\ Missing(c) \subseteq Broadcasting(p)
  PROVE  \A b \in Polling : AnsweredAll(b)' /\ Announced(b)'
<1>0. Types /\ Waiting
  BY DEF BaseInv
<1>1. /\ inbox' = [inbox EXCEPT ![c] = @ \o ids]
      /\ link' = [link EXCEPT ![c] =
           IF ids # <<>> /\ c \notin Websockets THEN "answered" ELSE "on"]
  BY DEF Told
<1>2. ASSUME NEW b \in Polling PROVE AnsweredAll(b) /\ Announced(b)
  BY DEF Complete
<1>3. ASSUME NEW b \in Polling, b # c PROVE AnsweredAll(b)' /\ Announced(b)'
  <2>1. link'[b] = link[b] /\ inbox'[b] = inbox[b]
    BY <1>0, <1>1, <1>3 DEF Types
  <2>2. AnsweredAll(b)'
    BY <1>2, <2>1 DEF AnsweredAll
  <2>3. Announced(b)'
    <3>1. ASSUME link[b] = "on", NEW q \in Processes PROVE Missing(b) \subseteq Broadcasting(q)'
      <4>1. Missing(b) \subseteq Broadcasting(p) /\ q = p
        BY <1>2, <3>1 DEF Announced, Only
      <4> QED BY <4>1
    <3> QED BY <2>1, <3>1 DEF Announced
  <2> QED BY <2>2, <2>3
<1>4. ASSUME c \in Polling PROVE AnsweredAll(c)' /\ Announced(c)'
  <2>1. inbox[c] = <<>> /\ inbox[c] \in Seq(Ids)
    BY <1>0 DEF Types, Waiting
  <2>2. inbox'[c] = ids
    BY <1>0, <1>1, <2>1 DEF Types
  <2>3. link'[c] = IF ids # <<>> THEN "answered" ELSE "on"
    BY <1>0, <1>1, <1>4 DEF Types, Polling
  <2>4. CASE ids # <<>>
    <3>1. Covers(c, ids)
      BY <1>4, <2>4
    <3>2. \A i \in Missing(c), z \in ToSet(ids) : i <= z => i \in ToSet(ids)
      <4> SUFFICES ASSUME NEW i \in Missing(c), NEW z \in ToSet(ids), i <= z, z < i PROVE FALSE
        BY <3>1 DEF Covers
      <4>1. z \in Int
        <5>1. z \in Ids
          BY ElementsTyped
        <5> QED BY <5>1 DEF Ids
      <4>2. i \in Int
        BY <1>0, LogFacts DEF Missing, Ids
      <4> QED BY <4>1, <4>2
    <3>3. AnsweredAll(c)'
      BY <1>4, <2>2, <3>2 DEF AnsweredAll
    <3>4. Announced(c)'
      BY <2>3, <2>4 DEF Announced
    <3> QED BY <3>3, <3>4
  <2>5. CASE ids = <<>>
    <3>1. Missing(c) \subseteq Broadcasting(p)
      BY <1>4, <2>5 DEF Covers
    <3>2. \A q \in Processes : Missing(c)' \subseteq Broadcasting(q)'
      BY <1>4, <3>1 DEF Only
    <3>3. Announced(c)'
      BY <3>2 DEF Announced
    <3>4. AnsweredAll(c)'
      BY <2>3, <2>5 DEF AnsweredAll
    <3> QED BY <3>3, <3>4
  <2> QED BY <2>4, <2>5
<1> QED BY <1>3, <1>4

LEMMA RangeComplete ==
  ASSUME BaseInv, OrderInv, Complete, NEW p \in Processes, Only(p), RangeReplied(p)
  PROVE  Complete'
<1> DEFINE c == pipe[p][1].who
           ids == LastOnes(Sorted(pipe[p][1].reply), ReplayLimit)
           x == Request("mget", c, ids)
<1>0. Types
  BY DEF BaseInv
<1>1. /\ pipe[p] # <<>> /\ pipe[p][1].op = "range" /\ pipe[p][1].done
      /\ UNCHANGED <<Store, startDate, relay, bounds>>
      /\ \/ /\ ids # <<>>
            /\ QueueStep(p, 1, <<x>>, 0, <<>>) /\ UNCHANGED Ends
         \/ /\ ids = <<>>
            /\ QueueStep(p, 1, <<>>, 0, <<>>) /\ Told(c, <<>>)
  BY <1>0, RangeForm
<1>2. c \in Clients /\ link[c] = "loading"
  BY <1>1, LoadFacts DEF LoadOps
<1>3. ids \in Seq(Ids)
  BY <1>1, ReadFacts
<1>4. c \in Polling =>
        /\ ToSet(ids) \subseteq bodies
        /\ \A i \in Missing(c) : i \in ToSet(ids) \/ \A z \in ToSet(ids) : z < i
        /\ ids = <<>> => Missing(c) \subseteq Broadcasting(p)
  BY <1>1, ReadCovers
<1> HIDE DEF ids
<1>5. ~SavedAt(p, 1)
  BY <1>1, NotSaved
<1>6. CASE ids # <<>>
  <2>0. QueueStep(p, 1, <<x>>, 0, <<>>) /\ UNCHANGED Ends
    BY <1>1, <1>6
  <2>1. x \in RequestType
    BY <1>0, <1>2, <1>3, RequestFacts
  <2>2. x.op = "mget" /\ x.who = c /\ x.done = FALSE /\ x.args = ids
    BY DEF Request
  <2> HIDE DEF x
  <2>3. Additions(<<x>>, <<>>)
    BY <2>1 DEF Additions
  <2>4. DOMAIN <<x>> = {1} /\ <<x>>[1] = x
    BY OneEntry
  <2>5. NewComplete(p, 1, <<x>>, <<>>)
    <3>1. c \in Polling => Covers(c, ids) /\ ToSet(ids) \subseteq bodies
      BY <1>4, <1>6 DEF Covers
    <3> QED BY <1>5, <2>2, <2>4, <3>1 DEF NewComplete
  <2> QED BY <1>0, <1>1, <2>0, <2>3, <2>5, QuietComplete
<1>7. CASE ids = <<>>
  <2>0. QueueStep(p, 1, <<>>, 0, <<>>) /\ Told(c, <<>>)
    BY <1>1, <1>7
  <2>1. Additions(<<>>, <<>>) /\ NewComplete(p, 1, <<>>, <<>>)
    BY <1>5 DEF Additions, NewComplete
  <2>2. UNCHANGED <<zset, bodies, mid, got>>
    BY <1>1, <2>0 DEF Store, Told
  <2>3. /\ Persisted'
        /\ \A k \in DOMAIN pipe'[p] : ReadAll(p, k)' /\ AskedAll(p, k)'
        /\ \A k \in DOMAIN ticks'[p] : PutOffAll(p, k)'
        /\ \A b \in Polling : Arrived(b)' /\ Missing(b)' = Missing(b)
        /\ StaysBroadcasting(p, 0)
    BY <1>0, <2>0, <2>1, <2>2, QueueComplete
  <2>4. Broadcasting(p) \subseteq Broadcasting(p)'
    <3>1. \A j \in DOMAIN ticks[p] : ~(j <= 0)
      BY <1>0 DEF Types
    <3> QED BY <2>3, <3>1 DEF StaysBroadcasting
  <2>5. \A b \in Polling : AnsweredAll(b)' /\ Announced(b)'
    <3>1. <<>> \in Seq(Ids)
      OBVIOUS
    <3>2. c \in Polling => <<>> = <<>> /\ Missing(c) \subseteq Broadcasting(p)
      BY <1>4, <1>7
    <3> QED BY <1>2, <2>0, <2>3, <2>4, <3>1, <3>2, ToldComplete
  <2> QED BY <2>3, <2>5, EndsComplete
<1> QED BY <1>6, <1>7

LEMMA SharedCopies ==
  ASSUME NEW m \in Messages, NEW c \in Clients, NEW ch \in ToSet(Subscribed[c]),
         ch \in ToSet(To[m])
  PROVE  Copies(m, c) > 0
<1> DEFINE K == {k \in DOMAIN To[m] : To[m][k] \in ToSet(Subscribed[c])}
<1>1. To[m] \in Seq(Channels)
  BY DeliveryAssumption
<1>2. PICK k \in DOMAIN To[m] : To[m][k] = ch
  BY DEF ToSet
<1>3. K # {}
  BY <1>2
<1>4. IsFiniteSet(K)
  <2>1. IsFiniteSet(1..Len(To[m])) /\ K \in SUBSET (1..Len(To[m]))
    BY <1>1, FS_Interval
  <2> QED BY <2>1, FS_Subset
<1>5. Cardinality(K) # 0 /\ Cardinality(K) \in Nat
  BY <1>3, <1>4, FS_EmptySet, FS_CardinalityType
<1>6. Copies(m, c) = Cardinality(K)
  BY DEF Copies
<1> HIDE DEF K
<1> QED BY <1>5, <1>6

LEMMA BroadcastingTyped ==
  ASSUME Types, NEW p \in Processes
  PROVE  Broadcasting(p) \subseteq Nat
<1>1. \A m \in Messages : idOf[m] \in Nat
  BY TopFacts DEF Types
<1>2. ASSUME NEW i \in DOMAIN pipe[p], SavedAt(p, i) PROVE Id(pipe[p][i]) \in Nat
  <2>1. pipe[p][i] \in RequestType
    BY DEF Types
  <2>2. pipe[p][i].who \in Messages
    BY <1>2, <2>1 DEF RequestType, SavedAt, Saves
  <2> QED BY <1>1, <2>2 DEF Id
<1>3. ASSUME NEW i \in DOMAIN ticks[p], ticks[p][i].op = "saved" PROVE Id(ticks[p][i]) \in Nat
  <2>1. ticks[p][i] \in TickType
    BY DEF Types
  <2>2. ticks[p][i].who \in Messages
    BY <1>3, <2>1 DEF TickType
  <2> QED BY <1>1, <2>2 DEF Id
<1> QED BY <1>2, <1>3 DEF Broadcasting

(* A message that is broadcast is the next one for every client that waits. *)
LEMMA ServedComplete ==
  ASSUME BaseInv, OrderInv, Complete, NEW p \in Processes, Only(p), NEW m \in Messages,
         Served(p, m), idOf' = idOf, idOf[m] # 0,
         \A b \in Polling : Missing(b)' = Missing(b),
         Broadcasting(p) \subseteq Broadcasting(p)' \cup {idOf[m]},
         \A z \in Broadcasting(p) : idOf[m] <= z
  PROVE  \A b \in Polling : AnsweredAll(b)' /\ Announced(b)'
<1> SUFFICES ASSUME NEW b \in Polling PROVE AnsweredAll(b)' /\ Announced(b)'
  OBVIOUS
<1>0. Types /\ Waiting
  BY DEF BaseInv
<1>1. AnsweredAll(b) /\ Announced(b)
  BY DEF Complete
<1>2. b \in Clients /\ b \notin Websockets /\ Missing(b)' = Missing(b)
  BY DEF Polling
<1>3. CASE b \in Hit(p, m)
  <2>1. link[b] = "on"
    BY <1>3 DEF Hit
  <2>2. inbox[b] = <<>>
    BY <1>0, <1>2, <2>1 DEF Waiting
  <2>3. link'[b] = "answered" /\ inbox'[b] = <<>> \o Response(b, m)
    BY <1>2, <1>3, <2>2 DEF Served
  <2>4. /\ Response(b, m) \in Seq(Ids)
        /\ \A k \in DOMAIN Response(b, m) : Response(b, m)[k] = idOf[m]
        /\ Len(Response(b, m)) = 1
    BY <1>0, <1>2, ResponseFacts
  <2>5. inbox'[b] = Response(b, m)
    BY <2>3, <2>4
  <2>6. ToSet(Response(b, m)) = {idOf[m]}
    <3>1. DOMAIN Response(b, m) = 1..1
      BY <2>4
    <3> QED BY <2>4, <3>1 DEF ToSet
  <2>7. \A i \in Missing(b) : i <= idOf[m] => i = idOf[m]
    <3> SUFFICES ASSUME NEW i \in Missing(b), i <= idOf[m] PROVE i = idOf[m]
      OBVIOUS
    <3>1. i \in Broadcasting(p)
      BY <1>1, <2>1 DEF Announced
    <3>2. idOf[m] <= i
      BY <3>1
    <3>3. i \in Int /\ idOf[m] \in Int
      <4>1. i \in Ids /\ Top \in Nat
        BY <1>0, <1>2, LogFacts DEF Missing
      <4>2. idOf[m] \in 0..Top
        BY <1>0 DEF Types
      <4> QED BY <4>1, <4>2 DEF Ids
    <3> QED BY <3>2, <3>3
  <2>8. AnsweredAll(b)'
    BY <1>2, <2>5, <2>6, <2>7 DEF AnsweredAll
  <2>9. Announced(b)'
    BY <2>3 DEF Announced
  <2> QED BY <2>8, <2>9
<1>4. CASE b \notin Hit(p, m)
  <2>1. link'[b] = link[b] /\ inbox'[b] = inbox[b]
    BY <1>2, <1>4 DEF Served
  <2>2. AnsweredAll(b)'
    BY <1>1, <1>2, <2>1 DEF AnsweredAll
  <2>3. ASSUME link[b] = "on" PROVE Missing(b) \subseteq Broadcasting(p)'
    <3> SUFFICES ASSUME NEW i \in Missing(b), i = idOf[m] PROVE FALSE
      BY <1>1, <2>3 DEF Announced
    <3>1. home[b] = p
      BY <1>0, <1>2 DEF Types, Only
    <3>2. ~(Copies(m, b) > 0)
      BY <1>2, <1>4, <2>3, <3>1 DEF Hit
    <3>3. PICK k \in DOMAIN Subscribed[b] :
            i \in zset[Subscribed[b][k]] /\ Subscribed[b][k] \in Channels
      BY <1>0, <1>2, LogFacts DEF Missing
    <3>4. PICK n \in Messages : idOf[n] = i /\ Subscribed[b][k] \in ToSet(To[n])
      BY <3>3 DEF OrderInv, Addressed
    <3>5. n = m
      BY <3>4 DEF BaseInv, Numbering
    <3>6. Copies(m, b) > 0
      BY <1>2, <3>3, <3>4, <3>5, SharedCopies DEF ToSet
    <3> QED BY <3>2, <3>6
  <2>4. Announced(b)'
    BY <1>2, <2>1, <2>3 DEF Announced, Only
  <2> QED BY <2>2, <2>4
<1> QED BY <1>3, <1>4

LEMMA TickComplete ==
  ASSUME BaseInv, OrderInv, Complete, NEW p \in Processes, Only(p), Tick(p)
  PROVE  Complete'
<1> DEFINE t == ticks[p][1]
<1>0. Types
  BY DEF BaseInv
<1>1. /\ ticks[p] # <<>> /\ QueueStep(p, 0, <<>>, 1, <<>>)
      /\ UNCHANGED <<Store, startDate, bounds>>
      /\ \/ t.op = "saved" /\ Broadcasts(p, t.who)
         \/ t.op = "loaded" /\ Told(t.who, t.args) /\ UNCHANGED relay
  BY <1>0, TickForm
<1>2. t \in TickType /\ 1 \in DOMAIN ticks[p] /\ \A j \in DOMAIN ticks[p] : j <= 1 => j = 1
  BY <1>0, <1>1 DEF Types
<1>3. Additions(<<>>, <<>>) /\ NewComplete(p, 0, <<>>, <<>>)
  BY DEF Additions, NewComplete
<1>4. UNCHANGED <<zset, bodies, mid, got>> /\ idOf' = idOf
  BY <1>1 DEF Store, QueueStep, Broadcasts, Served, Told
<1>5. /\ Persisted'
      /\ \A k \in DOMAIN pipe'[p] : ReadAll(p, k)' /\ AskedAll(p, k)'
      /\ \A k \in DOMAIN ticks'[p] : PutOffAll(p, k)'
      /\ \A b \in Polling : Arrived(b)' /\ Missing(b)' = Missing(b)
      /\ StaysBroadcasting(p, 1)
  BY <1>0, <1>1, <1>3, <1>4, QueueComplete
<1>6. CASE t.op = "saved"
  <2> DEFINE m == t.who
  <2>1. m \in Messages /\ idOf[m] # 0 /\ Served(p, m)
    BY <1>1, <1>2, <1>6 DEF TickType, BaseInv, Drawing, Broadcasts
  <2>2. Broadcasting(p) \subseteq Broadcasting(p)' \cup {idOf[m]}
    BY <1>2, <1>5 DEF StaysBroadcasting, Id
  <2>3. \A z \in Broadcasting(p) : idOf[m] <= z
    <3>1. \A j \in DOMAIN ticks[p] : j # 1 => 1 < j
      BY <1>0 DEF Types
    <3>2. /\ \A j \in DOMAIN ticks[p] :
               j # 1 /\ ticks[p][j].op = "saved" => idOf[m] < Id(ticks[p][j])
          /\ \A j \in DOMAIN pipe[p] : SavedAt(p, j) => idOf[m] < Id(pipe[p][j])
      BY <1>2, <1>6, <3>1 DEF OrderInv, Queued, SavedAt, Pends, Id
    <3>3. idOf[m] <= idOf[m] /\ \A z \in Nat : idOf[m] < z => idOf[m] <= z
      BY <1>0, <2>1, TopFacts DEF Types
    <3>4. Broadcasting(p) \subseteq Nat
      BY <1>0, BroadcastingTyped
    <3>5. \A z \in Broadcasting(p) : z = idOf[m] \/ idOf[m] < z
      BY <3>2 DEF Broadcasting, Id
    <3> QED BY <3>3, <3>4, <3>5
  <2>4. \A b \in Polling : AnsweredAll(b)' /\ Announced(b)'
    <3> HIDE DEF m
    <3> QED BY <1>4, <1>5, <2>1, <2>2, <2>3, ServedComplete
  <2> QED BY <1>5, <2>4, EndsComplete
<1>7. CASE t.op = "loaded"
  <2>1. /\ t.who \in Clients /\ t.args \in Seq(Ids) /\ link[t.who] = "loading"
        /\ Told(t.who, t.args)
    BY <1>1, <1>2, <1>7 DEF TickType, BaseInv, Loading
  <2>2. PutOffAll(p, 1)
    BY <1>2 DEF Complete
  <2>3. t.who \in Polling => Covers(t.who, t.args)
    BY <1>7, <2>2 DEF PutOffAll
  <2>4. Broadcasting(p) \subseteq Broadcasting(p)'
    <3>1. \A j \in DOMAIN ticks[p] : ~(j <= 1 /\ ticks[p][j].op = "saved")
      BY <1>2, <1>7
    <3> QED BY <1>5, <3>1 DEF StaysBroadcasting
  <2>5. \A b \in Polling : AnsweredAll(b)' /\ Announced(b)'
    BY <1>5, <2>1, <2>3, <2>4, ToldComplete
  <2> QED BY <1>5, <2>5, EndsComplete
<1> QED BY <1>1, <1>6, <1>7

(***************************************************************************)
(* Redis executes a request.  Only a save adds an id, and it is later than *)
(* all that the clients have or are being sent.                            *)
(***************************************************************************)
Saving(p, i) == Saves(pipe[p][i])

LEMMA ExecutedQueues ==
  ASSUME Types, NEW p \in Processes, NEW i \in DOMAIN pipe[p], Executed(p, i)
  PROVE  /\ DOMAIN pipe'[p] = DOMAIN pipe[p] /\ i \in Nat /\ DOMAIN pipe[p] \subseteq Nat
         /\ \A j \in DOMAIN pipe[p] :
              /\ j # i => pipe'[p][j] = pipe[p][j]
              /\ pipe'[p][j].op = pipe[p][j].op /\ pipe'[p][j].who = pipe[p][j].who
              /\ pipe'[p][j].args = pipe[p][j].args
         /\ pipe'[p][i].done /\ pipe'[p][i].reply = Answer(pipe[p][i])
         /\ pipe[p][i] \in RequestType /\ ~pipe[p][i].done
<1> DEFINE r == pipe[p][i]
           b == [r EXCEPT !.done = TRUE, !.reply = Answer(r)]
<1>1. /\ \A j \in DOMAIN pipe[p] : pipe[p][j].done <=> j < i
      /\ pipe' = [pipe EXCEPT ![p] = [pipe[p] EXCEPT ![i] = b]]
  BY DEF Executed
<1>2. /\ r \in RequestType /\ pipe[p] \in Seq(RequestType) /\ i \in Nat
      /\ DOMAIN pipe[p] \subseteq Nat /\ DOMAIN pipe'[p] = DOMAIN pipe[p]
      /\ \A j \in DOMAIN pipe[p] : pipe'[p][j] = IF j = i THEN b ELSE pipe[p][j]
  BY <1>1 DEF Types
<1>3. /\ ~r.done /\ b.op = r.op /\ b.who = r.who /\ b.args = r.args /\ b.done = TRUE
      /\ b.reply = Answer(r)
  BY <1>1, <1>2 DEF RequestType
<1> HIDE DEF b
<1> QED BY <1>2, <1>3

(* No saved message gets another id. *)
LEMMA ExecutedIds ==
  ASSUME BaseInv, NEW p \in Processes, NEW i \in DOMAIN pipe[p], Executed(p, i)
  PROVE  /\ \A j \in DOMAIN pipe[p] : Saves(pipe[p][j]) => Id(pipe[p][j])' = Id(pipe[p][j])
         /\ \A j \in DOMAIN pipe[p] : SavedAt(p, j) => SavedAt(p, j)'
         /\ Saving(p, i) => SavedAt(p, i)'
         /\ Broadcasting(p) \subseteq Broadcasting(p)'
         /\ Saving(p, i) => Id(pipe[p][i]) \in Broadcasting(p)'
<1>0. Types
  BY DEF BaseInv
<1>1. /\ DOMAIN pipe'[p] = DOMAIN pipe[p]
      /\ \A j \in DOMAIN pipe[p] :
           /\ j # i => pipe'[p][j] = pipe[p][j]
           /\ pipe'[p][j].op = pipe[p][j].op /\ pipe'[p][j].who = pipe[p][j].who
      /\ pipe'[p][i].done /\ pipe[p][i] \in RequestType /\ ~pipe[p][i].done
  BY <1>0, ExecutedQueues
<1>2. /\ idOf' = IF pipe[p][i].op = "incr"
                 THEN [idOf EXCEPT ![pipe[p][i].who] = 1 + Max({idOf[m] : m \in Messages})]
                 ELSE idOf
      /\ ticks' = ticks
  BY DEF Executed
<1>3. pipe[p][i].op = "incr" => idOf[pipe[p][i].who] = 0
  BY <1>1 DEF BaseInv, Drawing, Draws
<1>4. ASSUME NEW m \in Messages, idOf[m] # 0 PROVE idOf'[m] = idOf[m]
  BY <1>0, <1>2, <1>3, <1>4 DEF Types
<1>5. ASSUME NEW j \in DOMAIN pipe[p], Saves(pipe[p][j])
      PROVE  Id(pipe[p][j])' = Id(pipe[p][j])
  <2>1. pipe[p][j] \in RequestType
    BY <1>0 DEF Types
  <2>2. pipe[p][j].who \in Messages
    BY <1>5, <2>1 DEF RequestType, Saves
  <2>3. idOf[pipe[p][j].who] # 0
    BY <1>5 DEF BaseInv, Drawing, HasDrawn, Draws, MessageOps, Saves
  <2> QED BY <1>1, <1>4, <2>2, <2>3 DEF Id
<1>6. ASSUME NEW j \in DOMAIN pipe[p], Saves(pipe[p][j]), j = i \/ pipe[p][j].done
      PROVE  SavedAt(p, j)'
  BY <1>1, <1>6 DEF SavedAt, Saves
<1>7. \A j \in DOMAIN pipe[p] : SavedAt(p, j) => SavedAt(p, j)'
  BY <1>6 DEF SavedAt
<1>8. ASSUME NEW j \in DOMAIN ticks[p], ticks[p][j].op = "saved"
      PROVE  idOf'[ticks[p][j].who] = Id(ticks[p][j])
  <2>1. ticks[p][j] \in TickType
    BY <1>0 DEF Types
  <2>2. ticks[p][j].who \in Messages /\ idOf[ticks[p][j].who] # 0
    BY <1>8, <2>1 DEF TickType, BaseInv, Drawing
  <2> QED BY <1>4, <2>2 DEF Id
<1>9. ASSUME NEW j \in DOMAIN pipe[p], SavedAt(p, j)' , Saves(pipe[p][j])
      PROVE  Id(pipe[p][j]) \in Broadcasting(p)'
  <2>1. Id(pipe[p][j])' = Id(pipe[p][j])
    BY <1>5, <1>9
  <2>2. Id(pipe[p][j])' \in Broadcasting(p)'
    BY <1>1, <1>9 DEF Broadcasting
  <2> QED BY <2>1, <2>2
<1>10. ASSUME NEW j \in DOMAIN ticks[p], ticks[p][j].op = "saved"
       PROVE  Id(ticks[p][j]) \in Broadcasting(p)'
  <2>1. Id(ticks[p][j])' \in Broadcasting(p)'
    BY <1>2, <1>10 DEF Broadcasting
  <2>2. Id(ticks[p][j])' = Id(ticks[p][j])
    BY <1>2, <1>8, <1>10 DEF Id
  <2> QED BY <2>1, <2>2
<1>11. Broadcasting(p) \subseteq Broadcasting(p)'
  <2>1. \A j \in DOMAIN pipe[p] : SavedAt(p, j) => Id(pipe[p][j]) \in Broadcasting(p)'
    BY <1>7, <1>9 DEF SavedAt
  <2> QED BY <1>10, <2>1 DEF Broadcasting
<1>12. Saving(p, i) => SavedAt(p, i)'
  BY <1>6 DEF Saving
<1>13. Saving(p, i) => Id(pipe[p][i]) \in Broadcasting(p)'
  BY <1>9, <1>12 DEF Saving
<1> QED BY <1>5, <1>7, <1>11, <1>12, <1>13

LEMMA ExecutedStore ==
  ASSUME BaseInv, BaseInv', OrderInv, Persisted, NEW p \in Processes, NEW i \in DOMAIN pipe[p],
         Executed(p, i)
  PROVE  /\ Persisted' /\ Grows /\ bodies \subseteq bodies'
         /\ UNCHANGED <<link, inbox, mid, got, ticks>>
         /\ ~Saving(p, i) => zset' = zset
         /\ \A c \in Clients : \A z \in ChannelLog(c)' :
              z \in ChannelLog(c) \/ (Saving(p, i) /\ z = Id(pipe[p][i]))
         /\ \A c \in Clients : \A z \in Missing(c)' :
              z \in Missing(c) \/ (Saving(p, i) /\ z = Id(pipe[p][i]))
<1>0. Types /\ Types'
  BY DEF BaseInv
<1>1. /\ bodies' = IF pipe[p][i].op = "save" THEN bodies \cup {idOf[pipe[p][i].who]} ELSE bodies
      /\ zset' = IF pipe[p][i].op = "save"
                 THEN [ch \in Channels |-> IF ch \in ToSet(To[pipe[p][i].who])
                                           THEN zset[ch] \cup {idOf[pipe[p][i].who]} ELSE zset[ch]]
                 ELSE zset
      /\ UNCHANGED <<link, inbox, mid, got, ticks>>
  BY DEF Executed, Ends
<1>2. /\ \A ch \in Channels : zset[ch] \subseteq zset'[ch]
      /\ \A ch \in Channels : \A z \in zset'[ch] :
           z \in zset[ch] \/ (Saving(p, i) /\ z = Id(pipe[p][i]))
      /\ Saving(p, i) => Id(pipe[p][i]) \in bodies'
      /\ bodies \subseteq bodies'
      /\ ~Saving(p, i) => zset' = zset
  BY <1>0, <1>1 DEF Types, Saving, Saves, Id
<1>3. Grows
  BY <1>2 DEF Grows
<1>4. Persisted'
  BY <1>2 DEF Persisted
<1>5. ASSUME NEW c \in Clients, NEW z \in ChannelLog(c)'
      PROVE  z \in ChannelLog(c) \/ (Saving(p, i) /\ z = Id(pipe[p][i]))
  <2>1. \A ch \in ChannelsOf(c) : ch \in Channels
    BY DeliveryAssumption DEF ChannelsOf, ToSet
  <2>2. PICK ch \in ChannelsOf(c) : z \in zset'[ch]
    BY DEF ChannelLog
  <2>3. z \in zset[ch] => z \in ChannelLog(c)
    BY <2>2 DEF ChannelLog
  <2> QED BY <1>2, <2>1, <2>2, <2>3
<1>6. ASSUME NEW c \in Clients, NEW z \in Missing(c)'
      PROVE  z \in Missing(c) \/ (Saving(p, i) /\ z = Id(pipe[p][i]))
  <2>1. mid'[c] >= mid[c]
    BY <1>0, <1>1, TopFacts DEF Types
  <2>2. z \in ChannelLog(c) => z \in Missing(c)
    BY <1>0, <1>3, <2>1, MissingShrinks
  <2>3. z \in ChannelLog(c)'
    BY DEF Missing
  <2> QED BY <1>5, <2>2, <2>3
<1> QED BY <1>1, <1>2, <1>3, <1>4, <1>5, <1>6

(* What is saved is later than what the clients have or are being sent. *)
LEMMA SavedIsLatest ==
  ASSUME BaseInv, OrderInv, NEW p \in Processes, Only(p), NEW i \in DOMAIN pipe[p], Saving(p, i)
  PROVE  /\ \A c \in Clients : /\ ~(Id(pipe[p][i]) <= mid[c])
                               /\ \A z \in ToSet(inbox[c]) : ~(Id(pipe[p][i]) <= z)
         /\ \A k \in DOMAIN pipe[p] : pipe[p][k].op = "mget" =>
              \A z \in ToSet(pipe[p][k].args) : z < Id(pipe[p][i])
         /\ \A k \in DOMAIN ticks[p] : ticks[p][k].op = "loaded" =>
              \A z \in ToSet(ticks[p][k].args) : z < Id(pipe[p][i])
<1> DEFINE y == Id(pipe[p][i])
<1>0. Types
  BY DEF BaseInv
<1>1. Pends(pipe[p][i]) /\ y \in Pending(p)
  BY DEF Pends, Saving, Pending
<1>2. y \in Nat
  <2>1. pipe[p][i] \in RequestType
    BY <1>0 DEF Types
  <2>2. pipe[p][i].who \in Messages
    BY <2>1 DEF RequestType, Saving, Saves
  <2> QED BY <1>0, <2>2, TopFacts DEF Types, Id
<1>3. ASSUME NEW c \in Clients
      PROVE  ~(y <= mid[c]) /\ \A z \in ToSet(inbox[c]) : ~(y <= z)
  <2>1. \A z \in {mid[c]} \cup ToSet(inbox[c]) : z < y
    BY <1>1 DEF OrderInv, Seen
  <2>2. \A z \in {mid[c]} \cup ToSet(inbox[c]) : z \in Nat
    <3>1. mid[c] \in 0..Top /\ inbox[c] \in Seq(Ids) /\ Top \in Nat
      BY <1>0, TopFacts DEF Types
    <3>2. ToSet(inbox[c]) \subseteq Ids
      BY <3>1, ElementsTyped
    <3> QED BY <3>1, <3>2 DEF Ids
  <2> HIDE DEF y
  <2> QED BY <1>2, <2>1, <2>2
<1>4. \A k \in DOMAIN pipe[p] : pipe[p][k].op = "mget" =>
        \A z \in ToSet(pipe[p][k].args) : z < y
  BY <1>1 DEF OrderInv, Replays, BodiesRead, BelowPending
<1>5. \A k \in DOMAIN ticks[p] : ticks[p][k].op = "loaded" =>
        \A z \in ToSet(ticks[p][k].args) : z < y
  BY <1>1 DEF OrderInv, Replays, ReplayPutOff, BelowPending
<1> QED BY <1>3, <1>4, <1>5

(* A range that is read has all that is missing, save what is superseded. *)
LEMMA RangeIsComplete ==
  ASSUME Types, Replays, NEW p \in Processes, NEW i \in DOMAIN pipe[p], pipe[p][i].op = "range",
         NEW c \in Polling, c = pipe[p][i].who
  PROVE  LET q == Answer(pipe[p][i]) IN
         /\ \A k \in DOMAIN q : q[k] \subseteq ChannelLog(c)
         /\ \A z \in Missing(c) : \E k \in DOMAIN q : z \in q[k]
<1> DEFINE q == Answer(pipe[p][i])
           since(k) == {z \in zset[Subscribed[c][k]] : z > mid[c]}
<1>1. q = [k \in DOMAIN Subscribed[c] |-> Newest(since(k), RangeLimit)]
  <2>1. pipe[p][i].args = <<mid[c]>>
    BY DEF Replays, IdsRead
  <2> QED BY <2>1 DEF Answer
<1>2. c \in Clients
  BY DEF Polling
<1>3. /\ ChannelLog(c) \subseteq Ids
      /\ \A k \in DOMAIN Subscribed[c] : since(k) \subseteq ChannelLog(c)
      /\ \A z \in ChannelLog(c) : \E k \in DOMAIN Subscribed[c] : z \in zset[Subscribed[c][k]]
  BY <1>2, LogFacts
<1> HIDE DEF q
<1>4. ASSUME NEW k \in DOMAIN q PROVE q[k] \subseteq ChannelLog(c)
  BY <1>1, <1>3 DEF Newest
<1>5. ASSUME NEW z \in Missing(c) PROVE \E k \in DOMAIN q : z \in q[k]
  <2>1. z \in ChannelLog(c) /\ z > mid[c] /\ ~Superseded(c, z)
    BY DEF Missing
  <2>2. PICK k \in DOMAIN Subscribed[c] : z \in zset[Subscribed[c][k]]
    BY <1>3, <2>1
  <2> DEFINE S == {j \in since(k) : j > z}
  <2>3. S \in SUBSET ChannelLog(c) /\ S \in SUBSET Ids /\ \A j \in S : j > z
    BY <1>3
  <2>4. Cardinality(S) \in Nat /\ RangeLimit \in Nat
    BY <1>2, <2>3, LogFacts, DeliveryAssumption
  <2>5. z \in Newest(since(k), RangeLimit) <=> Cardinality(S) < RangeLimit
    BY <2>1, <2>2 DEF Newest
  <2> HIDE DEF S
  <2>6. ~(Cardinality(S) >= RangeLimit)
    BY <1>2, <1>3, <2>1, <2>3, SupersededBy
  <2> QED BY <1>1, <2>2, <2>4, <2>5, <2>6
<1> QED BY <1>4, <1>5 DEF q

LEMMA ExecuteComplete ==
  ASSUME BaseInv, BaseInv', OrderInv, Complete, NEW p \in Processes, Only(p), Execute(p)
  PROVE  Complete'
<1>0. Types
  BY DEF BaseInv
<1>1. PICK i \in DOMAIN pipe[p] : Executed(p, i)
  BY <1>0, ExecuteForm
<1> DEFINE y == Id(pipe[p][i])
<1>2. /\ DOMAIN pipe'[p] = DOMAIN pipe[p] /\ i \in Nat /\ DOMAIN pipe[p] \subseteq Nat
      /\ \A j \in DOMAIN pipe[p] :
           /\ j # i => pipe'[p][j] = pipe[p][j]
           /\ pipe'[p][j].op = pipe[p][j].op /\ pipe'[p][j].who = pipe[p][j].who
           /\ pipe'[p][j].args = pipe[p][j].args
      /\ pipe'[p][i].reply = Answer(pipe[p][i])
      /\ pipe[p][i] \in RequestType
  BY <1>0, <1>1, ExecutedQueues
<1>3. /\ \A j \in DOMAIN pipe[p] : Saves(pipe[p][j]) => Id(pipe[p][j])' = Id(pipe[p][j])
      /\ \A j \in DOMAIN pipe[p] : SavedAt(p, j) => SavedAt(p, j)'
      /\ Saving(p, i) => SavedAt(p, i)'
      /\ Broadcasting(p) \subseteq Broadcasting(p)'
      /\ Saving(p, i) => y \in Broadcasting(p)'
  BY <1>1, ExecutedIds
<1>4. /\ Persisted' /\ Grows /\ bodies \subseteq bodies'
      /\ UNCHANGED <<link, inbox, mid, got, ticks>>
      /\ ~Saving(p, i) => zset' = zset
      /\ \A c \in Clients : \A z \in ChannelLog(c)' : z \in ChannelLog(c) \/ (Saving(p, i) /\ z = y)
      /\ \A c \in Clients : \A z \in Missing(c)' : z \in Missing(c) \/ (Saving(p, i) /\ z = y)
  BY <1>1, ExecutedStore DEF Complete
<1>5. Saving(p, i) =>
        /\ \A c \in Clients : ~(y <= mid[c]) /\ \A z \in ToSet(inbox[c]) : ~(y <= z)
        /\ \A k \in DOMAIN pipe[p] : pipe[p][k].op = "mget" =>
             \A z \in ToSet(pipe[p][k].args) : z < y
        /\ \A k \in DOMAIN ticks[p] : ticks[p][k].op = "loaded" =>
             \A z \in ToSet(ticks[p][k].args) : z < y
  BY SavedIsLatest
<1>6. \A j \in DOMAIN pipe[p] : pipe[p][j].done <=> j < i
  BY <1>1 DEF Executed
<1>7. /\ \A k \in DOMAIN pipe[p] : ReadAll(p, k) /\ AskedAll(p, k)
      /\ \A k \in DOMAIN ticks[p] : PutOffAll(p, k)
      /\ \A c \in Polling : Arrived(c) /\ AnsweredAll(c) /\ Announced(c)
  BY DEF Complete
<1> HIDE DEF y
<1>8. ASSUME NEW c \in Polling PROVE Arrived(c)' /\ AnsweredAll(c)' /\ Announced(c)'
  <2>0. c \in Clients
    BY DEF Polling
  <2>1. Arrived(c)'
    <3> SUFFICES ASSUME NEW z \in ChannelLog(c)', z <= mid'[c]
                 PROVE  z \in ToSet(got'[c]) \/ Superseded(c, z)'
      BY DEF Arrived
    <3>1. z \in ChannelLog(c)
      BY <1>4, <1>5, <2>0
    <3>2. z \in ToSet(got[c]) \/ Superseded(c, z)
      BY <1>4, <1>7, <3>1 DEF Arrived
    <3>3. Superseded(c, z) => Superseded(c, z)'
      BY <1>4, <2>0, SupersededGrows DEF BaseInv
    <3> QED BY <1>4, <3>2, <3>3
  <2>2. AnsweredAll(c)'
    <3> SUFFICES ASSUME link'[c] = "answered", NEW x \in Missing(c)', NEW z \in ToSet(inbox'[c]),
                        x <= z
                 PROVE  x \in ToSet(inbox'[c])
      BY DEF AnsweredAll
    <3>1. x \in Missing(c)
      BY <1>4, <1>5, <2>0
    <3> QED BY <1>4, <1>7, <3>1 DEF AnsweredAll
  <2>3. Announced(c)'
    <3> SUFFICES ASSUME link'[c] = "on", NEW x \in Missing(c)' PROVE x \in Broadcasting(p)'
      BY DEF Announced, Only
    <3>1. x \in Missing(c) => x \in Broadcasting(p)
      BY <1>4, <1>7 DEF Announced
    <3> QED BY <1>3, <1>4, <2>0, <3>1
  <2> QED BY <2>1, <2>2, <2>3
<1>9. ASSUME NEW k \in DOMAIN ticks[p] PROVE PutOffAll(p, k)'
  <2> SUFFICES ASSUME ticks[p][k].op = "loaded", NEW c \in Polling, c = ticks[p][k].who
               PROVE  Covers(c, ticks[p][k].args)'
    BY <1>4 DEF PutOffAll
  <2>1. Covers(c, ticks[p][k].args)
    BY <1>7 DEF PutOffAll
  <2>2. \A x \in Missing(c)' : x \in Missing(c) \/ \A z \in ToSet(ticks[p][k].args) : z < x
    BY <1>4, <1>5 DEF Polling
  <2> QED BY <1>4, <2>1, <2>2 DEF Covers
<1>10. ASSUME NEW k \in DOMAIN pipe[p] PROVE AskedAll(p, k)'
  <2> SUFFICES ASSUME pipe[p][k].op = "mget", NEW c \in Polling, c = pipe[p][k].who
               PROVE  AskedAll(p, k)'
    BY <1>2 DEF AskedAll
  <2> DEFINE ids == pipe[p][k].args
  <2>1. pipe'[p][k].args = ids /\ pipe'[p][k].who = c
    BY <1>2
  <2>2. /\ ToSet(ids) \subseteq bodies /\ Covers(c, ids)
        /\ pipe[p][k].done => ToSet(pipe[p][k].reply) = ToSet(ids)
    BY <1>7 DEF AskedAll
  <2>3. \A x \in Missing(c)' : x \in Missing(c) \/ \A z \in ToSet(ids) : z < x
    BY <1>4, <1>5 DEF Polling
  <2>4. pipe'[p][k].done => ToSet(pipe'[p][k].reply) = ToSet(ids)
    <3>1. CASE k # i
      BY <1>2, <2>2, <3>1
    <3>2. CASE k = i
      <4>1. pipe'[p][k].reply = Kept(ids, bodies)
        BY <1>2, <3>2 DEF Answer
      <4>2. ids \in Seq(Ids)
        BY <1>2, <3>2 DEF RequestType, MessageOps
      <4> HIDE DEF ids
      <4>3. ToSet(Kept(ids, bodies)) = ToSet(ids) \cap bodies
        BY <4>2, KeptFacts
      <4> QED BY <2>2, <4>1, <4>3
    <3> QED BY <3>1, <3>2
  <2> HIDE DEF ids
  <2>5. ids # <<>> /\ \A x \in Missing(c)' : x \in ToSet(ids) \/ \A z \in ToSet(ids) : z < x
    BY <2>2, <2>3 DEF Covers
  <2>6. ToSet(ids) \subseteq bodies'
    BY <1>4, <2>2
  <2> QED BY <2>1, <2>4, <2>5, <2>6 DEF AskedAll, Covers
<1>11. ASSUME NEW k \in DOMAIN pipe[p] PROVE ReadAll(p, k)'
  <2> SUFFICES ASSUME pipe[p][k].op = "range", pipe'[p][k].done,
                      NEW c \in Polling, c = pipe[p][k].who
               PROVE  ReadAll(p, k)'
    BY <1>2 DEF ReadAll
  <2> DEFINE sets == pipe'[p][k].reply
  <2>0. c \in Clients /\ pipe'[p][k].who = c
    BY <1>2 DEF Polling
  <2>1. ChannelLog(c) \subseteq ChannelLog(c)'
    BY <1>0, <1>4, <2>0, LogGrows
  <2>2. /\ \A x \in DOMAIN sets : sets[x] \subseteq ChannelLog(c)
        /\ \A z \in Missing(c)' :
             \/ \E x \in DOMAIN sets : z \in sets[x]
             \/ \E j \in DOMAIN pipe'[p] : j > k /\ SavedAt(p, j)' /\ Id(pipe[p][j])' = z
    <3>1. CASE k # i
      <4>1. pipe'[p][k] = pipe[p][k] /\ pipe[p][k].done /\ k < i
        BY <1>2, <1>6, <3>1
      <4>2. /\ \A x \in DOMAIN sets : sets[x] \subseteq ChannelLog(c)
            /\ \A z \in Missing(c) :
                 \/ \E x \in DOMAIN sets : z \in sets[x]
                 \/ \E j \in DOMAIN pipe[p] : j > k /\ SavedAt(p, j) /\ Id(pipe[p][j]) = z
        BY <1>7, <4>1 DEF ReadAll
      <4> HIDE DEF sets
      <4>3. ASSUME NEW j \in DOMAIN pipe[p], SavedAt(p, j)
            PROVE  SavedAt(p, j)' /\ Id(pipe[p][j])' = Id(pipe[p][j])
        BY <1>3, <4>3 DEF SavedAt
      <4>4. Saving(p, i) => i > k /\ SavedAt(p, i)' /\ Id(pipe[p][i])' = y
        <5>1. k \in Nat
          BY <1>2
        <5> QED BY <1>2, <1>3, <4>1, <5>1 DEF Saving, y
      <4>5. ASSUME NEW z \in Missing(c)'
            PROVE  \/ \E x \in DOMAIN sets : z \in sets[x]
                   \/ \E j \in DOMAIN pipe[p] : j > k /\ SavedAt(p, j)' /\ Id(pipe[p][j])' = z
        <5>1. CASE z \in Missing(c)
          BY <4>2, <4>3, <5>1
        <5>2. CASE Saving(p, i) /\ z = y
          BY <4>4, <5>2
        <5> QED BY <1>4, <2>0, <5>1, <5>2
      <4> QED BY <1>2, <4>2, <4>5
    <3>2. CASE k = i
      <4>1. sets = Answer(pipe[p][i]) /\ ~Saving(p, i)
        BY <1>2, <3>2 DEF Saving, Saves
      <4>2. /\ \A x \in DOMAIN sets : sets[x] \subseteq ChannelLog(c)
            /\ \A z \in Missing(c) : \E x \in DOMAIN sets : z \in sets[x]
        BY <1>0, <3>2, <4>1, RangeIsComplete DEF OrderInv
      <4> QED BY <1>4, <2>0, <4>1, <4>2
    <3> QED BY <3>1, <3>2
  <2>3. \A x \in DOMAIN sets : sets[x] \subseteq ChannelLog(c)'
    BY <2>1, <2>2
  <2> HIDE DEF sets
  <2>4. /\ \A x \in DOMAIN sets : sets[x] \subseteq ChannelLog(c)'
        /\ \A z \in Missing(c)' :
             \/ \E x \in DOMAIN sets : z \in sets[x]
             \/ \E j \in DOMAIN pipe'[p] : j > k /\ SavedAt(p, j)' /\ Id(pipe[p][j])' = z
    BY <2>2, <2>3
  <2> QED BY <2>0, <2>4 DEF ReadAll, sets
<1>12. /\ \A k \in DOMAIN pipe'[p] : ReadAll(p, k)' /\ AskedAll(p, k)'
       /\ \A k \in DOMAIN ticks'[p] : PutOffAll(p, k)'
  BY <1>2, <1>4, <1>9, <1>10, <1>11
<1> QED BY <1>4, <1>8, <1>12, EndsComplete

LEMMA ToSetJoined ==
  ASSUME NEW S, NEW q \in Seq(S), NEW r \in Seq(S)
  PROVE  ToSet(q \o r) = ToSet(q) \cup ToSet(r)
<1>1. /\ q \o r \in Seq(S) /\ Len(q \o r) = Len(q) + Len(r)
      /\ \A i \in 1..(Len(q) + Len(r)) :
           (q \o r)[i] = IF i <= Len(q) THEN q[i] ELSE r[i - Len(q)]
  BY ConcatProperties
<1>2. /\ DOMAIN q = 1..Len(q) /\ DOMAIN r = 1..Len(r) /\ DOMAIN (q \o r) = 1..(Len(q) + Len(r))
      /\ Len(q) \in Nat /\ Len(r) \in Nat
  BY <1>1
<1>3. \A i \in DOMAIN q : i \in DOMAIN (q \o r) /\ (q \o r)[i] = q[i]
  BY <1>1, <1>2
<1>4. \A i \in DOMAIN r : Len(q) + i \in DOMAIN (q \o r) /\ (q \o r)[Len(q) + i] = r[i]
  <2> SUFFICES ASSUME NEW i \in DOMAIN r
               PROVE  Len(q) + i \in DOMAIN (q \o r) /\ (q \o r)[Len(q) + i] = r[i]
    OBVIOUS
  <2>1. Len(q) + i \in 1..(Len(q) + Len(r)) /\ ~(Len(q) + i <= Len(q)) /\ (Len(q) + i) - Len(q) = i
    BY <1>2
  <2> QED BY <1>1, <1>2, <2>1
<1>5. \A i \in DOMAIN (q \o r) : (q \o r)[i] \in ToSet(q) \cup ToSet(r)
  <2> SUFFICES ASSUME NEW i \in DOMAIN (q \o r) PROVE (q \o r)[i] \in ToSet(q) \cup ToSet(r)
    OBVIOUS
  <2>1. CASE i <= Len(q)
    <3>1. i \in DOMAIN q /\ (q \o r)[i] = q[i]
      BY <1>1, <1>2, <2>1
    <3> QED BY <3>1 DEF ToSet
  <2>2. CASE ~(i <= Len(q))
    <3>1. i - Len(q) \in DOMAIN r /\ (q \o r)[i] = r[i - Len(q)]
      BY <1>1, <1>2, <2>2
    <3> QED BY <3>1 DEF ToSet
  <2> QED BY <2>1, <2>2
<1>6. ToSet(q) \subseteq ToSet(q \o r)
  BY <1>3 DEF ToSet
<1>7. ToSet(r) \subseteq ToSet(q \o r)
  BY <1>4 DEF ToSet
<1>8. ToSet(q \o r) \subseteq ToSet(q) \cup ToSet(r)
  BY <1>5 DEF ToSet
<1> QED BY <1>6, <1>7, <1>8

(***************************************************************************)
(* Completeness, at the ends.                                              *)
(***************************************************************************)
LEMMA ConnectComplete ==
  ASSUME BaseInv, Complete, NEW c \in Clients, NEW p \in Processes, Only(p), Connect(c, p)
  PROVE  Complete'
<1> DEFINE x == Request("range", c, <<mid[c]>>)
<1>0. Types
  BY DEF BaseInv
<1>1. /\ link' = [link EXCEPT ![c] = "loading"]
      /\ QueueStep(p, 0, <<x>>, 0, <<>>)
      /\ UNCHANGED <<Store, inbox, mid, got, startDate, relay, bounds>>
  BY <1>0, ConnectForm
<1>2. x \in RequestType
  BY <1>0, RequestFacts
<1>3. x.op = "range" /\ x.done = FALSE
  BY DEF Request
<1> HIDE DEF x
<1>4. DOMAIN <<x>> = {1} /\ <<x>>[1] = x
  BY OneEntry
<1>5. Additions(<<x>>, <<>>)
  BY <1>2 DEF Additions
<1>6. NewComplete(p, 0, <<x>>, <<>>)
  BY <1>3, <1>4 DEF NewComplete
<1>7. UNCHANGED <<zset, bodies, mid, got, inbox>>
  BY <1>1 DEF Store
<1>8. /\ Persisted'
      /\ \A k \in DOMAIN pipe'[p] : ReadAll(p, k)' /\ AskedAll(p, k)'
      /\ \A k \in DOMAIN ticks'[p] : PutOffAll(p, k)'
      /\ \A b \in Polling : Arrived(b)' /\ Missing(b)' = Missing(b)
      /\ StaysBroadcasting(p, 0)
  BY <1>0, <1>1, <1>5, <1>6, <1>7, QueueComplete
<1>9. Broadcasting(p) \subseteq Broadcasting(p)'
  <2>1. \A j \in DOMAIN ticks[p] : ~(j <= 0)
    BY <1>0 DEF Types
  <2> QED BY <1>8, <2>1 DEF StaysBroadcasting
<1>10. ASSUME NEW b \in Polling PROVE AnsweredAll(b)' /\ Announced(b)'
  <2>1. link'[b] = IF b = c THEN "loading" ELSE link[b]
    BY <1>0, <1>1 DEF Types, Polling
  <2>2. AnsweredAll(b) /\ Announced(b) /\ Missing(b)' = Missing(b)
    BY <1>8 DEF Complete
  <2>3. AnsweredAll(b)'
    BY <1>7, <2>1, <2>2 DEF AnsweredAll
  <2>4. Announced(b)'
    BY <1>9, <2>1, <2>2 DEF Announced, Only
  <2> QED BY <2>3, <2>4
<1> QED BY <1>8, <1>10, EndsComplete

LEMMA StillComplete ==
  ASSUME BaseInv, Complete, Still, NEW c \in Clients, link[c] # "loading",
         \A b \in Clients : b # c =>
           link'[b] = link[b] /\ inbox'[b] = inbox[b] /\ mid'[b] = mid[b] /\ got'[b] = got[b],
         c \in Polling => Arrived(c)' /\ AnsweredAll(c)' /\ Announced(c)'
  PROVE  Complete'
<1>1. UNCHANGED <<idOf, zset, bodies, pipe, ticks>>
  BY DEF Still, Store
<1>2. Persisted'
  BY <1>1 DEF Complete, Persisted
<1>3. \A b, i : ChannelLog(b)' = ChannelLog(b) /\ (Superseded(b, i)' <=> Superseded(b, i))
  BY <1>1 DEF ChannelLog, Superseded
<1>4. ASSUME NEW b \in Polling, b # c PROVE Missing(b)' = Missing(b)
  BY <1>3, <1>4 DEF Missing, Polling
<1>5. \A p \in Processes : Broadcasting(p)' = Broadcasting(p)
  BY <1>1 DEF Broadcasting, SavedAt, Id
<1>6. ASSUME NEW b \in Polling PROVE Arrived(b)' /\ AnsweredAll(b)' /\ Announced(b)'
  <2>1. CASE b # c
    <3>1. /\ link'[b] = link[b] /\ inbox'[b] = inbox[b] /\ mid'[b] = mid[b] /\ got'[b] = got[b]
          /\ Arrived(b) /\ AnsweredAll(b) /\ Announced(b) /\ Missing(b)' = Missing(b)
      BY <1>4, <2>1 DEF Polling, Complete
    <3>2. Arrived(b)'
      BY <1>3, <3>1 DEF Arrived
    <3>3. AnsweredAll(b)'
      BY <3>1 DEF AnsweredAll
    <3>4. Announced(b)'
      BY <1>5, <3>1 DEF Announced
    <3> QED BY <3>2, <3>3, <3>4
  <2> QED BY <2>1
<1>7. ASSUME NEW p \in Processes, NEW k \in DOMAIN pipe[p] PROVE ReadAll(p, k)' /\ AskedAll(p, k)'
  <2>1. ReadAll(p, k) /\ AskedAll(p, k)
    BY DEF Complete
  <2>2. ASSUME pipe[p][k].op \in LoadOps PROVE pipe[p][k].who # c
    BY <2>2 DEF BaseInv, Loading, Loads
  <2>3. ReadAll(p, k)'
    <3> SUFFICES ASSUME pipe[p][k].op = "range", pipe[p][k].done,
                        NEW b \in Polling, b = pipe[p][k].who
                 PROVE  ReadAll(p, k)'
      BY <1>1 DEF ReadAll
    <3>1. Missing(b)' = Missing(b) /\ ChannelLog(b)' = ChannelLog(b)
      BY <1>3, <1>4, <2>2 DEF LoadOps
    <3> QED BY <1>1, <2>1, <3>1 DEF ReadAll, SavedAt, Id
  <2>4. AskedAll(p, k)'
    <3> SUFFICES ASSUME pipe[p][k].op = "mget", NEW b \in Polling, b = pipe[p][k].who
                 PROVE  AskedAll(p, k)'
      BY <1>1 DEF AskedAll
    <3>1. Missing(b)' = Missing(b)
      BY <1>4, <2>2 DEF LoadOps
    <3> QED BY <1>1, <2>1, <3>1 DEF AskedAll, Covers
  <2> QED BY <2>3, <2>4
<1>8. ASSUME NEW p \in Processes, NEW k \in DOMAIN ticks[p] PROVE PutOffAll(p, k)'
  <2> SUFFICES ASSUME ticks[p][k].op = "loaded", NEW b \in Polling, b = ticks[p][k].who
               PROVE  PutOffAll(p, k)'
    BY <1>1 DEF PutOffAll
  <2>1. PutOffAll(p, k)
    BY DEF Complete
  <2>2. b # c
    BY DEF BaseInv, Loading
  <2>3. Missing(b)' = Missing(b)
    BY <1>4, <2>2
  <2> QED BY <1>1, <2>1, <2>3 DEF PutOffAll, Covers
<1> QED BY <1>1, <1>2, <1>6, <1>7, <1>8 DEF Complete

LEMMA StillArrived ==
  ASSUME Still, UNCHANGED <<mid, got>>, NEW c \in Polling, Arrived(c)
  PROVE  /\ Arrived(c)' /\ Missing(c)' = Missing(c)
         /\ \A p \in Processes : Broadcasting(p)' = Broadcasting(p)
<1>1. UNCHANGED <<idOf, zset, pipe, ticks>>
  BY DEF Still, Store
<1>2. \A i : ChannelLog(c)' = ChannelLog(c) /\ (Superseded(c, i)' <=> Superseded(c, i))
  BY <1>1 DEF ChannelLog, Superseded
<1>3. Arrived(c)'
  BY <1>2 DEF Arrived
<1>4. Missing(c)' = Missing(c)
  BY <1>2 DEF Missing
<1>5. \A p \in Processes : Broadcasting(p)' = Broadcasting(p)
  BY <1>1 DEF Broadcasting, SavedAt, Id
<1> QED BY <1>3, <1>4, <1>5

LEMMA TimeoutComplete ==
  ASSUME BaseInv, Complete, NEW c \in Clients, PollTimeout(c)
  PROVE  Complete'
<1>0. Types
  BY DEF BaseInv
<1>1. /\ link[c] # "loading" /\ Still
      /\ link' = [link EXCEPT ![c] = "off"] /\ UNCHANGED <<inbox, mid, got>>
  BY <1>0, TimeoutForm
<1>2. \A b \in Clients : b # c => link'[b] = link[b]
  BY <1>0, <1>1 DEF Types
<1>3. ASSUME c \in Polling PROVE Arrived(c)' /\ AnsweredAll(c)' /\ Announced(c)'
  <2>1. link'[c] = "off"
    BY <1>0, <1>1 DEF Types
  <2>2. Arrived(c)'
    BY <1>1, <1>3, StillArrived DEF Complete
  <2> QED BY <2>1, <2>2 DEF AnsweredAll, Announced
<1> QED BY <1>1, <1>2, <1>3, StillComplete

(* A polling client is only cut off. *)
LEMMA CutComplete ==
  ASSUME BaseInv, Complete, NEW c \in Clients, NEW n \in Nat, Cut(c, n)
  PROVE  Complete'
<1>0. Types
  BY DEF BaseInv
<1>1. /\ Still /\ UNCHANGED <<mid, got>> /\ link[c] # "loading"
      /\ \A b \in Clients : b # c => inbox'[b] = inbox[b]
      /\ link' = link \/ link' = [link EXCEPT ![c] = "off"]
      /\ c \notin Websockets => link' = [link EXCEPT ![c] = "off"]
  BY <1>0, CutFacts DEF Cut, CutOff
<1>2. \A b \in Clients : b # c => link'[b] = link[b]
  BY <1>0, <1>1 DEF Types
<1>3. ASSUME c \in Polling PROVE Arrived(c)' /\ AnsweredAll(c)' /\ Announced(c)'
  <2>1. Arrived(c)'
    BY <1>1, <1>3, StillArrived DEF Complete
  <2>2. link'[c] = "off"
    BY <1>0, <1>1, <1>3 DEF Types, Polling
  <2> QED BY <2>1, <2>2 DEF AnsweredAll, Announced
<1> QED BY <1>1, <1>2, <1>3, StillComplete

LEMMA ReceiveComplete ==
  ASSUME BaseInv, Complete, Sockets, NEW c \in Clients, Receive(c)
  PROVE  Complete'
<1> DEFINE n == IF c \in Websockets THEN 1 ELSE Len(inbox[c])
<1>0. Types /\ Waiting
  BY DEF BaseInv
<1>1. /\ inbox[c] # <<>>
      /\ got' = [got EXCEPT ![c] = @ \o SubSeq(inbox[c], 1, n)]
      /\ inbox' = [inbox EXCEPT ![c] = SubSeq(@, n + 1, Len(@))]
      /\ mid' = [mid EXCEPT ![c] = inbox[c][n]]
      /\ link' = [link EXCEPT ![c] = IF c \in Websockets THEN @ ELSE "off"]
      /\ Still
  BY <1>0, ReceiveForm
<1>2. link[c] # "loading" /\ (c \in Polling => link[c] = "answered")
  BY <1>0, <1>1 DEF Waiting, Polling
<1>3. \A b \in Clients : b # c =>
        link'[b] = link[b] /\ inbox'[b] = inbox[b] /\ mid'[b] = mid[b] /\ got'[b] = got[b]
  BY <1>0, <1>1 DEF Types
<1>4. ASSUME c \in Polling PROVE Arrived(c)' /\ AnsweredAll(c)' /\ Announced(c)'
  <2>1. link'[c] = "off" /\ c \notin Websockets
    BY <1>0, <1>1, <1>4 DEF Types, Polling
  <2>2. inbox[c] \in Seq(Ids) /\ got[c] \in Seq(Ids) /\ mid[c] \in 0..Top /\ Top \in Nat
    BY <1>0, TopFacts DEF Types
  <2>3. SubSeq(inbox[c], 1, Len(inbox[c])) = inbox[c]
    BY <2>2
  <2>4. got'[c] = got[c] \o inbox[c] /\ mid'[c] = inbox[c][Len(inbox[c])]
    BY <1>0, <1>1, <2>1, <2>3 DEF Types
  <2>5. ToSet(got[c] \o inbox[c]) = ToSet(got[c]) \cup ToSet(inbox[c])
    BY <2>2, ToSetJoined
  <2>6. mid'[c] \in ToSet(inbox[c])
    <3>1. Len(inbox[c]) \in DOMAIN inbox[c]
      BY <1>1, <2>2
    <3> QED BY <2>4, <3>1 DEF ToSet
  <2>7. \A i : ChannelLog(c)' = ChannelLog(c) /\ (Superseded(c, i)' <=> Superseded(c, i))
    <3>1. zset' = zset
      BY <1>1 DEF Still, Store
    <3> QED BY <3>1 DEF ChannelLog, Superseded
  <2>8. Arrived(c)'
    <3> SUFFICES ASSUME NEW i \in ChannelLog(c), i <= mid'[c]
                 PROVE  i \in ToSet(got[c]) \cup ToSet(inbox[c]) \/ Superseded(c, i)
      BY <2>4, <2>5, <2>7 DEF Arrived
    <3>1. i \in Nat /\ mid[c] \in Nat
      BY <1>0, <2>2, LogFacts DEF Ids
    <3>2. CASE i <= mid[c]
      BY <1>4, <3>2 DEF Complete, Arrived
    <3>3. CASE i > mid[c] /\ ~Superseded(c, i)
      <4>1. i \in Missing(c)
        BY <3>3 DEF Missing
      <4> QED BY <1>2, <1>4, <2>6, <4>1 DEF Complete, AnsweredAll
    <3> QED BY <3>1, <3>2, <3>3
  <2> QED BY <2>1, <2>8 DEF AnsweredAll, Announced
<1> QED BY <1>1, <1>2, <1>3, <1>4, StillComplete

LEMMA CompleteInitially ==
  ASSUME Init
  PROVE  Complete
<1>1. \A c \in Clients : ChannelLog(c) = {}
  BY DeliveryAssumption DEF Init, ChannelLog, ChannelsOf, ToSet
<1>2. \A c \in Polling : Arrived(c) /\ AnsweredAll(c) /\ Announced(c)
  BY <1>1 DEF Init, Arrived, AnsweredAll, Announced, Missing, Polling
<1>3. \A p \in Processes : DOMAIN pipe[p] = {} /\ DOMAIN ticks[p] = {}
  BY DEF Init
<1>4. Persisted
  BY DEF Init, Persisted
<1> QED BY <1>2, <1>3, <1>4 DEF Complete

LEMMA CompleteStep ==
  ASSUME Sequential, ~Expiring, BaseInv, Sockets, OrderInv, CompleteInv, [Next]_vars, BaseInv'
  PROVE  CompleteInv'
<1>0. Types
  BY DEF BaseInv
<1>b. \A p \in Processes : Only(p)
  BY DEF Sequential, OneProcess, Only
<1>1. CASE UNCHANGED vars
  <2>1. UNCHANGED <<idOf, zset, bodies, pipe, ticks, link, inbox, mid, got, losses>>
    BY <1>1 DEF vars
  <2>2. \A c, i : ChannelLog(c)' = ChannelLog(c) /\ (Superseded(c, i)' <=> Superseded(c, i))
    BY <2>1 DEF ChannelLog, Superseded
  <2>3. \A c : Missing(c)' = Missing(c) /\ \A q : Covers(c, q)' <=> Covers(c, q)
    BY <2>1, <2>2 DEF Missing, Covers
  <2>4. \A p \in Processes : Broadcasting(p)' = Broadcasting(p)
    BY <2>1 DEF Broadcasting, SavedAt, Id
  <2>5. Persisted' <=> Persisted
    BY <2>1 DEF Persisted
  <2>6. \A c : Arrived(c)' <=> Arrived(c)
    BY <2>1, <2>2 DEF Arrived
  <2>7. \A c : AnsweredAll(c)' <=> AnsweredAll(c)
    BY <2>1, <2>3 DEF AnsweredAll
  <2>8. \A c : Announced(c)' <=> Announced(c)
    BY <2>1, <2>3, <2>4 DEF Announced
  <2>9. \A p, k : ReadAll(p, k)' <=> ReadAll(p, k)
    BY <2>1, <2>2, <2>3 DEF ReadAll, SavedAt, Id
  <2>10. \A p, k : AskedAll(p, k)' <=> AskedAll(p, k)
    BY <2>1, <2>3 DEF AskedAll
  <2>11. \A p, k : PutOffAll(p, k)' <=> PutOffAll(p, k)
    BY <2>1, <2>3 DEF PutOffAll
  <2>12. Complete' <=> Complete
    BY <2>1, <2>5, <2>6, <2>7, <2>8, <2>9, <2>10, <2>11 DEF Complete
  <2> QED BY <2>1, <2>12 DEF CompleteInv
<1> SUFFICES ASSUME Next, losses' = 0 PROVE Complete'
  BY <1>1 DEF CompleteInv
<1>2. ASSUME NEW p \in Processes, ConnectionLost(p) PROVE FALSE
  <2>1. losses \in Nat /\ losses' = losses + 1
    BY <1>0, <1>2, LostForm DEF Types
  <2> QED BY <2>1
<1>3. \/ losses = 0 \/ \E p \in Processes : ConnectionLost(p)
      \/ \E p, q \in Processes : RelayLost(p, q)
  BY DEF Next, Execute, Reply, IncrReplied, StartDateReplied, Saved, TTLReplied, ExpireReplied,
         RangeReplied, MessagesReplied, Tick, Relayed, Publish, Connect, PollTimeout, Receive,
         Break, SendBuffer, Ping, Pong, MessageExpires, ChannelExpires, bounds
<1>a. ASSUME NEW p \in Processes, NEW q \in Processes, RelayLost(p, q) PROVE FALSE
  BY <1>0, <1>a, <1>b, RelayLostForm DEF OrderInv, Alone, Only
<1>4. Complete
  BY <1>2, <1>3, <1>a DEF CompleteInv
<1>5. ASSUME NEW p \in Processes, Execute(p) PROVE Complete'
  BY <1>4, <1>5, <1>b, ExecuteComplete
<1>6. ASSUME NEW p \in Processes, Reply(p) PROVE Complete'
  <2>1. CASE IncrReplied(p)
    BY <1>4, <1>b, <2>1, IncrComplete
  <2>2. CASE StartDateReplied(p)
    <3>1. pipe[p] # <<>> /\ pipe[p][1].op = "startdate"
      BY <1>0, <2>2, StartDateForm
    <3>2. 1 \in DOMAIN pipe[p]
      BY <1>0, <3>1, HeadFacts
    <3> QED BY <3>1, <3>2 DEF OrderInv, Queued
  <2>3. CASE Saved(p)
    BY <1>4, <1>b, <2>3, SavedComplete
  <2>4. CASE TTLReplied(p)
    BY <1>4, <1>b, <2>4, TTLComplete
  <2>5. CASE ExpireReplied(p)
    BY <1>4, <1>b, <2>5, ExpireComplete
  <2>6. CASE RangeReplied(p)
    BY <1>4, <1>b, <2>6, RangeComplete
  <2>7. CASE MessagesReplied(p)
    BY <1>4, <1>b, <2>7, MessagesComplete
  <2> QED BY <1>6, <2>1, <2>2, <2>3, <2>4, <2>5, <2>6, <2>7 DEF Reply
<1>7. ASSUME NEW p \in Processes, Tick(p) PROVE Complete'
  BY <1>4, <1>7, <1>b, TickComplete
<1>8. ASSUME NEW p \in Processes, NEW q \in Processes, Relayed(p, q) PROVE Complete'
  BY <1>0, <1>8, <1>b, RelayedForm DEF OrderInv, Alone, Only
<1>9. ASSUME NEW m \in Messages, NEW p \in Processes, Publish(m, p) PROVE Complete'
  BY <1>4, <1>9, <1>b, PublishComplete
<1>10. ASSUME NEW c \in Clients, NEW p \in Processes, Connect(c, p) PROVE Complete'
  BY <1>4, <1>10, <1>b, ConnectComplete
<1>11. ASSUME NEW c \in Clients, PollTimeout(c) \/ Receive(c) PROVE Complete'
  BY <1>4, <1>11, TimeoutComplete, ReceiveComplete
<1>12. ASSUME NEW c \in Clients, Break(c) \/ SendBuffer(c) \/ Ping(c) \/ Pong(c) PROVE Complete'
  <2>1. PICK n \in Nat : Cut(c, n)
    BY <1>0, <1>12, CutForm
  <2> QED BY <1>4, <2>1, CutComplete
<1>13. CASE MessageExpires \/ ChannelExpires
  BY <1>13 DEF MessageExpires, ChannelExpires
<1> QED BY <1>2, <1>5, <1>6, <1>7, <1>8, <1>9, <1>10, <1>11, <1>12, <1>13, <1>a DEF Next

LEMMA CompleteAlways == Sequential /\ ~Expiring => (Spec => []CompleteInv)
<1> SUFFICES ASSUME Sequential, ~Expiring PROVE Spec => []CompleteInv
  OBVIOUS
<1>1. Init => CompleteInv
  BY CompleteInitially DEF CompleteInv
<1>2. BaseInv /\ BaseInv' /\ Sockets /\ OrderInv /\ CompleteInv /\ [Next]_vars => CompleteInv'
  BY CompleteStep
<1> QED BY <1>1, <1>2, BaseAlways, OrderAlways, PTL DEF Spec

(***************************************************************************)
(* In one process that knows the start date, with everything stored and    *)
(* nothing expiring: a polling client that got a message has every earlier *)
(* one of its channels, unless a replay was full of newer ones - as long   *)
(* as the process has not lost its connection to Redis.                    *)
(***************************************************************************)
THEOREM NothingIsSkipped == Sequential /\ ~Expiring => (Spec => []NothingSkipped)
<1> SUFFICES ASSUME Sequential, ~Expiring PROVE Spec => []NothingSkipped
  OBVIOUS
<1>1. CompleteInv => NothingSkipped
  BY DEF CompleteInv, Complete, Arrived, NothingSkipped, Skipped
<1> QED BY <1>1, CompleteAlways, PTL

-----------------------------------------------------------------------------
(***************************************************************************)
(* Integrity, in any number of processes, with any faults and whatever     *)
(* expires: what a client reads, is asked to be sent and gets are messages *)
(* to its channels.                                                        *)
(***************************************************************************)
Own(c) == {idOf[m] : m \in {n \in Messages : idOf[n] # 0 /\ Copies(n, c) > 0}}

OnlyOwn == \A c \in Clients : ToSet(got[c]) \subseteq Own(c)

OwnRequest(r) ==
  /\ r.op = "range" => \A k \in DOMAIN r.reply : r.reply[k] \subseteq Own(r.who)
  /\ r.op = "mget" => ToSet(r.args) \subseteq Own(r.who) /\ ToSet(r.reply) \subseteq Own(r.who)

OwnTick(t) == t.op = "loaded" => ToSet(t.args) \subseteq Own(t.who)

OwnQueues ==
  \A p \in Processes : /\ \A i \in DOMAIN pipe[p] : OwnRequest(pipe[p][i])
                       /\ \A i \in DOMAIN ticks[p] : OwnTick(ticks[p][i])

OwnEnds ==
  \A c \in Clients : ToSet(inbox[c]) \subseteq Own(c) /\ ToSet(got[c]) \subseteq Own(c)

OwnInv == Addressed /\ OwnQueues /\ OwnEnds

(* A client subscribes to a channel of the message. *)
LEMMA CopiesOfChannel ==
  ASSUME NEW m \in Messages, NEW c \in Clients, NEW ch, ch \in ToSet(To[m]),
         ch \in ToSet(Subscribed[c])
  PROVE  Copies(m, c) > 0
<1> DEFINE K == {k \in DOMAIN To[m] : To[m][k] \in ToSet(Subscribed[c])}
<1>1. K # {}
  BY DEF ToSet
<1>2. To[m] \in Seq(Channels)
  BY DeliveryAssumption
<1>3. IsFiniteSet(K)
  <2>1. DOMAIN To[m] = 1..Len(To[m]) /\ Len(To[m]) \in Nat
    BY <1>2
  <2>2. IsFiniteSet(1..Len(To[m]))
    BY <2>1, FS_Interval
  <2> QED BY <2>1, <2>2, FS_Subset
<1> HIDE DEF K
<1>4. Cardinality(K) \in Nat /\ Cardinality(K) # 0
  BY <1>1, <1>3, FS_CardinalityType, FS_EmptySet
<1> QED BY <1>4 DEF Copies, K

LEMMA OwnOf ==
  ASSUME NEW m \in Messages, NEW c \in Clients, idOf[m] # 0, Copies(m, c) > 0
  PROVE  idOf[m] \in Own(c)
BY DEF Own

(* What a channel of the client holds is its own. *)
LEMMA OwnOfChannel ==
  ASSUME Types, Addressed, NEW c \in Clients, NEW k \in DOMAIN Subscribed[c],
         NEW z \in zset[Subscribed[c][k]]
  PROVE  z \in Own(c)
<1> DEFINE ch == Subscribed[c][k]
<1>1. Subscribed[c] \in Seq(Channels)
  BY DeliveryAssumption
<1>2. ch \in Channels /\ ch \in ToSet(Subscribed[c])
  BY <1>1 DEF ToSet
<1>3. PICK m \in Messages : idOf[m] = z /\ ch \in ToSet(To[m])
  BY <1>2 DEF Addressed
<1>4. z # 0
  <2>1. z \in Ids
    BY <1>2 DEF Types
  <2>2. Top \in Nat
    BY TopFacts
  <2> QED BY <2>1, <2>2 DEF Ids
<1> QED BY <1>2, <1>3, <1>4, CopiesOfChannel, OwnOf

LEMMA SameOwn ==
  ASSUME idOf' = idOf
  PROVE  \A c : Own(c)' = Own(c)
BY DEF Own, Copies

(* Ids that are given stay. *)
LEMMA OwnGrows ==
  ASSUME \A m \in Messages : idOf[m] # 0 => idOf'[m] = idOf[m]
  PROVE  \A c : Own(c) \subseteq Own(c)'
BY DEF Own, Copies

(***************************************************************************)
(* A step of the queues.                                                   *)
(***************************************************************************)
NewOwn(new, put) ==
  /\ \A k \in DOMAIN new : OwnRequest(new[k])
  /\ \A k \in DOMAIN put : OwnTick(put[k])

LEMMA QueueOwn ==
  ASSUME Types, OwnQueues, NEW p \in Processes, NEW d \in {0, 1}, NEW e \in {0, 1},
         NEW new, NEW put, Additions(new, put), QueueStep(p, d, new, e, put), NewOwn(new, put)
  PROVE  OwnQueues'
<1>1. \A c : Own(c)' = Own(c)
  BY SameOwn DEF QueueStep
<1>2. /\ \A q \in Processes : q # p => pipe'[q] = pipe[q] /\ ticks'[q] = ticks[q]
      /\ \A i \in DOMAIN pipe'[p] : InPipe(p, d, new, i)
      /\ \A i \in DOMAIN ticks'[p] : InTicks(p, e, put, i)
  BY QueueMoves
<1>3. ASSUME NEW q \in Processes, NEW i \in DOMAIN pipe'[q]
      PROVE  \/ \E s \in Processes : \E k \in DOMAIN pipe[s] : pipe'[q][i] = pipe[s][k]
             \/ \E k \in DOMAIN new : pipe'[q][i] = new[k]
  <2>1. CASE q = p
    BY <1>2, <2>1 DEF InPipe, Older, Fresh
  <2>2. CASE q # p
    BY <1>2, <2>2
  <2> QED BY <2>1, <2>2
<1>4. ASSUME NEW q \in Processes, NEW i \in DOMAIN ticks'[q]
      PROVE  \/ \E s \in Processes : \E k \in DOMAIN ticks[s] : ticks'[q][i] = ticks[s][k]
             \/ \E k \in DOMAIN put : ticks'[q][i] = put[k]
  <2>1. CASE q = p
    BY <1>2, <2>1 DEF InTicks, Older, Fresh
  <2>2. CASE q # p
    BY <1>2, <2>2
  <2> QED BY <2>1, <2>2
<1>5. ASSUME NEW q \in Processes, NEW i \in DOMAIN pipe'[q]
      PROVE  OwnRequest(pipe[q][i])'
  <2>1. PICK r : r = pipe'[q][i] /\ OwnRequest(r)
    BY <1>3 DEF OwnQueues, NewOwn
  <2> QED BY <1>1, <2>1 DEF OwnRequest
<1>6. ASSUME NEW q \in Processes, NEW i \in DOMAIN ticks'[q]
      PROVE  OwnTick(ticks[q][i])'
  <2>1. PICK t : t = ticks'[q][i] /\ OwnTick(t)
    BY <1>4 DEF OwnQueues, NewOwn
  <2> QED BY <1>1, <2>1 DEF OwnTick
<1> QED BY <1>5, <1>6 DEF OwnQueues

LEMMA QuietOwn ==
  ASSUME Types, OwnInv, NEW p \in Processes, NEW d \in {0, 1}, NEW new, NEW put,
         Additions(new, put), QueueStep(p, d, new, 0, put), NewOwn(new, put),
         UNCHANGED <<Store, inbox, got>>
  PROVE  OwnInv'
<1>1. OwnQueues'
  BY QueueOwn DEF OwnInv
<1>2. (\A c : Own(c)' = Own(c)) /\ idOf' = idOf
  BY SameOwn DEF QueueStep
<1>3. Addressed' /\ OwnEnds'
  BY <1>2 DEF OwnInv, Addressed, OwnEnds, Store
<1> QED BY <1>1, <1>3 DEF OwnInv

(***************************************************************************)
(* A broadcast and a replay.                                               *)
(***************************************************************************)
LEMMA ServedOwn ==
  ASSUME Types, OwnEnds, NEW p \in Processes, NEW m \in Messages, idOf[m] # 0,
         Served(p, m), idOf' = idOf
  PROVE  OwnEnds'
<1>1. \A c : Own(c)' = Own(c)
  BY SameOwn
<1>2. ASSUME NEW c \in Clients PROVE ToSet(inbox'[c]) \subseteq Own(c)
  <2>1. CASE c \in Hit(p, m)
    <3>1. inbox'[c] = inbox[c] \o Response(c, m) /\ Copies(m, c) > 0
      BY <2>1 DEF Served, Hit
    <3>2. inbox[c] \in Seq(Ids) /\ Response(c, m) \in Seq(Ids)
      BY ResponseFacts DEF Types
    <3>3. ToSet(inbox'[c]) = ToSet(inbox[c]) \cup ToSet(Response(c, m))
      BY <3>1, <3>2, ToSetJoined
    <3>4. ToSet(Response(c, m)) \subseteq {idOf[m]}
      BY ResponseFacts DEF ToSet
    <3>5. idOf[m] \in Own(c)
      BY <3>1, OwnOf
    <3> QED BY <3>3, <3>4, <3>5 DEF OwnEnds
  <2>2. CASE c \notin Hit(p, m)
    BY <2>2 DEF Served, OwnEnds
  <2> QED BY <2>1, <2>2
<1> QED BY <1>1, <1>2 DEF OwnEnds, Served

LEMMA ToldOwn ==
  ASSUME Types, OwnEnds, NEW c \in Clients, NEW ids \in Seq(Ids), ToSet(ids) \subseteq Own(c),
         Told(c, ids), idOf' = idOf
  PROVE  OwnEnds'
<1>1. \A b : Own(b)' = Own(b)
  BY SameOwn
<1>2. inbox[c] \in Seq(Ids)
  BY DEF Types
<1>3. ToSet(inbox[c] \o ids) = ToSet(inbox[c]) \cup ToSet(ids)
  BY <1>2, ToSetJoined
<1>4. /\ inbox'[c] = inbox[c] \o ids
      /\ \A b \in Clients : b # c => inbox'[b] = inbox[b]
      /\ got' = got
  BY DEF Told, Types
<1>5. ASSUME NEW b \in Clients PROVE ToSet(inbox'[b]) \subseteq Own(b)
  <2>1. CASE b = c
    BY <1>3, <1>4, <2>1 DEF OwnEnds
  <2>2. CASE b # c
    BY <1>4, <2>2 DEF OwnEnds
  <2> QED BY <2>1, <2>2
<1> QED BY <1>1, <1>4, <1>5 DEF OwnEnds

LEMMA StepOwn ==
  ASSUME Types, OwnInv, NEW p \in Processes, NEW d \in {0, 1}, NEW e \in {0, 1},
         QueueStep(p, d, <<>>, e, <<>>), UNCHANGED Store, OwnEnds'
  PROVE  OwnInv'
<1>1. Additions(<<>>, <<>>) /\ NewOwn(<<>>, <<>>)
  BY DEF Additions, NewOwn
<1>2. OwnQueues'
  BY <1>1, QueueOwn DEF OwnInv
<1>3. Addressed'
  BY DEF OwnInv, Addressed, Store, QueueStep
<1> QED BY <1>2, <1>3 DEF OwnInv

-----------------------------------------------------------------------------
(***************************************************************************)
(* Integrity, action by action.                                            *)
(***************************************************************************)
(* Requests and callbacks that carry no ids. *)
LEMMA PlainOwn ==
  /\ \A op, who : op \notin {"range", "mget"} => OwnRequest(Request(op, who, <<>>))
  /\ \A who : OwnTick([op |-> "saved", who |-> who, args |-> <<>>])
BY DEF OwnRequest, OwnTick, Request

LEMMA IdGivenOwn ==
  ASSUME BaseInv, OwnInv, NEW p \in Processes, IdGiven(p, pipe[p][1].who), UNCHANGED Store,
         pipe[p] # <<>>, pipe[p][1].op \in {"incr", "startdate"}, pipe[p][1].done
  PROVE  OwnInv'
<1> DEFINE r == pipe[p][1]
           m == r.who
<1>0. Types
  BY DEF BaseInv
<1>1. r \in RequestType /\ 1 \in DOMAIN pipe[p]
  BY <1>0, HeadFacts
<1>2. m \in Messages
  BY <1>1 DEF RequestType, MessageOps
<1>3. idOf[m] # 0
  BY <1>1 DEF BaseInv, Drawing, Draws, HasDrawn, MessageOps
<1>4. ASSUME NEW op \in {"save", "startdate"}, UNCHANGED <<Ends, relay>>,
             QueueStep(p, 1, <<Request(op, m, <<>>)>>, 0, <<>>)
      PROVE  OwnInv'
  <2> DEFINE x == Request(op, m, <<>>)
  <2>1. x \in RequestType
    BY <1>0, <1>2, RequestFacts DEF MessageOps
  <2>2. OwnRequest(x)
    BY PlainOwn
  <2> HIDE DEF x
  <2>3. Additions(<<x>>, <<>>) /\ NewOwn(<<x>>, <<>>)
    BY <2>1, <2>2, OneEntry DEF Additions, NewOwn
  <2> QED BY <1>0, <1>4, <2>3, QuietOwn DEF Ends, x
<1>5. ASSUME QueueStep(p, 1, <<>>, 0, <<>>), Broadcasts(p, m) PROVE OwnInv'
  <2>1. OwnEnds'
    BY <1>0, <1>2, <1>3, <1>5, ServedOwn DEF OwnInv, Broadcasts, QueueStep
  <2> QED BY <1>0, <1>5, <2>1, StepOwn
<1> QED BY <1>4, <1>5 DEF IdGiven

LEMMA SavedOwn ==
  ASSUME BaseInv, OwnInv, NEW p \in Processes, Saved(p)
  PROVE  OwnInv'
<1> DEFINE m == pipe[p][1].who
           x == Request("ttl", m, <<>>)
           t == [op |-> "saved", who |-> m, args |-> <<>>]
<1>0. Types
  BY DEF BaseInv
<1>1. /\ pipe[p] # <<>> /\ pipe[p][1].op = "save"
      /\ QueueStep(p, 1, <<x>>, 0, <<t>>)
      /\ UNCHANGED <<Store, Ends, startDate, relay, bounds>>
  BY <1>0, SavedForm
<1>2. m \in Messages
  <2>1. pipe[p][1] \in RequestType
    BY <1>0, <1>1, HeadFacts
  <2> QED BY <1>1, <2>1 DEF RequestType, MessageOps
<1>3. x \in RequestType /\ t \in TickType /\ OwnRequest(x) /\ OwnTick(t)
  BY <1>0, <1>2, RequestFacts, PlainOwn DEF MessageOps
<1> HIDE DEF x, t
<1>4. Additions(<<x>>, <<t>>)
  BY <1>3 DEF Additions
<1>5. /\ \A k \in DOMAIN <<x>> : k = 1 /\ <<x>>[k] = x
      /\ \A k \in DOMAIN <<t>> : k = 1 /\ <<t>>[k] = t
  BY OneEntry
<1>6. NewOwn(<<x>>, <<t>>)
  BY <1>3, <1>5 DEF NewOwn
<1> QED BY <1>0, <1>1, <1>4, <1>6, QuietOwn DEF Ends

LEMMA TTLOwn ==
  ASSUME BaseInv, OwnInv, NEW p \in Processes, TTLReplied(p)
  PROVE  OwnInv'
<1> DEFINE chs == pipe[p][1].reply
           new == [k \in DOMAIN chs |-> Request("expire", chs[k], <<>>)]
<1>0. Types
  BY DEF BaseInv
<1>1. /\ pipe[p] # <<>> /\ pipe[p][1].op = "ttl"
      /\ QueueStep(p, 1, new, 0, <<>>)
      /\ UNCHANGED <<Store, Ends, startDate, relay, bounds>>
  BY <1>0, TTLForm
<1>2. chs \in Seq(Channels)
  <2>1. pipe[p][1] \in RequestType
    BY <1>0, <1>1, HeadFacts
  <2> QED BY <1>1, <2>1 DEF RequestType, MessageOps
<1>3. new \in Seq(RequestType) /\ \A k \in DOMAIN new : OwnRequest(new[k])
  BY <1>0, <1>2, ExpiresTyped, PlainOwn
<1> HIDE DEF new
<1>4. Additions(new, <<>>) /\ NewOwn(new, <<>>)
  BY <1>3 DEF Additions, NewOwn
<1> QED BY <1>0, <1>1, <1>4, QuietOwn DEF Ends

LEMMA ExpireOwn ==
  ASSUME BaseInv, OwnInv, NEW p \in Processes, ExpireReplied(p)
  PROVE  OwnInv'
<1>0. Types
  BY DEF BaseInv
<1>1. /\ QueueStep(p, 1, <<>>, 0, <<>>)
      /\ UNCHANGED <<Store, Ends, startDate, relay, bounds>>
  BY <1>0, ExpireForm
<1>2. Additions(<<>>, <<>>) /\ NewOwn(<<>>, <<>>)
  BY DEF Additions, NewOwn
<1> QED BY <1>0, <1>1, <1>2, QuietOwn DEF Ends

LEMMA RangeOwn ==
  ASSUME BaseInv, OwnInv, NEW p \in Processes, RangeReplied(p)
  PROVE  OwnInv'
<1> DEFINE r == pipe[p][1]
           c == r.who
           ids == LastOnes(Sorted(r.reply), ReplayLimit)
           n == Len(r.reply)
           x == Request("mget", c, ids)
<1>0. Types
  BY DEF BaseInv
<1>1. /\ pipe[p] # <<>> /\ r.op = "range"
      /\ UNCHANGED <<Store, startDate, relay, bounds>>
      /\ \/ /\ ids # <<>>
            /\ QueueStep(p, 1, <<x>>, 0, <<>>) /\ UNCHANGED Ends
         \/ /\ ids = <<>>
            /\ QueueStep(p, 1, <<>>, 0, <<>>) /\ Told(c, <<>>)
  BY <1>0, RangeForm
<1>2. c \in Clients /\ r.reply \in Seq(SUBSET Ids) /\ 1 \in DOMAIN pipe[p]
  BY <1>0, <1>1, LoadFacts, HeadFacts DEF LoadOps
<1>3. \A k \in DOMAIN r.reply : r.reply[k] \subseteq Own(c)
  BY <1>1, <1>2 DEF OwnInv, OwnQueues, OwnRequest
<1>4. /\ r.reply \in [1..n -> SUBSET (1..Top)] /\ DOMAIN r.reply = 1..n
      /\ Top \in Nat /\ n \in Nat /\ ReplayLimit \in Nat
  BY <1>0, <1>2, TopFacts, DeliveryAssumption DEF Ids
<1> HIDE DEF n, r, c
<1>5. /\ Sorted(r.reply) \in Seq(1..Top)
      /\ ToSet(Sorted(r.reply)) = UNION {r.reply[k] : k \in 1..n}
  BY <1>4, SortedFacts
<1>6. ids \in Seq(1..Top) /\ ToSet(ids) \subseteq ToSet(Sorted(r.reply))
  BY <1>4, <1>5, LastOnesFacts
<1> HIDE DEF ids
<1>7. ToSet(ids) \subseteq Own(c) /\ ids \in Seq(Ids)
  BY <1>3, <1>4, <1>5, <1>6 DEF Ids
<1>8. CASE ids # <<>>
  <2>1. QueueStep(p, 1, <<x>>, 0, <<>>) /\ UNCHANGED <<Store, Ends>>
    BY <1>1, <1>8
  <2>2. x \in RequestType
    BY <1>0, <1>2, <1>7, RequestFacts
  <2>3. x.op = "mget" /\ x.who = c /\ x.args = ids /\ x.reply = <<>>
    BY DEF Request
  <2> HIDE DEF x
  <2>4. OwnRequest(x)
    BY <1>7, <2>3 DEF OwnRequest, ToSet
  <2>5. Additions(<<x>>, <<>>) /\ NewOwn(<<x>>, <<>>)
    BY <2>2, <2>4, OneEntry DEF Additions, NewOwn
  <2> QED BY <1>0, <2>1, <2>5, QuietOwn DEF Ends
<1>9. CASE ids = <<>>
  <2>1. QueueStep(p, 1, <<>>, 0, <<>>) /\ Told(c, <<>>)
    BY <1>1, <1>9
  <2>2. <<>> \in Seq(Ids) /\ ToSet(<<>>) = {}
    BY DEF ToSet
  <2>3. OwnEnds'
    BY <1>0, <1>2, <2>1, <2>2, ToldOwn DEF OwnInv, QueueStep
  <2> QED BY <1>0, <1>1, <2>1, <2>3, StepOwn
<1> QED BY <1>8, <1>9

LEMMA MessagesOwn ==
  ASSUME BaseInv, OwnInv, NEW p \in Processes, MessagesReplied(p)
  PROVE  OwnInv'
<1> DEFINE c == pipe[p][1].who
           ids == pipe[p][1].reply
           t == [op |-> "loaded", who |-> c, args |-> ids]
<1>0. Types
  BY DEF BaseInv
<1>1. /\ pipe[p] # <<>> /\ pipe[p][1].op = "mget"
      /\ QueueStep(p, 1, <<>>, 0, <<t>>)
      /\ UNCHANGED <<Store, Ends, startDate, relay, bounds>>
  BY <1>0, MessagesForm
<1>2. c \in Clients /\ ids \in Seq(Ids) /\ 1 \in DOMAIN pipe[p]
  BY <1>0, <1>1, LoadFacts, HeadFacts DEF LoadOps
<1>3. ToSet(ids) \subseteq Own(c)
  BY <1>1, <1>2 DEF OwnInv, OwnQueues, OwnRequest
<1>4. t \in TickType /\ OwnTick(t)
  BY <1>0, <1>2, <1>3, RequestFacts DEF OwnTick
<1> HIDE DEF t
<1>5. Additions(<<>>, <<t>>) /\ NewOwn(<<>>, <<t>>)
  BY <1>4, OneEntry DEF Additions, NewOwn
<1> QED BY <1>0, <1>1, <1>5, QuietOwn DEF Ends

LEMMA TickOwn ==
  ASSUME BaseInv, OwnInv, NEW p \in Processes, Tick(p)
  PROVE  OwnInv'
<1> DEFINE t == ticks[p][1]
<1>0. Types
  BY DEF BaseInv
<1>1. /\ ticks[p] # <<>> /\ QueueStep(p, 0, <<>>, 1, <<>>)
      /\ UNCHANGED <<Store, startDate, bounds>>
      /\ \/ t.op = "saved" /\ Broadcasts(p, t.who)
         \/ t.op = "loaded" /\ Told(t.who, t.args) /\ UNCHANGED relay
  BY <1>0, TickForm
<1>2. t \in TickType /\ 1 \in DOMAIN ticks[p]
  BY <1>0, <1>1 DEF Types
<1>3. CASE t.op = "saved"
  <2>1. t.who \in Messages /\ idOf[t.who] # 0 /\ Broadcasts(p, t.who)
    BY <1>1, <1>2, <1>3 DEF TickType, BaseInv, Drawing
  <2>2. OwnEnds'
    BY <1>0, <1>1, <2>1, ServedOwn DEF OwnInv, Broadcasts, QueueStep
  <2> QED BY <1>0, <1>1, <2>2, StepOwn
<1>4. CASE t.op = "loaded"
  <2>1. t.who \in Clients /\ t.args \in Seq(Ids) /\ Told(t.who, t.args)
    BY <1>1, <1>2, <1>4 DEF TickType
  <2>2. ToSet(t.args) \subseteq Own(t.who)
    BY <1>2, <1>4 DEF OwnInv, OwnQueues, OwnTick
  <2>3. OwnEnds'
    BY <1>0, <1>1, <2>1, <2>2, ToldOwn DEF OwnInv, QueueStep
  <2> QED BY <1>0, <1>1, <2>3, StepOwn
<1> QED BY <1>1, <1>3, <1>4

LEMMA PublishOwn ==
  ASSUME BaseInv, OwnInv, NEW m \in Messages, NEW p \in Processes, Publish(m, p)
  PROVE  OwnInv'
<1> DEFINE x == Request("incr", m, <<>>)
<1>0. Types
  BY DEF BaseInv
<1>1. /\ QueueStep(p, 0, <<x>>, 0, <<>>)
      /\ UNCHANGED <<Store, Ends, startDate, relay, losses, breaks>>
  BY <1>0, PublishForm
<1>2. x \in RequestType /\ OwnRequest(x)
  BY <1>0, RequestFacts, PlainOwn DEF MessageOps
<1> HIDE DEF x
<1>3. Additions(<<x>>, <<>>) /\ NewOwn(<<x>>, <<>>)
  BY <1>2, OneEntry DEF Additions, NewOwn
<1> QED BY <1>0, <1>1, <1>3, QuietOwn DEF Ends

LEMMA ConnectOwn ==
  ASSUME BaseInv, OwnInv, NEW c \in Clients, NEW p \in Processes, Connect(c, p)
  PROVE  OwnInv'
<1> DEFINE x == Request("range", c, <<mid[c]>>)
<1>0. Types
  BY DEF BaseInv
<1>1. /\ QueueStep(p, 0, <<x>>, 0, <<>>)
      /\ UNCHANGED <<Store, inbox, mid, got, startDate, relay, bounds>>
  BY <1>0, ConnectForm
<1>2. x \in RequestType
  BY <1>0, RequestFacts
<1>3. x.op = "range" /\ x.reply = <<>>
  BY DEF Request
<1> HIDE DEF x
<1>4. OwnRequest(x)
  BY <1>3 DEF OwnRequest
<1>5. Additions(<<x>>, <<>>) /\ NewOwn(<<x>>, <<>>)
  BY <1>2, <1>4, OneEntry DEF Additions, NewOwn
<1> QED BY <1>0, <1>1, <1>5, QuietOwn

LEMMA RelayedOwn ==
  ASSUME BaseInv, OwnInv, NEW p \in Processes, NEW q \in Processes, Relayed(p, q)
  PROVE  OwnInv'
<1> DEFINE m == relay[p][q][1]
<1>0. Types
  BY DEF BaseInv
<1>1. /\ relay[p][q] # <<>> /\ Served(q, m)
      /\ UNCHANGED <<idOf, pipe, ticks, Store, startDate, bounds>>
  BY <1>0, RelayedForm
<1>2. 1 \in DOMAIN relay[p][q] /\ m \in Messages
  BY <1>0, <1>1 DEF Types
<1>3. idOf[m] # 0
  BY <1>2 DEF BaseInv, Relaying
<1>4. OwnEnds'
  BY <1>0, <1>1, <1>2, <1>3, ServedOwn DEF OwnInv
<1>5. QueueStep(q, 0, <<>>, 0, <<>>)
  BY <1>0, <1>1, PipeForms, TickForms DEF QueueStep
<1> QED BY <1>0, <1>1, <1>4, <1>5, StepOwn

(* The ends of the connections move, and bring nothing new. *)
LEMMA StillOwn ==
  ASSUME OwnInv, Still,
         \A c \in Clients : /\ ToSet(inbox'[c]) \subseteq ToSet(inbox[c])
                            /\ ToSet(got'[c]) \subseteq ToSet(inbox[c]) \cup ToSet(got[c])
  PROVE  OwnInv'
<1>1. (\A c : Own(c)' = Own(c)) /\ idOf' = idOf /\ zset' = zset /\ pipe' = pipe /\ ticks' = ticks
  BY SameOwn DEF Still, Store
<1>2. Addressed'
  BY <1>1 DEF OwnInv, Addressed
<1>3. OwnQueues'
  BY <1>1 DEF OwnInv, OwnQueues, OwnRequest, OwnTick
<1>4. OwnEnds'
  BY <1>1 DEF OwnInv, OwnEnds
<1> QED BY <1>2, <1>3, <1>4 DEF OwnInv

LEMMA PartsOf ==
  ASSUME NEW S, NEW q \in Seq(S), NEW n \in 1..Len(q)
  PROVE  /\ SubSeq(q, 1, n) \in Seq(S)
         /\ ToSet(SubSeq(q, 1, n)) \subseteq ToSet(q)
         /\ ToSet(SubSeq(q, n + 1, Len(q))) \subseteq ToSet(q)
<1> DEFINE x == SubSeq(q, 1, n)
           y == SubSeq(q, n + 1, Len(q))
<1>1. /\ x \in Seq(S) /\ y \in Seq(S)
      /\ \A i \in DOMAIN x : i \in DOMAIN q /\ x[i] = q[i]
      /\ \A i \in DOMAIN y : i + n \in DOMAIN q /\ y[i] = q[i + n]
  OBVIOUS
<1> HIDE DEF x, y
<1>2. ToSet(x) \subseteq ToSet(q) /\ ToSet(y) \subseteq ToSet(q)
  BY <1>1 DEF ToSet
<1> QED BY <1>1, <1>2 DEF x, y

LEMMA ReceiveOwn ==
  ASSUME BaseInv, OwnInv, Sockets, NEW c \in Clients, Receive(c)
  PROVE  OwnInv'
<1> DEFINE q == inbox[c]
           n == IF c \in Websockets THEN 1 ELSE Len(q)
<1>0. Types
  BY DEF BaseInv
<1>1. /\ q # <<>> /\ Still
      /\ got' = [got EXCEPT ![c] = @ \o SubSeq(q, 1, n)]
      /\ inbox' = [inbox EXCEPT ![c] = SubSeq(@, n + 1, Len(@))]
  BY <1>0, ReceiveForm
<1>2. q \in Seq(Ids) /\ got[c] \in Seq(Ids) /\ Len(q) \in Nat /\ n \in 1..Len(q)
  BY <1>0, <1>1 DEF Types
<1>3. /\ inbox'[c] = SubSeq(q, n + 1, Len(q)) /\ got'[c] = got[c] \o SubSeq(q, 1, n)
      /\ \A b \in Clients : b # c => inbox'[b] = inbox[b] /\ got'[b] = got[b]
  BY <1>0, <1>1 DEF Types
<1>4. q = inbox[c]
  OBVIOUS
<1> HIDE DEF q, n
<1>5. /\ SubSeq(q, 1, n) \in Seq(Ids)
      /\ ToSet(SubSeq(q, 1, n)) \subseteq ToSet(q)
      /\ ToSet(SubSeq(q, n + 1, Len(q))) \subseteq ToSet(q)
  BY <1>2, PartsOf
<1>6. ToSet(got'[c]) = ToSet(got[c]) \cup ToSet(SubSeq(q, 1, n))
  <2>1. got[c] \in Seq(Ids) /\ SubSeq(q, 1, n) \in Seq(Ids)
    BY <1>2, <1>5
  <2>2. ToSet(got[c] \o SubSeq(q, 1, n)) = ToSet(got[c]) \cup ToSet(SubSeq(q, 1, n))
    BY <2>1, ToSetJoined, Zenon
  <2> QED BY <1>3, <2>2
<1>7. ASSUME NEW b \in Clients
      PROVE  /\ ToSet(inbox'[b]) \subseteq ToSet(inbox[b])
             /\ ToSet(got'[b]) \subseteq ToSet(inbox[b]) \cup ToSet(got[b])
  <2>1. CASE b = c
    BY <1>3, <1>4, <1>5, <1>6, <2>1
  <2>2. CASE b # c
    BY <1>3, <2>2
  <2> QED BY <2>1, <2>2
<1> QED BY <1>1, <1>7, StillOwn

LEMMA TimeoutOwn ==
  ASSUME BaseInv, OwnInv, NEW c \in Clients, PollTimeout(c)
  PROVE  OwnInv'
<1>1. Still /\ UNCHANGED <<inbox, got>>
  BY TimeoutForm DEF BaseInv
<1> QED BY <1>1, StillOwn

LEMMA CutOwn ==
  ASSUME BaseInv, OwnInv, NEW c \in Clients, NEW n \in Nat, Cut(c, n)
  PROVE  OwnInv'
<1>0. Types
  BY DEF BaseInv
<1>1. /\ Still /\ got' = got /\ n \in 0..Len(inbox[c])
      /\ inbox'[c] = SubSeq(inbox[c], 1, n)
      /\ \A b \in Clients : b # c => inbox'[b] = inbox[b]
  BY <1>0, CutFacts DEF Cut
<1>2. \A i \in DOMAIN inbox'[c] : i \in DOMAIN inbox[c] /\ inbox'[c][i] = inbox[c][i]
  <2>1. inbox[c] \in Seq(Ids)
    BY <1>0 DEF Types
  <2> QED BY <1>1, <2>1
<1>3. ToSet(inbox'[c]) \subseteq ToSet(inbox[c])
  BY <1>2 DEF ToSet
<1>4. \A b \in Clients : /\ ToSet(inbox'[b]) \subseteq ToSet(inbox[b])
                         /\ ToSet(got'[b]) \subseteq ToSet(inbox[b]) \cup ToSet(got[b])
  BY <1>1, <1>3
<1> QED BY <1>1, <1>4, StillOwn

LEMMA RelayLostOwn ==
  ASSUME BaseInv, OwnInv, NEW p \in Processes, NEW q \in Processes, RelayLost(p, q)
  PROVE  OwnInv'
<1>0. Types
  BY DEF BaseInv
<1>1. UNCHANGED <<idOf, Store, pipe, ticks, inbox, got>>
  BY <1>0, RelayLostForm
<1>2. \A c : Own(c)' = Own(c)
  BY <1>1, SameOwn
<1>3. OwnEnds'
  BY <1>1, <1>2 DEF OwnInv, OwnEnds
<1>4. QueueStep(q, 0, <<>>, 0, <<>>)
  BY <1>0, <1>1, PipeForms, TickForms DEF QueueStep
<1> QED BY <1>0, <1>1, <1>3, <1>4, StepOwn

LEMMA LostOwn ==
  ASSUME BaseInv, OwnInv, NEW p \in Processes, ConnectionLost(p)
  PROVE  OwnInv'
<1>0. Types
  BY DEF BaseInv
<1>1. /\ pipe' = [pipe EXCEPT ![p] = <<>>]
      /\ UNCHANGED <<idOf, Store, ticks, inbox, got>>
  BY <1>0, LostForm
<1>2. \A q \in Processes : \A i \in DOMAIN pipe'[q] : q # p /\ pipe'[q] = pipe[q]
  BY <1>0, <1>1 DEF Types
<1>3. \A c : Own(c)' = Own(c)
  BY <1>1, SameOwn
<1>4. Addressed'
  BY <1>1 DEF OwnInv, Addressed, Store
<1>5. OwnQueues'
  BY <1>1, <1>2, <1>3 DEF OwnInv, OwnQueues, OwnRequest, OwnTick
<1>6. OwnEnds'
  BY <1>1, <1>3 DEF OwnInv, OwnEnds
<1> QED BY <1>4, <1>5, <1>6 DEF OwnInv

LEMMA ExpiringOwn ==
  ASSUME BaseInv, OwnInv, MessageExpires \/ ChannelExpires
  PROVE  OwnInv'
<1>1. UNCHANGED <<idOf, pipe, ticks, inbox, got>>
  BY DEF MessageExpires, ChannelExpires
<1>2. \A ch \in Channels : zset'[ch] \subseteq zset[ch]
  BY DEF MessageExpires, ChannelExpires, BaseInv, Types
<1>3. \A c : Own(c)' = Own(c)
  BY <1>1, SameOwn
<1>4. Addressed'
  BY <1>1, <1>2 DEF OwnInv, Addressed
<1>5. OwnQueues'
  BY <1>1, <1>3 DEF OwnInv, OwnQueues, OwnRequest, OwnTick
<1>6. OwnEnds'
  BY <1>1, <1>3 DEF OwnInv, OwnEnds
<1> QED BY <1>4, <1>5, <1>6 DEF OwnInv

(* What Redis answers is of the channels that were asked for. *)
LEMMA AnswerOwn ==
  ASSUME Types, OwnInv, NEW r \in RequestType, OwnRequest(r)
  PROVE  OwnRequest([r EXCEPT !.done = TRUE, !.reply = Answer(r)])
<1> DEFINE b == [r EXCEPT !.done = TRUE, !.reply = Answer(r)]
<1>1. b.op = r.op /\ b.who = r.who /\ b.args = r.args /\ b.reply = Answer(r)
  BY DEF RequestType
<1>2. ASSUME r.op = "range", NEW k \in DOMAIN Answer(r)
      PROVE  Answer(r)[k] \subseteq Own(r.who)
  <2>1. r.who \in Clients
    BY <1>2 DEF RequestType, MessageOps
  <2>2. k \in DOMAIN Subscribed[r.who] /\ Answer(r)[k] \subseteq zset[Subscribed[r.who][k]]
    BY <1>2 DEF Answer, Newest
  <2> QED BY <2>1, <2>2, OwnOfChannel DEF OwnInv
<1>3. ASSUME r.op = "mget"
      PROVE  ToSet(Answer(r)) \subseteq Own(r.who) /\ ToSet(r.args) \subseteq Own(r.who)
  <2>1. r.args \in Seq(Ids)
    BY <1>3 DEF RequestType, MessageOps
  <2>2. Answer(r) = Kept(r.args, bodies)
    BY <1>3 DEF Answer
  <2>3. ToSet(Answer(r)) \subseteq ToSet(r.args)
    BY <2>1, <2>2, KeptFacts
  <2> QED BY <1>3, <2>3 DEF OwnRequest
<1> HIDE DEF b
<1>4. OwnRequest(b)
  BY <1>1, <1>2, <1>3 DEF OwnRequest
<1> QED BY <1>4 DEF b

LEMMA ExecuteOwn ==
  ASSUME BaseInv, OwnInv, NEW p \in Processes, Execute(p)
  PROVE  OwnInv'
<1>0. Types /\ Numbering
  BY DEF BaseInv
<1>1. PICK i \in DOMAIN pipe[p] : Executed(p, i)
  BY <1>0, ExecuteForm
<1> DEFINE r == pipe[p][i]
           b == [r EXCEPT !.done = TRUE, !.reply = Answer(r)]
<1>2. /\ \A j \in DOMAIN pipe[p] : pipe[p][j].done <=> j < i
      /\ pipe' = [pipe EXCEPT ![p] = [pipe[p] EXCEPT ![i] = b]]
      /\ idOf' = IF r.op = "incr" THEN [idOf EXCEPT ![r.who] = 1 + Max({idOf[m] : m \in Messages})]
                 ELSE idOf
      /\ zset' = IF r.op = "save"
                 THEN [ch \in Channels |-> IF ch \in ToSet(To[r.who])
                                           THEN zset[ch] \cup {idOf[r.who]} ELSE zset[ch]]
                 ELSE zset
      /\ ticks' = ticks /\ inbox' = inbox /\ got' = got
  BY <1>1 DEF Executed, Ends
<1>3. r \in RequestType /\ pipe[p] \in Seq(RequestType) /\ i \in Nat
  BY <1>0 DEF Types
<1>4. OwnRequest(r)
  BY DEF OwnInv, OwnQueues
<1>5. OwnRequest(b)
  BY <1>0, <1>3, <1>4, AnswerOwn
<1>6. r.op = "incr" => r.who \in Messages /\ idOf[r.who] = 0
  <2>1. ~r.done
    BY <1>2, <1>3
  <2> QED BY <1>3, <2>1 DEF RequestType, MessageOps, BaseInv, Drawing, Draws
<1>7. r.op = "save" => r.who \in Messages /\ idOf[r.who] # 0
  BY <1>3 DEF RequestType, MessageOps, BaseInv, Drawing, HasDrawn, Draws
<1> HIDE DEF b, r
<1>8. \A m \in Messages : idOf[m] # 0 => idOf'[m] = idOf[m]
  BY <1>0, <1>2, <1>6 DEF Types
<1>9. \A c : Own(c) \subseteq Own(c)'
  BY <1>8, OwnGrows
<1>10. Addressed'
  <2> SUFFICES ASSUME NEW ch \in Channels, NEW z \in zset'[ch]
               PROVE  \E m \in Messages : idOf'[m] = z /\ ch \in ToSet(To[m])
    BY DEF Addressed
  <2>1. CASE z \in zset[ch]
    <3>1. PICK m \in Messages : idOf[m] = z /\ ch \in ToSet(To[m])
      BY <2>1 DEF OwnInv, Addressed
    <3>2. z # 0
      <4>1. z \in Ids /\ Top \in Nat
        BY <1>0, <2>1, TopFacts DEF Types
      <4> QED BY <4>1 DEF Ids
    <3> QED BY <1>8, <3>1, <3>2
  <2>2. CASE z \notin zset[ch]
    <3>1. r.op = "save" /\ z = idOf[r.who] /\ ch \in ToSet(To[r.who])
      BY <1>2, <2>2
    <3> QED BY <1>7, <1>8, <3>1
  <2> QED BY <2>1, <2>2
<1>11. ASSUME NEW q \in Processes, NEW j \in DOMAIN pipe'[q]
       PROVE  OwnRequest(pipe[q][j])'
  <2>1. PICK x : x = pipe'[q][j] /\ OwnRequest(x)
    <3>1. j \in DOMAIN pipe[q] /\ (pipe'[q][j] = b \/ pipe'[q][j] = pipe[q][j])
      BY <1>0, <1>2, <1>3 DEF Types
    <3> QED BY <1>5, <3>1 DEF OwnInv, OwnQueues
  <2>2. /\ x.op = "range" => \A k \in DOMAIN x.reply : x.reply[k] \subseteq Own(x.who)'
        /\ x.op = "mget" => ToSet(x.args) \subseteq Own(x.who)' /\ ToSet(x.reply) \subseteq Own(x.who)'
    BY <1>9, <2>1 DEF OwnRequest
  <2> QED BY <2>1, <2>2 DEF OwnRequest
<1>12. ASSUME NEW q \in Processes, NEW j \in DOMAIN ticks'[q]
       PROVE  OwnTick(ticks[q][j])'
  <2>1. PICK t : t = ticks'[q][j] /\ OwnTick(t)
    BY <1>2 DEF OwnInv, OwnQueues
  <2> QED BY <1>9, <2>1 DEF OwnTick
<1>13. OwnQueues'
  BY <1>11, <1>12 DEF OwnQueues
<1>14. OwnEnds'
  BY <1>2, <1>9 DEF OwnInv, OwnEnds
<1> QED BY <1>10, <1>13, <1>14 DEF OwnInv

LEMMA OwnInitially == Init => OwnInv
<1> SUFFICES ASSUME Init PROVE OwnInv
  OBVIOUS
<1>1. ToSet(<<>>) = {}
  BY DEF ToSet
<1>2. Addressed
  BY DEF Init, Addressed
<1>3. OwnQueues
  BY DEF Init, OwnQueues
<1>4. OwnEnds
  BY <1>1 DEF Init, OwnEnds
<1> QED BY <1>2, <1>3, <1>4 DEF OwnInv

LEMMA OwnStep == BaseInv /\ Sockets /\ OwnInv /\ [Next]_vars => OwnInv'
<1> SUFFICES ASSUME BaseInv, Sockets, OwnInv, [Next]_vars PROVE OwnInv'
  OBVIOUS
<1>0. Types
  BY DEF BaseInv
<1>1. CASE UNCHANGED vars
  <2>1. Still /\ inbox' = inbox /\ got' = got
    BY <1>1 DEF vars, Still, Store
  <2> QED BY <2>1, StillOwn
<1>2. ASSUME NEW p \in Processes, Execute(p) PROVE OwnInv'
  BY <1>2, ExecuteOwn
<1>3. ASSUME NEW p \in Processes, Reply(p) PROVE OwnInv'
  <2>1. CASE IncrReplied(p)
    BY <1>0, <2>1, IncrForm, IdGivenOwn
  <2>2. CASE StartDateReplied(p)
    BY <1>0, <2>2, StartDateForm, IdGivenOwn
  <2>3. CASE Saved(p)
    BY <2>3, SavedOwn
  <2>4. CASE TTLReplied(p)
    BY <2>4, TTLOwn
  <2>5. CASE ExpireReplied(p)
    BY <2>5, ExpireOwn
  <2>6. CASE RangeReplied(p)
    BY <2>6, RangeOwn
  <2>7. CASE MessagesReplied(p)
    BY <2>7, MessagesOwn
  <2> QED BY <1>3, <2>1, <2>2, <2>3, <2>4, <2>5, <2>6, <2>7 DEF Reply
<1>4. ASSUME NEW p \in Processes, Tick(p) PROVE OwnInv'
  BY <1>4, TickOwn
<1>5. ASSUME NEW p \in Processes, ConnectionLost(p) PROVE OwnInv'
  BY <1>5, LostOwn
<1>6. ASSUME NEW p \in Processes, NEW q \in Processes, Relayed(p, q) \/ RelayLost(p, q)
      PROVE  OwnInv'
  BY <1>6, RelayedOwn, RelayLostOwn
<1>7. ASSUME NEW m \in Messages, NEW p \in Processes, Publish(m, p) PROVE OwnInv'
  BY <1>7, PublishOwn
<1>8. ASSUME NEW c \in Clients, NEW p \in Processes, Connect(c, p) PROVE OwnInv'
  BY <1>8, ConnectOwn
<1>9. ASSUME NEW c \in Clients, PollTimeout(c) \/ Receive(c) PROVE OwnInv'
  BY <1>9, TimeoutOwn, ReceiveOwn
<1>10. ASSUME NEW c \in Clients, Break(c) \/ SendBuffer(c) \/ Ping(c) \/ Pong(c) PROVE OwnInv'
  <2>1. PICK n \in Nat : Cut(c, n)
    BY <1>0, <1>10, CutForm
  <2> QED BY <2>1, CutOwn
<1>11. CASE MessageExpires \/ ChannelExpires
  BY <1>11, ExpiringOwn
<1> QED BY <1>1, <1>2, <1>3, <1>4, <1>5, <1>6, <1>7, <1>8, <1>9, <1>10, <1>11 DEF Next

(***************************************************************************)
(* Whatever the number of processes, however messages are broadcast,       *)
(* relayed, replayed or expire, and whichever connections break: a client  *)
(* gets an id only if it is that of a message with one of the client's     *)
(* channels among its receivers - in the broadcast of Adapter, in the      *)
(* relay of ClusterAdapter and in the range and MGET of the Redis storage. *)
(***************************************************************************)
THEOREM OnlyOwnIsDelivered == Spec => []OnlyOwn
<1>1. OwnInv => OnlyOwn
  BY DEF OwnInv, OwnEnds, OnlyOwn
<1> QED BY <1>1, OwnInitially, OwnStep, BaseAlways, PTL DEF Spec

=============================================================================
