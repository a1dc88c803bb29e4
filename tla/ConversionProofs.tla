-------------------------- MODULE ConversionProofs --------------------------
(***************************************************************************)
(* The time that binary subscribers read, for any processes, subscribers   *)
(* and messages, any clock and any width of a word that it fits in.        *)
(***************************************************************************)
EXTENDS Conversion, TLAPS

(***************************************************************************)
(* What a subscriber reads next rests on what the objects hold by then.    *)
(* The field of an object in a process is the second of its publication    *)
(* unless an object of the message was converted there or where it was     *)
(* published; so is the field of a message on its way to another process,  *)
(* which cannot have been converted there; and the stored copy, encoded    *)
(* before anybody was served, is right whatever was converted.             *)
(***************************************************************************)
ObjectsTellPublication ==
  \A p \in Process, m \in Message : created[p][m] # None =>
    /\ born[m] # None
    /\ created[p][m] = Created(born[m]) \/ IsConverted(p, m)

RelayTellsPublication ==
  \A q \in Process : \A i \in DOMAIN relay[q] :
    LET r == relay[q][i] IN
    /\ born[r.msg] # None
    /\ r.created = Created(born[r.msg]) \/ r.msg \in texts[origin[r.msg]]

StoredTellsPublication ==
  \A m \in Message : saved[m] # None => born[m] # None /\ saved[m] = Created(born[m])

(* Whatever waits to be sent has an object in its process. *)
WaitingHaveObjects ==
  /\ \A s \in Sub : \A m \in buffer[s] : created[Home[s]][m] # None
  /\ \A m \in saving : created[origin[m]][m] # None

Right == WrongTimeNeedsText /\ ReplayTellsPublication

ConversionInv ==
  /\ TypeOK
  /\ ObjectsTellPublication /\ RelayTellsPublication /\ StoredTellsPublication
  /\ WaitingHaveObjects
  /\ Right

-----------------------------------------------------------------------------
LEMMA Fixed32Facts ==
  /\ \A x \in Nat : Fixed32(x) \in 0..Word - 1
  /\ \A x \in 0..Word - 1 : Fixed32(x) = x
<1>1. Word \in Nat \ {0}
  BY ConversionAssumption
<1>2. ASSUME NEW x \in Nat PROVE Fixed32(x) \in 0..Word - 1
  BY <1>1 DEF Fixed32
<1>3. ASSUME NEW x \in 0..Word - 1 PROVE Fixed32(x) = x
  BY <1>1 DEF Fixed32
<1> QED BY <1>2, <1>3

(* A second of the clock is written to a fixed32 as it is. *)
LEMMA CreatedFacts ==
  ASSUME NEW t \in 0..MaxNow
  PROVE  Created(t) \in 0..Word - 1 /\ Created(t) \in Nat /\ Fixed32(Created(t)) = Created(t)
<1>1. Created(t) \in 0..Word - 1 /\ Word \in Nat
  BY ConversionAssumption DEF Created
<1> QED BY <1>1, Fixed32Facts

LEMMA Times ==
  ASSUME TypeOK
  PROVE  /\ now \in Nat /\ now \in 0..MaxNow
         /\ \A m \in Message : born[m] # None => born[m] \in 0..MaxNow
         /\ \A p \in Process, m \in Message : created[p][m] # None => created[p][m] \in Nat
BY ConversionAssumption DEF TypeOK

(***************************************************************************)
(* A message keeps the time of its publication and its process, and what   *)
(* was converted stays converted.                                          *)
(***************************************************************************)
Onward ==
  /\ \A m \in Message : born[m] # None => born'[m] = born[m]
  /\ origin' = origin
  /\ \A p \in Process : texts[p] \subseteq texts'[p]

LEMMA ConvertedStays ==
  ASSUME TypeOK, Onward, NEW p \in Process, NEW m \in Message, IsConverted(p, m)
  PROVE  IsConverted(p, m)'
<1>1. origin[m] \in Process /\ origin'[m] = origin[m]
  BY DEF TypeOK, Onward
<1> QED BY <1>1 DEF Onward, IsConverted

LEMMA RelayStays ==
  ASSUME TypeOK, RelayTellsPublication, Onward, NEW q \in Process,
         NEW r \in [msg : Message, created : 0..Word - 1],
         NEW i \in DOMAIN relay[q], relay[q][i] = r
  PROVE  /\ born'[r.msg] # None
         /\ r.created = Created(born'[r.msg]) \/ r.msg \in texts'[origin'[r.msg]]
<1>1. r.msg \in Message /\ origin[r.msg] \in Process
  BY DEF TypeOK
<1>2. /\ born[r.msg] # None
      /\ r.created = Created(born[r.msg]) \/ r.msg \in texts[origin[r.msg]]
  BY DEF RelayTellsPublication
<1> QED BY <1>1, <1>2 DEF Onward

LEMMA StoredStays ==
  ASSUME TypeOK, StoredTellsPublication, Onward, saved' = saved
  PROVE  StoredTellsPublication'
BY DEF StoredTellsPublication, Onward

(***************************************************************************)
(* An object that is new in its process, or is converted there: the field  *)
(* was right, or the message is among the converted ones.                  *)
(***************************************************************************)
Field(p, m, time) ==
  /\ time \in Nat /\ born'[m] # None
  /\ time = Created(born'[m]) \/ IsConverted(p, m)

LEMMA ObjectsAfter ==
  ASSUME TypeOK, ObjectsTellPublication, Onward,
         NEW p \in Process, NEW m \in Message, NEW time, Field(p, m, time),
         NEW converted \in BOOLEAN,
         created' = [created EXCEPT ![p][m] = IF converted THEN now ELSE time],
         texts' = [texts EXCEPT ![p] = IF converted THEN @ \cup {m} ELSE @]
  PROVE  /\ ObjectsTellPublication'
         /\ created' \in [Process -> [Message -> {None} \cup Nat]]
         /\ texts' \in [Process -> SUBSET Message]
         /\ \A q \in Process, n \in Message : created[q][n] # None => created'[q][n] # None
         /\ created'[p][m] \in Nat
         /\ created'[p][m] = Created(born'[m]) \/ IsConverted(p, m)'
<1>1. /\ created \in [Process -> [Message -> {None} \cup Nat]] /\ now \in Nat /\ time \in Nat
      /\ texts \in [Process -> SUBSET Message]
  BY Times DEF TypeOK, Field
<1>2. texts' \in [Process -> SUBSET Message] /\ (converted => m \in texts'[p])
  BY <1>1
<1>3. /\ created'[p][m] = IF converted THEN now ELSE time
      /\ \A q \in Process, n \in Message :
           q # p \/ n # m => created'[q][n] = created[q][n]
      /\ created' \in [Process -> [Message -> {None} \cup Nat]]
  BY <1>1
<1>4. created'[p][m] \in Nat /\ \A x \in Nat : x # None
  BY <1>1, <1>3 DEF None
<1>5. created'[p][m] = Created(born'[m]) \/ IsConverted(p, m)'
  <2>1. CASE converted
    BY <1>2, <2>1 DEF IsConverted
  <2>2. CASE ~converted
    BY <1>3, <2>2, ConvertedStays DEF Field
  <2> QED BY <2>1, <2>2
<1>6. ASSUME NEW q \in Process, NEW n \in Message, created'[q][n] # None
      PROVE  /\ born'[n] # None
             /\ created'[q][n] = Created(born'[n]) \/ IsConverted(q, n)'
  <2>1. CASE q = p /\ n = m
    BY <1>5, <2>1 DEF Field
  <2>2. CASE ~(q = p /\ n = m)
    <3>1. created'[q][n] = created[q][n]
      BY <1>3, <2>2
    <3>2. /\ born[n] # None /\ born'[n] = born[n]
          /\ created[q][n] = Created(born[n]) \/ IsConverted(q, n)
      BY <1>6, <3>1 DEF ObjectsTellPublication, Onward
    <3> QED BY <3>1, <3>2, ConvertedStays
  <2> QED BY <2>1, <2>2
<1>7. ObjectsTellPublication'
  BY <1>6 DEF ObjectsTellPublication
<1> QED BY <1>2, <1>3, <1>4, <1>5, <1>7

(***************************************************************************)
(* What is read of an object whose field is right, or was converted.       *)
(***************************************************************************)
Births == born' \in [Message -> {None} \cup Start..MaxNow]

LEMMA FreshReading ==
  ASSUME Births, NEW p \in Process, NEW m \in Message, NEW time, Field(p, m, time),
         NEW converted \in BOOLEAN, NEW g,
         g = ReadingIn(p, m, IF converted THEN now ELSE time, converted)
  PROVE  /\ g.object = "fresh" => g.time = born'[g.msg] \div MsPerSec
         /\ g.object # "stored"
<1>1. /\ g.msg = m /\ g.time = Fixed32(IF converted THEN now ELSE time)
      /\ g.object = IF converted \/ IsConverted(p, m) THEN "converted" ELSE "fresh"
  BY DEF ReadingIn, Reading
<1>2. born'[m] \in 0..MaxNow
  BY ConversionAssumption DEF Births, Field
<1>3. ASSUME ~converted, ~IsConverted(p, m) PROVE g.time = born'[m] \div MsPerSec
  <2>1. time = Created(born'[m])
    BY <1>3 DEF Field
  <2> QED BY <1>1, <1>2, <1>3, <2>1, CreatedFacts DEF Created
<1> QED BY <1>1, <1>3

LEMMA NothingIsRight == got' = Nothing => Right'
BY DEF Nothing, Right, WrongTimeNeedsText, ReplayTellsPublication

(* The readings of a step are right one by one. *)
LEMMA RightReadings ==
  ASSUME \A s \in Binary : \A g \in got'[s] :
           /\ g.object = "fresh" => g.time = born'[g.msg] \div MsPerSec
           /\ g.object # "stored"
  PROVE  Right'
BY DEF Right, WrongTimeNeedsText, ReplayTellsPublication

(***************************************************************************)
(* A broadcast, or an object that nobody is sent yet.                      *)
(***************************************************************************)
LEMMA BroadcastKeeps ==
  ASSUME ConversionInv, Births, \A n \in Message : born[n] # None => born'[n] = born[n],
         origin' = origin,
         NEW p \in Process, NEW m \in Message, NEW time, Field(p, m, time),
         Broadcast(p, m, time) \/ Hold(p, m, time)
  PROVE  /\ Onward /\ ObjectsTellPublication' /\ Right'
         /\ created' \in [Process -> [Message -> {None} \cup Nat]]
         /\ texts' \in [Process -> SUBSET Message]
         /\ \A q \in Process, n \in Message : created[q][n] # None => created'[q][n] # None
         /\ created'[p][m] \in Nat
         /\ created'[p][m] = Created(born'[m]) \/ IsConverted(p, m)'
         /\ \A s \in Sub : \A n \in buffer'[s] : created'[Home[s]][n] # None
<1> DEFINE served == {s \in Members(p) : AtOnce(s)}
           some == \E s \in served : s \notin Binary
<1>1. CASE Broadcast(p, m, time)
  <2>1. /\ created' = [created EXCEPT ![p][m] = IF some THEN now ELSE time]
        /\ texts' = [texts EXCEPT ![p] = IF some THEN @ \cup {m} ELSE @]
        /\ got' = [s \in Binary |-> IF s \in served
             THEN {ReadingIn(p, m, IF ConvertedBefore(s) THEN now ELSE time, ConvertedBefore(s))}
             ELSE {}]
        /\ buffer' = [s \in Sub |-> IF s \in Members(p) \ served THEN buffer[s] \cup {m}
                                    ELSE buffer[s]]
    BY <1>1 DEF Broadcast
  <2> HIDE DEF some
  <2>2. Onward
    BY <2>1 DEF Onward, ConversionInv, TypeOK
  <2>3. some \in BOOLEAN
    BY DEF some
  <2>4. /\ ObjectsTellPublication'
        /\ created' \in [Process -> [Message -> {None} \cup Nat]]
        /\ texts' \in [Process -> SUBSET Message]
        /\ \A q \in Process, n \in Message : created[q][n] # None => created'[q][n] # None
        /\ created'[p][m] \in Nat
        /\ created'[p][m] = Created(born'[m]) \/ IsConverted(p, m)'
    BY <2>1, <2>2, <2>3, ObjectsAfter DEF ConversionInv
  <2>5. Right'
    <3> SUFFICES ASSUME NEW s \in Binary, NEW g \in got'[s]
                 PROVE  /\ g.object = "fresh" => g.time = born'[g.msg] \div MsPerSec
                        /\ g.object # "stored"
      BY RightReadings
    <3>1. g = ReadingIn(p, m, IF ConvertedBefore(s) THEN now ELSE time, ConvertedBefore(s))
      BY <2>1
    <3>2. ConvertedBefore(s) \in BOOLEAN
      BY DEF ConvertedBefore
    <3> QED BY <3>1, <3>2, FreshReading
  <2>6. ASSUME NEW s \in Sub, NEW n \in buffer'[s] PROVE created'[Home[s]][n] # None
    <3>1. CASE n \in buffer[s]
      <4>1. n \in Message /\ Home[s] \in Process /\ created[Home[s]][n] # None
        BY <3>1, ConversionAssumption DEF ConversionInv, TypeOK, WaitingHaveObjects
      <4> QED BY <2>4, <4>1
    <3>2. CASE n \notin buffer[s]
      <4>1. n = m /\ Home[s] = p
        BY <2>1, <3>2 DEF Members
      <4> QED BY <2>4, <4>1 DEF None
    <3> QED BY <3>1, <3>2
  <2> QED BY <2>2, <2>4, <2>5, <2>6
<1>2. CASE Hold(p, m, time)
  <2>1. /\ created' = [created EXCEPT ![p][m] = IF FALSE THEN now ELSE time]
        /\ texts' = [texts EXCEPT ![p] = IF FALSE THEN @ \cup {m} ELSE @]
        /\ got' = Nothing /\ buffer' = buffer /\ texts' = texts
    BY <1>2 DEF Hold, ConversionInv, TypeOK
  <2>2. Onward
    BY <2>1 DEF Onward
  <2>3. FALSE \in BOOLEAN
    OBVIOUS
  <2>4. /\ ObjectsTellPublication'
        /\ created' \in [Process -> [Message -> {None} \cup Nat]]
        /\ texts' \in [Process -> SUBSET Message]
        /\ \A q \in Process, n \in Message : created[q][n] # None => created'[q][n] # None
        /\ created'[p][m] \in Nat
        /\ created'[p][m] = Created(born'[m]) \/ IsConverted(p, m)'
    BY <2>1, <2>2, <2>3, ObjectsAfter DEF ConversionInv
  <2>5. ASSUME NEW s \in Sub, NEW n \in buffer'[s] PROVE created'[Home[s]][n] # None
    <3>1. n \in Message /\ Home[s] \in Process /\ created[Home[s]][n] # None
      BY <2>1, ConversionAssumption DEF ConversionInv, TypeOK, WaitingHaveObjects
    <3> QED BY <2>4, <3>1
  <2> QED BY <2>1, <2>2, <2>4, <2>5, NothingIsRight
<1> QED BY <1>1, <1>2

(***************************************************************************)
(* Messages on their way to the other processes.                           *)
(***************************************************************************)
LEMMA RelayKeeps ==
  ASSUME TypeOK, RelayTellsPublication, Onward, Births,
         NEW m \in Message, born'[m] # None, NEW p, p = origin[m], Relay(p, m),
         created'[p][m] \in Nat,
         created'[p][m] = Created(born'[m]) \/ IsConverted(p, m)'
  PROVE  /\ RelayTellsPublication'
         /\ relay' \in [Process -> Seq([msg : Message, created : 0..Word - 1])]
<1> DEFINE R == [msg : Message, created : 0..Word - 1]
           x == [msg |-> m, created |-> Fixed32(created'[p][m])]
<1>1. x \in R
  BY Fixed32Facts
<1>2. x.created = Created(born'[m]) \/ m \in texts'[origin'[m]]
  <2>1. origin'[m] = origin[m]
    BY DEF Onward
  <2>2. ASSUME created'[p][m] = Created(born'[m])
        PROVE  x.created = Created(born'[m])
    <3>1. born'[m] \in 0..MaxNow
      BY ConversionAssumption DEF Births
    <3> QED BY <2>2, <3>1, CreatedFacts
  <2> QED BY <2>1, <2>2 DEF IsConverted
<1>3. x.msg = m
  OBVIOUS
<1> HIDE DEF x
<1>4. /\ relay \in [Process -> Seq(R)]
      /\ relay' = [q \in Process |-> IF q = p \/ q \in PublishOnly THEN relay[q]
                                     ELSE Append(relay[q], x)]
  BY DEF TypeOK, Relay, x
<1>5. relay' \in [Process -> Seq(R)]
  <2> HIDE DEF R
  <2> QED BY <1>1, <1>4
<1>6. ASSUME NEW q \in Process, NEW i \in DOMAIN relay'[q]
      PROVE  /\ born'[relay'[q][i].msg] # None
             /\ \/ relay'[q][i].created = Created(born'[relay'[q][i].msg])
                \/ relay'[q][i].msg \in texts'[origin'[relay'[q][i].msg]]
  <2>1. \/ i \in DOMAIN relay[q] /\ relay'[q][i] = relay[q][i] /\ relay[q][i] \in R
        \/ relay'[q][i] = x
    <3>1. relay[q] \in Seq(R) /\ relay'[q] \in {relay[q], Append(relay[q], x)}
      BY <1>4
    <3> HIDE DEF R
    <3> QED BY <1>1, <1>6, <3>1
  <2>2. CASE relay'[q][i] = x
    BY <1>2, <1>3, <2>2
  <2>3. CASE i \in DOMAIN relay[q] /\ relay'[q][i] = relay[q][i] /\ relay[q][i] \in R
    BY <2>3, RelayStays
  <2> QED BY <2>1, <2>2, <2>3
<1> QED BY <1>5, <1>6 DEF RelayTellsPublication

LEMMA RelayUnchanged ==
  ASSUME TypeOK, RelayTellsPublication, Onward, relay' = relay
  PROVE  RelayTellsPublication'
<1> DEFINE R == [msg : Message, created : 0..Word - 1]
<1>1. ASSUME NEW q \in Process, NEW i \in DOMAIN relay[q] PROVE relay[q][i] \in R
  <2>1. relay[q] \in Seq(R)
    BY DEF TypeOK
  <2> HIDE DEF R
  <2> QED BY <1>1, <2>1
<1> QED BY <1>1, RelayStays DEF RelayTellsPublication

LEMMA RelayTaken ==
  ASSUME TypeOK, RelayTellsPublication, Onward, NEW p \in Process, relay[p] # <<>>,
         relay' = [relay EXCEPT ![p] = Tail(@)]
  PROVE  /\ RelayTellsPublication'
         /\ relay' \in [Process -> Seq([msg : Message, created : 0..Word - 1])]
<1> DEFINE R == [msg : Message, created : 0..Word - 1]
<1>1. relay \in [Process -> Seq(R)]
  BY DEF TypeOK
<1>2. relay' \in [Process -> Seq(R)]
  <2> HIDE DEF R
  <2> QED BY <1>1
<1>3. ASSUME NEW q \in Process, NEW i \in DOMAIN relay'[q]
      PROVE  \E j \in DOMAIN relay[q] : relay'[q][i] = relay[q][j] /\ relay[q][j] \in R
  <2> HIDE DEF R
  <2>1. CASE q = p
    <3>1. relay'[q] = Tail(relay[q]) /\ relay[q] \in Seq(R) /\ relay[q] # <<>>
      BY <1>1, <2>1
    <3>2. i + 1 \in DOMAIN relay[q] /\ relay'[q][i] = relay[q][i + 1]
      <4>1. \A y \in Seq(R) : y # <<>> => \A k \in DOMAIN Tail(y) :
              k + 1 \in DOMAIN y /\ Tail(y)[k] = y[k + 1]
        OBVIOUS
      <4> QED BY <1>3, <3>1, <4>1
    <3> QED BY <3>1, <3>2
  <2>2. CASE q # p
    <3>1. relay'[q] = relay[q] /\ relay[q] \in Seq(R)
      BY <1>1, <2>2
    <3> QED BY <1>3, <3>1
  <2> QED BY <2>1, <2>2
<1>4. RelayTellsPublication'
  BY <1>3, RelayStays DEF RelayTellsPublication
<1> QED BY <1>2, <1>4

-----------------------------------------------------------------------------
(***************************************************************************)
(* The connections: who is in the Set, in order, and who has a batch.      *)
(***************************************************************************)
Registry ==
  /\ members \subseteq Sub /\ earlier \in [Sub -> SUBSET members]
  /\ \A s, t \in members :
       Home[s] = Home[t] /\ s # t => (s \in earlier[t] <=> t \notin earlier[s])
  /\ buffer \in [Sub -> SUBSET Message] /\ timer \in [Sub -> BOOLEAN]
  /\ \A s \in Sub : (buffer[s] # {} => timer[s]) /\ (timer[s] => s \in members \ Poll)

LEMMA RemoveKeeps ==
  ASSUME Registry, NEW left, Remove(left)
  PROVE  /\ members' \subseteq Sub /\ earlier' \in [Sub -> SUBSET members']
         /\ \A s, t \in members' :
              Home[s] = Home[t] /\ s # t => (s \in earlier'[t] <=> t \notin earlier'[s])
<1>1. /\ members' = members \ left
      /\ earlier' = [s \in Sub |-> IF s \in left THEN {} ELSE earlier[s] \ left]
  BY DEF Remove
<1>2. members' \subseteq Sub /\ earlier' \in [Sub -> SUBSET members']
  BY <1>1 DEF Registry
<1>3. \A s \in members' : s \in Sub /\ s \in members /\ earlier'[s] = earlier[s] \ left
                          /\ s \notin left
  BY <1>1 DEF Registry
<1> QED BY <1>2, <1>3 DEF Registry

LEMMA BroadcastRegistry ==
  ASSUME Registry, NEW p \in Process, NEW m \in Message, NEW time,
         Broadcast(p, m, time) \/ Hold(p, m, time)
  PROVE  Registry'
<1>1. CASE Broadcast(p, m, time)
  <2> DEFINE waiting == Members(p) \ {s \in Members(p) : AtOnce(s)}
  <2>1. /\ Remove(Members(p) \cap Poll)
        /\ buffer' = [s \in Sub |-> IF s \in waiting THEN buffer[s] \cup {m} ELSE buffer[s]]
        /\ timer' = [s \in Sub |-> timer[s] \/ s \in Members(p) \ Poll]
    BY <1>1 DEF Broadcast
  <2>2. \A s \in waiting : s \in Sub /\ timer[s] /\ s \notin Poll
    BY DEF Members, AtOnce, Registry
  <2>3. members' = members \ (Members(p) \cap Poll) /\ Members(p) \subseteq members
    BY <2>1 DEF Remove, Members
  <2> HIDE DEF waiting
  <2>4. buffer' \in [Sub -> SUBSET Message]
    BY <2>1 DEF Registry
  <2>5. timer' \in [Sub -> BOOLEAN]
    BY <2>1 DEF Registry
  <2>6. \A s \in Sub : (buffer'[s] # {} => timer'[s]) /\ (timer'[s] => s \in members' \ Poll)
    BY <2>1, <2>2, <2>3 DEF Registry
  <2> QED BY <2>1, <2>4, <2>5, <2>6, RemoveKeeps DEF Registry
<1>2. CASE Hold(p, m, time)
  BY <1>2 DEF Hold, Registry
<1> QED BY <1>1, <1>2

-----------------------------------------------------------------------------
(***************************************************************************)
(* The actions.                                                            *)
(***************************************************************************)
Basics ==
  /\ now \in Start..MaxNow
  /\ born \in [Message -> {None} \cup Start..MaxNow]
  /\ origin \in [Message -> Process] /\ saving \subseteq Stored

Contents ==
  /\ created \in [Process -> [Message -> {None} \cup Nat]]
  /\ saved \in [Message -> {None} \cup 0..Word - 1]
  /\ relay \in [Process -> Seq([msg : Message, created : 0..Word - 1])]
  /\ texts \in [Process -> SUBSET Message]

LEMMA TypeParts == TypeOK <=> Basics /\ Contents /\ Registry
BY DEF TypeOK, Basics, Contents, Registry

LEMMA InvParts ==
  ConversionInv <=> /\ Basics /\ Contents /\ Registry
                    /\ ObjectsTellPublication /\ RelayTellsPublication
                    /\ StoredTellsPublication /\ WaitingHaveObjects /\ Right
BY TypeParts DEF ConversionInv

LEMMA NextParts ==
  ASSUME Basics', Contents', Registry', ObjectsTellPublication', RelayTellsPublication',
         StoredTellsPublication', WaitingHaveObjects', Right'
  PROVE  ConversionInv'
<1>1. TypeOK'
  BY DEF TypeOK, Basics, Contents, Registry
<1> QED BY <1>1 DEF ConversionInv

LEMMA InitKeeps == Init => ConversionInv
<1> SUFFICES ASSUME Init PROVE ConversionInv
  OBVIOUS
<1>1. Basics
  BY ConversionAssumption DEF Init, Basics
<1>2. Contents
  BY DEF Init, Contents
<1>3. Registry
  BY DEF Init, Registry
<1>4. ObjectsTellPublication /\ RelayTellsPublication /\ StoredTellsPublication
  BY DEF Init, ObjectsTellPublication, RelayTellsPublication, StoredTellsPublication
<1>5. WaitingHaveObjects
  BY DEF Init, WaitingHaveObjects
<1>6. Right
  BY DEF Init, Nothing, Right, WrongTimeNeedsText, ReplayTellsPublication
<1> QED BY <1>1, <1>2, <1>3, <1>4, <1>5, <1>6, InvParts

LEMMA PublishKeeps ==
  ASSUME ConversionInv, NEW m \in Message, Publish(m)
  PROVE  ConversionInv'
<1>0. PICK p \in Process : p = origin[m]
  BY DEF ConversionInv, TypeOK
<1>1. p \in Process /\ now \in 0..MaxNow /\ now # None /\ now \in Start..MaxNow
  BY ConversionAssumption DEF ConversionInv, TypeOK, None
<1>2. /\ born[m] = None /\ born' = [born EXCEPT ![m] = now]
      /\ origin' = origin /\ now' = now
  BY DEF Publish
<1>3. /\ Births /\ born'[m] = now
      /\ \A n \in Message : born[n] # None => born'[n] = born[n]
  BY <1>1, <1>2 DEF ConversionInv, TypeOK, Births
<1>4. Created(now) \in Nat /\ Created(now) \in 0..Word - 1 /\ Fixed32(Created(now)) = Created(now)
  BY <1>1, CreatedFacts
<1>5. Field(p, m, Created(now))
  BY <1>1, <1>3, <1>4 DEF Field
<1>6. Broadcast(p, m, Created(now)) \/ Hold(p, m, Created(now))
  BY <1>0 DEF Publish, LocalBroadcast
<1>7. /\ Onward /\ ObjectsTellPublication' /\ Right'
      /\ created' \in [Process -> [Message -> {None} \cup Nat]]
      /\ texts' \in [Process -> SUBSET Message]
      /\ \A q \in Process, n \in Message : created[q][n] # None => created'[q][n] # None
      /\ created'[p][m] \in Nat
      /\ created'[p][m] = Created(born'[m]) \/ IsConverted(p, m)'
      /\ \A s \in Sub : \A n \in buffer'[s] : created'[Home[s]][n] # None
  BY <1>1, <1>2, <1>3, <1>5, <1>6, BroadcastKeeps
<1>8. Registry'
  BY <1>1, <1>6, BroadcastRegistry, InvParts
<1>9. Basics'
  <2>1. saving' \subseteq Stored
    BY DEF Publish, ConversionInv, TypeOK
  <2> QED BY <1>1, <1>2, <1>3, <2>1 DEF Basics, Births, ConversionInv, TypeOK
<1>10. WaitingHaveObjects'
  <2>1. saving' \subseteq saving \cup {m} /\ saving \subseteq Message
    BY ConversionAssumption DEF Publish, ConversionInv, TypeOK
  <2>2. ASSUME NEW n \in saving' PROVE created'[origin'[n]][n] # None
    <3>1. CASE n = m
      BY <1>0, <1>2, <1>7, <3>1 DEF None
    <3>2. CASE n # m
      <4>1. n \in saving /\ n \in Message /\ origin[n] \in Process
        BY <2>1, <3>2 DEF ConversionInv, TypeOK
      <4> QED BY <1>2, <1>7, <4>1 DEF ConversionInv, WaitingHaveObjects
    <3> QED BY <3>1, <3>2
  <2> QED BY <1>7, <2>2 DEF WaitingHaveObjects
<1>11. CASE m \in Stored
  <2>1. saved' = [saved EXCEPT ![m] = Created(now)] /\ relay' = relay
    BY <1>4, <1>11 DEF Publish
  <2>2. Contents'
    BY <1>4, <1>7, <2>1 DEF Contents, ConversionInv, TypeOK
  <2>3. StoredTellsPublication'
    BY <1>1, <1>3, <2>1 DEF StoredTellsPublication, ConversionInv, TypeOK
  <2>4. RelayTellsPublication'
    BY <1>7, <2>1, RelayUnchanged DEF ConversionInv
  <2> QED BY <1>7, <1>8, <1>9, <1>10, <2>2, <2>3, <2>4, NextParts
<1>12. CASE m \notin Stored
  <2>1. Relay(p, m) /\ saved' = saved
    BY <1>0, <1>12 DEF Publish
  <2>2. /\ RelayTellsPublication'
        /\ relay' \in [Process -> Seq([msg : Message, created : 0..Word - 1])]
    BY <1>0, <1>1, <1>3, <1>7, <2>1, RelayKeeps DEF ConversionInv
  <2>3. Contents'
    BY <1>7, <2>1, <2>2 DEF Contents, ConversionInv, TypeOK
  <2>4. StoredTellsPublication'
    BY <1>7, <2>1, StoredStays DEF ConversionInv
  <2> QED BY <1>7, <1>8, <1>9, <1>10, <2>2, <2>3, <2>4, NextParts
<1> QED BY <1>11, <1>12

(* What waits in the process of a message is its object. *)
LEMMA SavedKeeps ==
  ASSUME ConversionInv, NEW m \in Message, Saved(m)
  PROVE  ConversionInv'
<1>0. PICK p \in Process, time \in {None} \cup Nat :
        p = origin[m] /\ time = created[p][m]
  BY DEF ConversionInv, TypeOK
<1>1. /\ m \in saving /\ saving' = saving \ {m} /\ p \in Process /\ Relay(p, m)
      /\ UNCHANGED <<now, born, origin, saved>>
      /\ Broadcast(p, m, time) \/ Hold(p, m, time)
  BY <1>0 DEF Saved, LocalBroadcast, ConversionInv, TypeOK
<1>2. Births /\ \A n \in Message : born[n] # None => born'[n] = born[n]
  BY <1>1 DEF ConversionInv, TypeOK, Births
<1>3. Field(p, m, time)
  <2>1. time # None
    BY <1>0, <1>1 DEF ConversionInv, WaitingHaveObjects
  <2>2. time \in Nat
    BY <1>0, <1>1, <2>1, Times DEF ConversionInv
  <2> QED BY <1>0, <1>1, <2>1, <2>2 DEF Field, ConversionInv, ObjectsTellPublication
<1>4. /\ Onward /\ ObjectsTellPublication' /\ Right'
      /\ created' \in [Process -> [Message -> {None} \cup Nat]]
      /\ texts' \in [Process -> SUBSET Message]
      /\ \A q \in Process, n \in Message : created[q][n] # None => created'[q][n] # None
      /\ created'[p][m] \in Nat
      /\ created'[p][m] = Created(born'[m]) \/ IsConverted(p, m)'
      /\ \A s \in Sub : \A n \in buffer'[s] : created'[Home[s]][n] # None
  BY <1>1, <1>2, <1>3, BroadcastKeeps
<1>5. Registry'
  BY <1>1, BroadcastRegistry, InvParts
<1>6. Basics'
  BY <1>1, <1>2 DEF Basics, ConversionInv, TypeOK
<1>7. WaitingHaveObjects'
  <2>1. ASSUME NEW n \in saving' PROVE created'[origin'[n]][n] # None
    <3>1. n \in saving /\ n \in Message /\ origin[n] \in Process
      BY <1>1, ConversionAssumption DEF ConversionInv, TypeOK
    <3> QED BY <1>1, <1>4, <3>1 DEF ConversionInv, WaitingHaveObjects
  <2> QED BY <1>4, <2>1 DEF WaitingHaveObjects
<1>8. /\ RelayTellsPublication'
      /\ relay' \in [Process -> Seq([msg : Message, created : 0..Word - 1])]
  <2>1. born'[m] # None
    BY <1>3 DEF Field
  <2> QED BY <1>0, <1>1, <1>2, <1>4, <2>1, RelayKeeps DEF ConversionInv
<1>9. Contents'
  BY <1>1, <1>4, <1>8 DEF Contents, ConversionInv, TypeOK
<1>10. StoredTellsPublication'
  BY <1>1, <1>4, StoredStays DEF ConversionInv
<1> QED BY <1>4, <1>5, <1>6, <1>7, <1>8, <1>9, <1>10, NextParts

(* A relayed message comes with the field that it had where it was published. *)
LEMMA RelayedKeeps ==
  ASSUME ConversionInv, NEW p \in Process, Relayed(p)
  PROVE  ConversionInv'
<1>1. PICK r \in [msg : Message, created : 0..Word - 1] : r = Head(relay[p])
  <2>1. relay[p] \in Seq([msg : Message, created : 0..Word - 1]) /\ relay[p] # <<>>
    BY DEF ConversionInv, TypeOK, Relayed
  <2>2. \A R : \A y \in Seq(R) : y # <<>> => Head(y) \in R
    OBVIOUS
  <2> QED BY <2>1, <2>2
<1>0. PICK m \in Message, time \in Nat : m = r.msg /\ time = r.created
  BY ConversionAssumption
<1>2. m \in Message /\ time \in Nat
  OBVIOUS
<1>3. /\ relay[p] # <<>> /\ relay' = [relay EXCEPT ![p] = Tail(@)]
      /\ UNCHANGED <<now, born, origin, saving, saved>>
      /\ Broadcast(p, m, time)
  BY <1>0, <1>1 DEF Relayed
<1>4. Births /\ \A n \in Message : born[n] # None => born'[n] = born[n]
  BY <1>3 DEF ConversionInv, TypeOK, Births
<1>5. Field(p, m, time)
  <2>1. 1 \in DOMAIN relay[p] /\ relay[p][1] = r
    <3>1. relay[p] \in Seq([msg : Message, created : 0..Word - 1])
      BY DEF ConversionInv, TypeOK
    <3>2. \A R : \A y \in Seq(R) : y # <<>> => 1 \in DOMAIN y /\ y[1] = Head(y)
      OBVIOUS
    <3> QED BY <1>1, <1>3, <3>1, <3>2
  <2>2. /\ born[m] # None
        /\ time = Created(born[m]) \/ m \in texts[origin[m]]
    BY <1>0, <2>1 DEF ConversionInv, RelayTellsPublication
  <2> QED BY <1>2, <1>3, <2>2 DEF Field, IsConverted
<1>6. /\ Onward /\ ObjectsTellPublication' /\ Right'
      /\ created' \in [Process -> [Message -> {None} \cup Nat]]
      /\ texts' \in [Process -> SUBSET Message]
      /\ \A q \in Process, n \in Message : created[q][n] # None => created'[q][n] # None
      /\ \A s \in Sub : \A n \in buffer'[s] : created'[Home[s]][n] # None
  BY <1>2, <1>3, <1>4, <1>5, BroadcastKeeps
<1>7. Registry'
  BY <1>2, <1>3, BroadcastRegistry, InvParts
<1>8. Basics'
  BY <1>3, <1>4 DEF Basics, ConversionInv, TypeOK
<1>9. WaitingHaveObjects'
  <2>1. ASSUME NEW n \in saving' PROVE created'[origin'[n]][n] # None
    <3>1. n \in saving /\ n \in Message /\ origin[n] \in Process
      BY <1>3, ConversionAssumption DEF ConversionInv, TypeOK
    <3> QED BY <1>3, <1>6, <3>1 DEF ConversionInv, WaitingHaveObjects
  <2> QED BY <1>6, <2>1 DEF WaitingHaveObjects
<1>10. /\ RelayTellsPublication'
       /\ relay' \in [Process -> Seq([msg : Message, created : 0..Word - 1])]
  BY <1>3, <1>6, RelayTaken DEF ConversionInv
<1>11. Contents'
  BY <1>3, <1>6, <1>10 DEF Contents, ConversionInv, TypeOK
<1>12. StoredTellsPublication'
  BY <1>3, <1>6, StoredStays DEF ConversionInv
<1> QED BY <1>6, <1>7, <1>8, <1>9, <1>10, <1>11, <1>12, NextParts

(* A text websocket converts its batch, a binary one reads it. *)
LEMMA SendBufferKeeps ==
  ASSUME ConversionInv, NEW s \in Sub, SendBuffer(s)
  PROVE  ConversionInv'
<1>0. PICK p \in Process, ms \in SUBSET Message : p = Home[s] /\ ms = buffer[s]
  BY ConversionAssumption DEF ConversionInv, TypeOK
<1>1. /\ timer' = [timer EXCEPT ![s] = FALSE] /\ buffer' = [buffer EXCEPT ![s] = {}]
      /\ UNCHANGED <<now, born, origin, saving, saved, relay, members, earlier>>
      /\ got' = OnlyTo(s, {ReadingIn(p, m, created[p][m], FALSE) : m \in ms})
      /\ IF s \in Binary THEN UNCHANGED <<created, texts>> ELSE Convert(p, ms)
  BY <1>0 DEF SendBuffer, Dispatch
<1>2. /\ created \in [Process -> [Message -> {None} \cup Nat]] /\ now \in Nat
      /\ texts \in [Process -> SUBSET Message]
  BY Times DEF ConversionInv, TypeOK
<1>3. /\ created' \in [Process -> [Message -> {None} \cup Nat]]
      /\ texts' \in [Process -> SUBSET Message]
      /\ \A q \in Process, n \in Message :
           \/ created'[q][n] = created[q][n]
           \/ q = p /\ n \in ms /\ created'[q][n] = now /\ n \in texts'[p]
      /\ \A q \in Process : texts[q] \subseteq texts'[q]
  <2>1. CASE s \in Binary
    BY <1>1, <1>2, <2>1
  <2>2. CASE s \notin Binary
    <3>1. /\ created' = [created EXCEPT ![p] = [m \in Message |-> IF m \in ms THEN now ELSE @[m]]]
          /\ texts' = [texts EXCEPT ![p] = @ \cup ms]
      BY <1>1, <2>2 DEF Convert
    <3> QED BY <1>2, <3>1
  <2> QED BY <2>1, <2>2
<1>4. Onward
  BY <1>1, <1>3 DEF Onward
<1>5. \A m \in ms : created[p][m] # None /\ Field(p, m, created[p][m])
  <2> SUFFICES ASSUME NEW m \in ms PROVE created[p][m] # None /\ Field(p, m, created[p][m])
    OBVIOUS
  <2>1. created[p][m] # None
    BY <1>0 DEF ConversionInv, WaitingHaveObjects
  <2>2. created[p][m] \in Nat
    BY <1>2, <2>1
  <2> QED BY <1>1, <2>1, <2>2 DEF Field, ConversionInv, ObjectsTellPublication
<1>6. \A q \in Process, n \in Message : created[q][n] # None => created'[q][n] # None
  <2>1. now # None
    BY <1>2 DEF None
  <2> QED BY <1>3, <2>1
<1>7. ObjectsTellPublication'
  <2> SUFFICES ASSUME NEW q \in Process, NEW n \in Message, created'[q][n] # None
               PROVE  /\ born'[n] # None
                      /\ created'[q][n] = Created(born'[n]) \/ IsConverted(q, n)'
    BY DEF ObjectsTellPublication
  <2>1. CASE created'[q][n] = created[q][n]
    <3>1. /\ born[n] # None
          /\ created[q][n] = Created(born[n]) \/ IsConverted(q, n)
      BY <2>1 DEF ConversionInv, ObjectsTellPublication
    <3> QED BY <1>1, <1>4, <2>1, <3>1, ConvertedStays DEF ConversionInv
  <2>2. CASE q = p /\ n \in ms /\ n \in texts'[p]
    BY <1>1, <1>5, <2>2 DEF Field, IsConverted
  <2> QED BY <1>3, <2>1, <2>2
<1>8. Right'
  <2> SUFFICES ASSUME NEW b \in Binary, NEW g \in got'[b]
               PROVE  /\ g.object = "fresh" => g.time = born'[g.msg] \div MsPerSec
                      /\ g.object # "stored"
    BY RightReadings
  <2>1. PICK m \in ms : g = ReadingIn(p, m, created[p][m], FALSE)
    BY <1>1 DEF OnlyTo
  <2>2. Births
    BY <1>1 DEF Births, ConversionInv, TypeOK
  <2>3. g = ReadingIn(p, m, IF FALSE THEN now ELSE created[p][m], FALSE)
    BY <2>1
  <2>4. m \in Message /\ Field(p, m, created[p][m]) /\ FALSE \in BOOLEAN
    BY <1>5
  <2> QED BY <2>2, <2>3, <2>4, FreshReading
<1>9. Registry'
  BY <1>1 DEF Registry, ConversionInv, TypeOK
<1>10. Basics'
  BY <1>1 DEF Basics, ConversionInv, TypeOK
<1>11. Contents'
  BY <1>1, <1>3 DEF Contents, ConversionInv, TypeOK
<1>12. WaitingHaveObjects'
  <2>1. \A t \in Sub : buffer'[t] \subseteq buffer[t] /\ buffer[t] \subseteq Message
    BY <1>1 DEF ConversionInv, TypeOK
  <2>2. \A t \in Sub : Home[t] \in Process
    BY ConversionAssumption
  <2>3. \A n \in saving : n \in Message /\ origin[n] \in Process
    BY ConversionAssumption DEF ConversionInv, TypeOK
  <2> QED BY <1>1, <1>6, <2>1, <2>2, <2>3 DEF ConversionInv, WaitingHaveObjects
<1>13. RelayTellsPublication' /\ StoredTellsPublication'
  BY <1>1, <1>4, RelayUnchanged, StoredStays DEF ConversionInv
<1> QED BY <1>7, <1>8, <1>9, <1>10, <1>11, <1>12, <1>13, NextParts

(***************************************************************************)
(* Steps that leave the objects, the relay and the stored copies alone.    *)
(***************************************************************************)
LEMMA ObjectsUnchanged ==
  ASSUME ConversionInv, UNCHANGED <<born, origin, saving, created, saved, relay, texts>>,
         now' \in Start..MaxNow, Registry', Right',
         \A s \in Sub : buffer'[s] \subseteq buffer[s]
  PROVE  ConversionInv'
<1>1. Onward
  BY DEF Onward
<1>2. ObjectsTellPublication'
  BY DEF ConversionInv, ObjectsTellPublication, IsConverted
<1>3. RelayTellsPublication' /\ StoredTellsPublication'
  BY <1>1, RelayUnchanged, StoredStays DEF ConversionInv
<1>4. WaitingHaveObjects'
  BY DEF ConversionInv, WaitingHaveObjects
<1>5. Basics'
  BY DEF Basics, ConversionInv, TypeOK
<1>6. Contents'
  BY DEF Contents, ConversionInv, TypeOK
<1> QED BY <1>2, <1>3, <1>4, <1>5, <1>6, NextParts

(* A replay reads the stored copies. *)
LEMMA ConnectKeeps ==
  ASSUME ConversionInv, NEW s \in Sub, NEW ms \in Missed, Connect(s, ms)
  PROVE  ConversionInv'
<1>1. /\ s \notin members /\ got' = OnlyTo(s, {Replay(s, m) : m \in ms})
      /\ UNCHANGED <<now, born, origin, saving, created, saved, relay, buffer, texts>>
      /\ IF ms # {} /\ s \in Poll THEN UNCHANGED <<members, earlier, timer>>
         ELSE /\ members' = members \cup {s}
              /\ earlier' = [earlier EXCEPT ![s] = Members(Home[s])]
              /\ timer' = [timer EXCEPT ![s] = ms # {}]
  BY DEF Connect
<1>2. ms \subseteq {m \in Message : saved[m] # None}
  BY DEF Missed
<1>3. now' \in Start..MaxNow /\ \A t \in Sub : buffer'[t] \subseteq buffer[t]
  BY <1>1 DEF ConversionInv, TypeOK
<1>4. Right'
  <2>1. ASSUME NEW b \in Binary, NEW g \in got'[b]
        PROVE  g.object = "stored" /\ g.time = born'[g.msg] \div MsPerSec
    <3>1. PICK m \in ms : g = Replay(s, m)
      BY <1>1, <2>1 DEF OnlyTo
    <3>2. m \in Message /\ born[m] # None /\ saved[m] = Created(born[m])
      BY <1>2 DEF ConversionInv, StoredTellsPublication
    <3>3. born[m] \in 0..MaxNow
      BY <3>2, Times DEF ConversionInv
    <3>4. g.msg = m /\ g.time = Fixed32(saved[m]) /\ g.object = "stored"
      BY <3>1 DEF Replay, Reading
    <3> QED BY <1>1, <3>2, <3>3, <3>4, CreatedFacts DEF Created
  <2>2. "stored" # "fresh"
    OBVIOUS
  <2> QED BY <2>1, <2>2 DEF Right, WrongTimeNeedsText, ReplayTellsPublication
<1>5. Registry'
  <2>1. CASE ms # {} /\ s \in Poll
    BY <1>1, <2>1 DEF Registry, ConversionInv, TypeOK
  <2>2. CASE ~(ms # {} /\ s \in Poll)
    <3>1. /\ members' = members \cup {s} /\ buffer' = buffer
          /\ earlier' = [earlier EXCEPT ![s] = {t \in members : Home[t] = Home[s]}]
          /\ timer' = [timer EXCEPT ![s] = ms # {}]
          /\ ms # {} => s \notin Poll
      BY <1>1, <2>2 DEF Members
    <3>2. Registry
      BY InvParts
    <3>3. members' \subseteq Sub /\ earlier' \in [Sub -> SUBSET members']
      BY <3>1, <3>2 DEF Registry
    <3>4. \A t, u \in members' :
            Home[t] = Home[u] /\ t # u => (t \in earlier'[u] <=> u \notin earlier'[t])
      <4> SUFFICES ASSUME NEW t \in members', NEW u \in members', Home[t] = Home[u], t # u
                   PROVE  t \in earlier'[u] <=> u \notin earlier'[t]
        OBVIOUS
      <4>1. /\ s \in Sub /\ t \in Sub /\ u \in Sub
            /\ \A x \in Sub : earlier[x] \subseteq members
        BY <3>1, <3>2 DEF Registry
      <4>2. /\ earlier'[s] = {x \in members : Home[x] = Home[s]}
            /\ \A x \in Sub : x # s => earlier'[x] = earlier[x]
        BY <3>1, <3>2 DEF Registry
      <4>3. CASE t = s
        BY <1>1, <3>1, <4>1, <4>2, <4>3
      <4>4. CASE u = s
        BY <1>1, <3>1, <4>1, <4>2, <4>4
      <4>5. CASE t # s /\ u # s
        BY <3>1, <3>2, <4>1, <4>2, <4>5 DEF Registry
      <4> QED BY <4>3, <4>4, <4>5
    <3>5. buffer' \in [Sub -> SUBSET Message] /\ timer' \in [Sub -> BOOLEAN]
      <4>1. (ms # {}) \in BOOLEAN
        OBVIOUS
      <4> QED BY <3>1, <3>2, <4>1 DEF Registry
    <3>6. \A t \in Sub : (buffer'[t] # {} => timer'[t]) /\ (timer'[t] => t \in members' \ Poll)
      <4>1. buffer[s] = {}
        BY <1>1, <3>2 DEF Registry
      <4> QED BY <3>1, <3>2, <4>1 DEF Registry
    <3> QED BY <3>3, <3>4, <3>5, <3>6 DEF Registry
  <2> QED BY <2>1, <2>2
<1> QED BY <1>1, <1>3, <1>4, <1>5, ObjectsUnchanged

LEMMA LeaveKeeps ==
  ASSUME ConversionInv, NEW s \in Sub, Leave(s)
  PROVE  ConversionInv'
<1>1. /\ Remove({s}) /\ buffer' = [buffer EXCEPT ![s] = {}]
      /\ timer' = [timer EXCEPT ![s] = FALSE] /\ got' = Nothing
      /\ UNCHANGED <<now, born, origin, saving, created, saved, relay, texts>>
  BY DEF Leave
<1>2. Registry
  BY InvParts
<1>3. Registry'
  <2>1. members' = members \ {s}
    BY <1>1 DEF Remove
  <2>2. buffer' \in [Sub -> SUBSET Message] /\ timer' \in [Sub -> BOOLEAN]
    BY <1>1, <1>2 DEF Registry
  <2>3. \A t \in Sub : (buffer'[t] # {} => timer'[t]) /\ (timer'[t] => t \in members' \ Poll)
    BY <1>1, <1>2, <2>1 DEF Registry
  <2> QED BY <1>1, <1>2, <2>2, <2>3, RemoveKeeps DEF Registry
<1>4. now' \in Start..MaxNow /\ \A t \in Sub : buffer'[t] \subseteq buffer[t]
  BY <1>1 DEF ConversionInv, TypeOK
<1> QED BY <1>1, <1>3, <1>4, NothingIsRight, ObjectsUnchanged

LEMMA TickKeeps ==
  ASSUME ConversionInv, Tick
  PROVE  ConversionInv'
<1>1. now' \in Start..MaxNow
  BY ConversionAssumption DEF Tick, ConversionInv, TypeOK
<1>2. Registry'
  BY DEF Tick, Registry, ConversionInv, TypeOK
<1>3. /\ UNCHANGED <<born, origin, saving, created, saved, relay, texts>> /\ got' = Nothing
      /\ \A t \in Sub : buffer'[t] \subseteq buffer[t]
  BY DEF Tick
<1> QED BY <1>1, <1>2, <1>3, NothingIsRight, ObjectsUnchanged

LEMMA StutterKeeps ==
  ASSUME ConversionInv, UNCHANGED vars
  PROVE  ConversionInv'
<1>1. /\ UNCHANGED <<now, born, origin, saving, created, saved, relay, texts, got>>
      /\ UNCHANGED <<members, earlier, buffer, timer>>
  BY DEF vars
<1>2. Registry'
  BY <1>1 DEF Registry, ConversionInv, TypeOK
<1>3. Right'
  BY <1>1 DEF Right, WrongTimeNeedsText, ReplayTellsPublication, ConversionInv
<1>4. now' \in Start..MaxNow /\ \A t \in Sub : buffer'[t] \subseteq buffer[t]
  BY <1>1 DEF ConversionInv, TypeOK
<1> QED BY <1>1, <1>2, <1>3, <1>4, ObjectsUnchanged

LEMMA NextKeeps == ConversionInv /\ [Next]_vars => ConversionInv'
<1> SUFFICES ASSUME ConversionInv, [Next]_vars PROVE ConversionInv'
  OBVIOUS
<1>1. ASSUME NEW m \in Message, Publish(m) \/ Saved(m) PROVE ConversionInv'
  BY <1>1, PublishKeeps, SavedKeeps
<1>2. ASSUME NEW p \in Process, Relayed(p) PROVE ConversionInv'
  BY <1>2, RelayedKeeps
<1>3. ASSUME NEW s \in Sub, SendBuffer(s) \/ Leave(s) PROVE ConversionInv'
  BY <1>3, SendBufferKeeps, LeaveKeeps
<1>4. ASSUME NEW s \in Sub, NEW ms \in Missed, Connect(s, ms) PROVE ConversionInv'
  BY <1>4, ConnectKeeps
<1> QED BY <1>1, <1>2, <1>3, <1>4, TickKeeps, StutterKeeps DEF Next

LEMMA ConversionInvariant == Spec => []ConversionInv
<1> QED BY InitKeeps, NextKeeps, PTL DEF Spec

-----------------------------------------------------------------------------
(***************************************************************************)
(* Every variable keeps its type, the connections of a process stay in     *)
(* order, and a batch waits only under its timer, of a websocket that is   *)
(* registered.                                                             *)
(***************************************************************************)
THEOREM ConversionTypes == Spec => []TypeOK
<1>1. ConversionInv => TypeOK
  BY DEF ConversionInv
<1> QED BY <1>1, ConversionInvariant, PTL

(***************************************************************************)
(* A binary subscriber reads the second of the publication of a message,   *)
(* in whichever process and after whatever delay, unless an object of the  *)
(* message was converted for a text subscriber, in its process or in the   *)
(* one that published it.                                                  *)
(***************************************************************************)
THEOREM WrongTimeIsConverted == Spec => []WrongTimeNeedsText
<1>1. ConversionInv => WrongTimeNeedsText
  BY DEF ConversionInv, Right
<1> QED BY <1>1, ConversionInvariant, PTL

(***************************************************************************)
(* A replay tells the second of the publication, whoever was served the    *)
(* message before, here or elsewhere.                                      *)
(***************************************************************************)
THEOREM ReplaysAreRight == Spec => []ReplayTellsPublication
<1>1. ConversionInv => ReplayTellsPublication
  BY DEF ConversionInv, Right
<1> QED BY <1>1, ConversionInvariant, PTL
=============================================================================
