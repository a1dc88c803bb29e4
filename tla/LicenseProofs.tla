---------------------------- MODULE LicenseProofs ----------------------------
(***************************************************************************)
(* The license of a client, for any number of processes, commands, lookups *)
(* and losses of the connection: one key, notifications that reach every   *)
(* outdated cache, and errors and stops that have a cause.                 *)
(***************************************************************************)
EXTENDS License, SequenceTheorems, TLAPS

(***************************************************************************)
(* The types, with those of the queries.  Who selects is not registering.  *)
(***************************************************************************)
AnyLicense == [key : Nat, version : Nat] \cup {NoLicense}

QueryType ==
  {e \in [op : {"select", "insert", "update", "delete", "reread"},
          job : {"lookup", "register", "unregister", "sync"},
          status : {"sent", "done", "failed"}, reply : AnyLicense] :
     e.op = "select" => e.job # "register"}

Types ==
  /\ row \in AnyLicense
  /\ cache \in [Processes -> AnyLicense]
  /\ syncLicenses \in [Processes -> BOOLEAN]
  /\ db \in [Processes -> {"none", "connecting", "up", "dead"}]
  /\ opener \in [Processes -> Seq(QueryType)]
  /\ queue \in [Processes -> Seq(QueryType)]
  /\ asking \in [Processes -> [{"register", "sync"} -> Nat]]
  /\ notices \in [Processes -> Seq({"license", "nothing"})]
  /\ stopped \subseteq Processes
  /\ answer \in [Processes -> {"none", "key", "refused", "error"}]
  /\ troubled \in [Processes -> BOOLEAN]
  /\ excused \in [Processes -> BOOLEAN]
  /\ deleted \in BOOLEAN /\ writes \in Nat /\ faults \in Nat

(* The queries that job waits for at p. *)
InQueue(p) == {queue[p][i] : i \in DOMAIN queue[p]}
InOpener(p) == {opener[p][i] : i \in DOMAIN opener[p]}
Pending(p) == InQueue(p) \cup InOpener(p)

(***************************************************************************)
(* The order of a connection: only the head of the queue of an open        *)
(* connection has been answered, and what waits for the connection to open *)
(* has not been sent.                                                      *)
(***************************************************************************)
Order ==
  \A p \in Processes :
    /\ (db[p] = "connecting") = (opener[p] # <<>>)
    /\ \A e \in InOpener(p) : e.status = "sent"
    /\ \A i \in DOMAIN queue[p] : queue[p][i].status = "done" => i = 1 /\ db[p] = "up"

(* A license that was read holds the key of the row, unless that was       *)
(* deleted; nothing was read that was not written.                         *)
Written(l) == l # NoLicense => l.key \in 1..writes /\ l.version \in 1..writes

Current(l) == ~deleted /\ l # NoLicense => row # NoLicense /\ l.key = row.key

Keys ==
  /\ ~deleted /\ writes > 0 => row # NoLicense
  /\ Written(row)
  /\ \A p \in Processes : Written(cache[p]) /\ Current(cache[p])
  /\ \A p \in Processes : \A e \in Pending(p) : Written(e.reply) /\ Current(e.reply)
  /\ ~deleted => \A key \in told : row # NoLicense /\ key = row.key

(* A license is read again after it was written. *)
Rereads ==
  \A p \in Processes : \A e \in Pending(p) :
    /\ e.op = "reread" \/ (e.op = "insert" /\ e.status = "done") => writes > 0
    /\ e.op = "reread" /\ e.status = "done" /\ ~deleted => e.reply # NoLicense

(* What a lost connection leaves behind. *)
Losses ==
  /\ \A p \in Processes : answer[p] = "error" => troubled[p] \/ db[p] = "dead"
  /\ \A p \in Processes : db[p] = "dead" => faults > 0
  /\ \A p \in Processes : \A e \in Pending(p) : e.status = "failed" =>
       /\ faults > 0
       /\ e.job = "register" => troubled[p] \/ db[p] = "dead"

(* Notices without a license, and the processes they stop. *)
Stops ==
  (\E p \in Processes : \E i \in DOMAIN notices[p] : notices[p][i] = "nothing")
  \/ stopped # {} => deleted \/ faults > 0

(***************************************************************************)
(* Why p may hold an outdated license.  Another process has changed the    *)
(* row and has yet to tell; p itself changed it and has yet to handle the  *)
(* reply, upon which it forgets what it cached or holds it by its own      *)
(* doing.  That p is about to read the license again is no reason: its     *)
(* notification goes to the others.                                        *)
(***************************************************************************)
Changed(e) == e.op \in {"insert", "delete"} /\ e.status = "done"

Reason(p) ==
  \/ excused[p] \/ notices[p] # <<>>
  \/ \E q \in Processes \ {p} : \E e \in Pending(q) : Changed(e) \/ e.op = "reread"
  \/ \E e \in Pending(p) : Changed(e)
  \/ faults > 0 \/ stopped # {}

Outdated == \A p \in Processes : cache[p] \notin {NoLicense, row} => Reason(p)

LicenseInv == Types /\ Order /\ Keys /\ Rereads /\ Losses /\ Stops /\ Outdated

-----------------------------------------------------------------------------
(***************************************************************************)
(* What the actions do to the connection of p and its queries.             *)
(***************************************************************************)
Asked(p, q, before) ==
  \/ /\ db[p] = "none" /\ db' = [db EXCEPT ![p] = "connecting"]
     /\ opener' = [opener EXCEPT ![p] = <<q>>] /\ queue' = before
  \/ /\ db[p] = "dead" /\ UNCHANGED <<db, opener>>
     /\ queue' = [before EXCEPT ![p] = Append(@, [q EXCEPT !.status = "failed"])]
  \/ /\ db[p] \notin {"none", "dead"} /\ UNCHANGED <<db, opener>>
     /\ queue' = [before EXCEPT ![p] = Append(@, q)]

Rest(p) == [queue EXCEPT ![p] = Tail(@)]
Popping(p) == queue[p] # <<>> /\ queue' = Rest(p) /\ UNCHANGED <<db, opener>>
Idle == UNCHANGED <<db, opener, queue>>

LEMMA LookupEffect ==
  ASSUME NEW p \in Processes, Lookup(p)
  PROVE  /\ Asked(p, Query("select", "lookup"), queue)
         /\ UNCHANGED <<cache, syncLicenses, asking, notices, stopped, told, answer,
                        troubled, excused, table, faults>>
BY DEF Lookup, Becomes, State, Ask, Asked

(* The reply of a select may be cached. *)
Cached(p) ==
  \/ UNCHANGED <<cache, excused>>
  \/ /\ Head(queue[p]).reply # NoLicense
     /\ cache' = [cache EXCEPT ![p] = Head(queue[p]).reply]
     /\ excused' = [excused EXCEPT ![p] = Head(queue[p]).reply # row]

LEMMA SelectedEffect ==
  ASSUME NEW p \in Processes, Types, Selected(p)
  PROVE  /\ \/ Popping(p)
            \/ \E q \in {Query("delete", "unregister"), Query("update", "sync")} :
                 Asked(p, q, Rest(p))
         /\ UNCHANGED <<asking, notices, stopped, told, answer,
                        troubled, table, faults>>
         /\ Answered(p, "select", "done")
         /\ syncLicenses' = syncLicenses \/ syncLicenses' = [syncLicenses EXCEPT ![p] = FALSE]
         /\ Cached(p)
<1> DEFINE s == Fill(Popped(p), p, Found(p))
           end == [s EXCEPT !.syncLicenses[p] = FALSE]
<1>1. Answered(p, "select", "done")
  BY DEF Selected
<1>2. Job(p) \in {"lookup", "unregister", "sync"}
  <2>1. Head(queue[p]) \in QueryType
    BY <1>1 DEF Answered, Types
  <2> QED BY <1>1, <2>1 DEF QueryType, Job, Answered
<1>3. \/ Becomes(s) \/ Becomes(end)
      \/ \E q \in {Query("delete", "unregister"), Query("update", "sync")} : Becomes(Ask(s, p, q))
  BY <1>2 DEF Selected, EndCheck
<1>4. \/ s = [State EXCEPT !.queue[p] = Tail(@)]
      \/ /\ Found(p) # NoLicense
         /\ s = [State EXCEPT !.queue[p] = Tail(@), !.cache[p] = Found(p), !.excused[p] = Found(p) # row]
  BY DEF Fill, Popped, State
<1>5. UNCHANGED <<table, faults>>
  BY DEF Selected
<1>6. CASE Becomes(s)
  BY <1>1, <1>4, <1>5, <1>6 DEF Answered, Found, Becomes, State, Popping, Rest, Cached
<1>7. CASE Becomes(end)
  BY <1>1, <1>4, <1>5, <1>7 DEF Answered, Found, Becomes, State, Popping, Rest, Cached
<1>8. ASSUME NEW q, Becomes(Ask(s, p, q))
      PROVE  /\ Asked(p, q, Rest(p))
             /\ UNCHANGED <<asking, notices, stopped, told, answer, troubled, syncLicenses>>
             /\ Cached(p)
  <2>1. CASE s = [State EXCEPT !.queue[p] = Tail(@)]
    BY <1>8, <2>1 DEF Becomes, State, Ask, Asked, Rest, Cached
  <2>2. CASE /\ Found(p) # NoLicense
             /\ s = [State EXCEPT !.queue[p] = Tail(@), !.cache[p] = Found(p), !.excused[p] = Found(p) # row]
    BY <1>8, <2>2 DEF Found, Becomes, State, Ask, Asked, Rest, Cached
  <2> QED BY <1>4, <2>1, <2>2
<1> HIDE DEF s, end
<1> QED BY <1>1, <1>3, <1>5, <1>6, <1>7, <1>8

LEMMA RegisterEffect ==
  ASSUME NEW p \in Processes, Register(p)
  PROVE  /\ Idle
         /\ asking' = [asking EXCEPT ![p]["register"] = @ + 1]
         /\ answer' = [answer EXCEPT ![p] = "none"]
         /\ troubled' = [troubled EXCEPT ![p] = @ /\ ~IdleRegister(p)]
         /\ UNCHANGED <<cache, syncLicenses, notices, stopped, told, excused, table, faults>>
BY DEF Register, Becomes, State, Idle

LEMMA UnregisterEffect ==
  ASSUME NEW p \in Processes, Unregister(p)
  PROVE  /\ Asked(p, Query("select", "unregister"), queue)
         /\ cache' = [cache EXCEPT ![p] = NoLicense]
         /\ syncLicenses' = [syncLicenses EXCEPT ![p] = FALSE]
         /\ excused' = [excused EXCEPT ![p] = FALSE]
         /\ UNCHANGED <<asking, notices, stopped, told, answer, troubled, table, faults>>
BY DEF Unregister, Becomes, State, Refresh, Ask, Asked

LEMMA SyncEffect ==
  ASSUME NEW p \in Processes, Sync(p)
  PROVE  /\ Asked(p, Query("select", "sync"), queue)
         /\ syncLicenses' = [syncLicenses EXCEPT ![p] = TRUE]
         /\ UNCHANGED <<cache, asking, notices, stopped, told, answer, troubled, excused,
                        table, faults>>
BY DEF Sync, Becomes, State, Ask, Asked

LEMMA VerifiedEffect ==
  ASSUME NEW p \in Processes, NEW job \in {"register", "sync"}, Verified(p, job)
  PROVE  /\ Asked(p, Query("insert", job), queue)
         /\ asking[p][job] > 0 /\ asking' = [asking EXCEPT ![p][job] = @ - 1]
         /\ UNCHANGED <<cache, syncLicenses, notices, stopped, told, answer, troubled, excused,
                        table, faults>>
BY DEF Verified, Becomes, State, Ask, Asked

LEMMA RefusedEffect ==
  ASSUME NEW p \in Processes, Types, NEW job \in {"register", "sync"}, Refused(p, job)
  PROVE  /\ Idle
         /\ asking[p][job] > 0 /\ asking' = [asking EXCEPT ![p][job] = @ - 1]
         /\ answer' = answer \/ answer' = [answer EXCEPT ![p] = "refused"]
         /\ UNCHANGED <<cache, syncLicenses, notices, stopped, told, troubled, excused,
                        table, faults>>
BY DEF Refused, Becomes, State, Idle, Types

LEMMA CacheExpiresEffect ==
  ASSUME NEW p \in Processes, CacheExpires(p)
  PROVE  /\ Idle
         /\ cache' = [cache EXCEPT ![p] = NoLicense]
         /\ excused' = [excused EXCEPT ![p] = FALSE]
         /\ UNCHANGED <<syncLicenses, asking, notices, stopped, told, answer, troubled,
                        table, faults>>
BY DEF CacheExpires, Becomes, State, Idle

LEMMA HandleNoticeEffect ==
  ASSUME NEW p \in Processes, HandleNotice(p)
  PROVE  /\ Idle
         /\ notices[p] # <<>> /\ notices' = [notices EXCEPT ![p] = Tail(@)]
         /\ \/ /\ cache' = [cache EXCEPT ![p] = NoLicense]
               /\ syncLicenses' = [syncLicenses EXCEPT ![p] = FALSE]
               /\ excused' = [excused EXCEPT ![p] = FALSE]
               /\ stopped' = stopped
            \/ /\ Head(notices[p]) # "license" /\ stopped' = stopped \cup {p}
               /\ UNCHANGED <<cache, syncLicenses, excused>>
         /\ UNCHANGED <<asking, told, answer, troubled, table, faults>>
<1>1. CASE Head(notices[p]) = "license"
  BY <1>1 DEF HandleNotice, Refresh, Becomes, State, Idle
<1>2. CASE Head(notices[p]) # "license"
  BY <1>2 DEF HandleNotice, Becomes, State, Idle
<1> QED BY <1>1, <1>2

LEMMA NoticeLostEffect ==
  ASSUME NEW p \in Processes, NoticeLost(p)
  PROVE  /\ Idle
         /\ notices[p] # <<>> /\ notices' = [notices EXCEPT ![p] = Tail(@)]
         /\ excused' = [excused EXCEPT ![p] = @ \/ cache[p] \notin {NoLicense, row}]
         /\ UNCHANGED <<cache, syncLicenses, asking, stopped, told, answer, troubled,
                        table, faults>>
BY DEF NoticeLost, Becomes, State, Idle

(* The head of the queue is answered with the row. *)
Executed(p) == [queue[p][1] EXCEPT !.status = "done", !.reply = row]

LEMMA ExecuteEffect ==
  ASSUME NEW p \in Processes, Execute(p)
  PROVE  /\ db[p] = "up" /\ queue[p] # <<>> /\ Head(queue[p]).status = "sent"
         /\ row' = CASE Head(queue[p]).op = "insert" -> Upsert(writes + 1)
                     [] Head(queue[p]).op = "delete" -> NoLicense
                     [] OTHER -> row
         /\ writes' = IF Head(queue[p]).op = "insert" THEN writes + 1 ELSE writes
         /\ deleted' = (deleted \/ Head(queue[p]).op = "delete")
         /\ queue' = [queue EXCEPT ![p][1] = Executed(p)]
         /\ UNCHANGED <<cache, syncLicenses, db, opener, asking, notices, stopped,
                        told, answer, troubled, excused, faults>>
<1>1. /\ db[p] = "up" /\ queue[p] # <<>> /\ Head(queue[p]).status = "sent"
      /\ UNCHANGED <<starts, faults>>
      /\ Becomes([State EXCEPT !.queue[p][1] = [@ EXCEPT !.status = "done", !.reply = row]])
  BY DEF Execute
<1>2. /\ row' = CASE Head(queue[p]).op = "insert" -> Upsert(writes + 1)
                  [] Head(queue[p]).op = "delete" -> NoLicense
                  [] OTHER -> row
      /\ writes' = IF Head(queue[p]).op = "insert" THEN writes + 1 ELSE writes
  BY DEF Execute
<1>3. deleted' = (deleted \/ Head(queue[p]).op = "delete")
  BY ZenonT(30) DEF Execute
<1>4. /\ queue' = [queue EXCEPT ![p][1] = Executed(p)]
      /\ UNCHANGED <<cache, syncLicenses, db, opener, asking, notices, stopped,
                     told, answer, troubled, excused>>
  <2>1. State.queue = queue
    BY DEF State
  <2>2. Becomes([State EXCEPT !.queue[p][1] = Executed(p)])
    BY <1>1, <2>1, Zenon DEF Executed
  <2> QED BY <2>2 DEF Becomes, State
<1> QED BY <1>1, <1>2, <1>3, <1>4

LEMMA ConnectedEffect ==
  ASSUME NEW p \in Processes, Connected(p)
  PROVE  /\ db[p] = "connecting" /\ db' = [db EXCEPT ![p] = "up"]
         /\ queue' = [queue EXCEPT ![p] = @ \o opener[p]]
         /\ opener' = [opener EXCEPT ![p] = <<>>]
         /\ UNCHANGED <<cache, syncLicenses, asking, notices, stopped,
                        told, answer, troubled, excused, table, faults>>
BY DEF Connected, Becomes, State

LEMMA BrokenEffect ==
  ASSUME NEW p \in Processes, Types, Broken(p)
  PROVE  /\ db[p] \in {"connecting", "up"} /\ faults' = faults + 1
         /\ db' = [db EXCEPT ![p] = "dead"] \/ db' = [db EXCEPT ![p] = "none"]
         /\ queue' = [queue EXCEPT ![p] = Failing(opener[p] \o @)]
         /\ opener' = [opener EXCEPT ![p] = <<>>]
         /\ troubled' = [troubled EXCEPT ![p] = TRUE]
         /\ UNCHANGED <<cache, syncLicenses, asking, notices, stopped,
                        told, answer, excused, table>>
BY DEF Broken, Becomes, State, Types

(* The others are told. *)
Posted(p, notice) ==
  notices' = [q \in Processes |-> IF q = p THEN notices[q] ELSE Append(notices[q], notice)]

LEMMA RemovedEffect ==
  ASSUME NEW p \in Processes, Removed(p)
  PROVE  /\ Popping(p) /\ Answered(p, "delete", "done")
         /\ Posted(p, "license")
         /\ excused' = [excused EXCEPT ![p] = TRUE]
         /\ UNCHANGED <<cache, syncLicenses, asking, stopped, told, answer, troubled,
                        table, faults>>
BY DEF Removed, Answered, Popped, Post, Posted, Becomes, State, Popping, Rest

LEMMA CheckedEffect ==
  ASSUME NEW p \in Processes, Checked(p)
  PROVE  /\ Popping(p) /\ Answered(p, "update", "done")
         /\ syncLicenses' = [syncLicenses EXCEPT ![p] = FALSE]
         /\ asking' = [asking EXCEPT ![p]["sync"] = @ + 1]
         /\ UNCHANGED <<cache, notices, stopped, told, answer, troubled, excused,
                        table, faults>>
BY DEF Checked, Answered, Popped, EndCheck, Becomes, State, Popping, Rest

LEMMA SavedEffect ==
  ASSUME NEW p \in Processes, Saved(p)
  PROVE  /\ Asked(p, Query("reread", Job(p)), Rest(p)) /\ Answered(p, "insert", "done")
         /\ cache' = [cache EXCEPT ![p] = NoLicense]
         /\ syncLicenses' = [syncLicenses EXCEPT ![p] = FALSE]
         /\ excused' = [excused EXCEPT ![p] = FALSE]
         /\ UNCHANGED <<asking, notices, stopped, told, answer, troubled, table, faults>>
<1> DEFINE s == [State EXCEPT !.queue[p] = Tail(@), !.cache[p] = NoLicense,
                              !.syncLicenses[p] = FALSE, !.excused[p] = FALSE]
<1>1. Refresh(Popped(p), p) = s
  BY DEF Refresh, Popped, State
<1>2. Becomes(Ask(s, p, Query("reread", Job(p))))
  BY <1>1 DEF Saved
<1>3. Answered(p, "insert", "done") /\ UNCHANGED <<table, faults>>
  BY DEF Saved
<1>4. ASSUME NEW q, NEW t, Becomes(Ask(t, p, q)),
             t = [State EXCEPT !.queue[p] = Tail(@), !.cache[p] = NoLicense,
                               !.syncLicenses[p] = FALSE, !.excused[p] = FALSE]
      PROVE  /\ Asked(p, q, Rest(p))
             /\ cache' = [cache EXCEPT ![p] = NoLicense]
             /\ syncLicenses' = [syncLicenses EXCEPT ![p] = FALSE]
             /\ excused' = [excused EXCEPT ![p] = FALSE]
             /\ UNCHANGED <<asking, notices, stopped, told, answer, troubled>>
  BY <1>4 DEF Becomes, State, Ask, Asked, Rest
<1> QED BY <1>2, <1>3, <1>4

LEMMA RereadEffect ==
  ASSUME NEW p \in Processes, Types, Reread(p)
  PROVE  /\ Popping(p)
         /\ Answered(p, "reread", "done") \/ Answered(p, "reread", "failed")
         /\ Cached(p)
         /\ \/ /\ Head(queue[p]).status = "done" /\ Head(queue[p]).reply # NoLicense
               /\ Posted(p, "license") /\ stopped' = stopped
               /\ \/ UNCHANGED <<told, answer>>
                  \/ /\ told' = told \cup {Head(queue[p]).reply.key}
                     /\ answer' = [answer EXCEPT ![p] = "key"]
            \/ /\ Head(queue[p]).status = "done" => Head(queue[p]).reply = NoLicense
               /\ Posted(p, "nothing") /\ UNCHANGED <<told, answer>>
               /\ stopped' = stopped \/ stopped' = stopped \cup {p}
         /\ UNCHANGED <<syncLicenses, asking, troubled, table, faults>>
<1> DEFINE license == IF Head(queue[p]).status = "done" THEN Found(p) ELSE NoLicense
           posted == [q \in Processes |->
                        IF q = p THEN notices[q] ELSE Append(notices[q], "license")]
           found == [State EXCEPT !.queue[p] = Tail(@), !.notices = posted,
                                  !.cache[p] = license, !.excused[p] = license # row]
           lost == [State EXCEPT !.queue[p] = Tail(@), !.notices = [q \in Processes |->
                       IF q = p THEN @[q] ELSE Append(@[q], "nothing")]]
           s == Post(Fill(Popped(p), p, license), p,
                     IF license = NoLicense THEN "nothing" ELSE "license")
<1>1. /\ Answered(p, "reread", "done") \/ Answered(p, "reread", "failed")
      /\ UNCHANGED <<table, faults>>
  BY DEF Reread
<1>2. CASE license = NoLicense
  <2>1. s = lost
    BY <1>2 DEF Fill, Popped, Post, State
  <2>2. Becomes(s) \/ Becomes([s EXCEPT !.stopped = @ \cup {p}]) \/ Becomes([s EXCEPT !.stopped = @ \cup {}])
    BY <1>2 DEF Reread
  <2>3. Becomes(lost) \/ Becomes([lost EXCEPT !.stopped = @ \cup {p}]) \/ Becomes([lost EXCEPT !.stopped = @ \cup {}])
    BY <2>1, <2>2
  <2> QED BY <1>1, <1>2, <2>3 DEF Answered, Found, Becomes, State, Popping, Rest, Posted, Cached
<1>3. CASE license # NoLicense
  <2>1. s = found
    <3>1. Fill(Popped(p), p, license) =
            [State EXCEPT !.queue[p] = Tail(@), !.cache[p] = license, !.excused[p] = license # row]
      BY <1>3 DEF Fill, Popped, State
    <3>2. ASSUME NEW t, t.notices = notices
          PROVE  Post(t, p, "license") = [t EXCEPT !.notices = posted]
      BY <3>2, Zenon DEF Post
    <3>3. [State EXCEPT !.queue[p] = Tail(@), !.cache[p] = license,
                        !.excused[p] = license # row].notices = notices
      BY DEF State
    <3>4. s = [[State EXCEPT !.queue[p] = Tail(@), !.cache[p] = license,
                        !.excused[p] = license # row] EXCEPT !.notices = posted]
      BY <1>3, <3>1, <3>2, <3>3
    <3> HIDE DEF s, posted, license
    <3> QED BY <3>4 DEF State, found
  <2>2. Becomes(s) \/ Becomes([s EXCEPT !.told = @ \cup {license.key}, !.answer[p] = "key"])
    BY <1>3 DEF Reread
  <2>3. Becomes(found) \/ Becomes([found EXCEPT !.told = @ \cup {license.key}, !.answer[p] = "key"])
    BY <2>1, <2>2
  <2>4. Head(queue[p]).status = "done" /\ license = Head(queue[p]).reply
    BY <1>3 DEF Found
  <2> QED BY <1>1, <1>3, <2>3, <2>4 DEF Answered, Becomes, State, Popping, Rest, Posted, Cached
<1> QED BY <1>2, <1>3

LEMMA FailedEffect ==
  ASSUME NEW p \in Processes, Types, Failed(p)
  PROVE  /\ Popping(p)
         /\ \E op \in {"select", "delete", "update", "insert"} : Answered(p, op, "failed")
         /\ syncLicenses' = syncLicenses \/ syncLicenses' = [syncLicenses EXCEPT ![p] = FALSE]
         /\ \/ answer' = answer
            \/ Job(p) = "register" /\ answer' = [answer EXCEPT ![p] = "error"]
         /\ UNCHANGED <<cache, asking, notices, stopped, told, troubled, excused, table, faults>>
<1>1. \E op \in {"select", "delete", "update", "insert"} : Answered(p, op, "failed")
  BY DEF Failed
<1>2. queue[p] # <<>>
  BY <1>1 DEF Answered
<1>3. \E end \in BOOLEAN :
        Becomes([(IF end THEN EndCheck(Popped(p), p) ELSE Popped(p))
                 EXCEPT !.answer[p] = IF Job(p) = "register" THEN "error" ELSE @])
  BY DEF Failed
<1>4. UNCHANGED <<table, faults>>
  BY DEF Failed
<1>5. PICK end \in BOOLEAN :
        Becomes([(IF end THEN EndCheck(Popped(p), p) ELSE Popped(p))
                 EXCEPT !.answer[p] = IF Job(p) = "register" THEN "error" ELSE @])
  BY <1>3
<1>6. CASE end
  BY <1>1, <1>2, <1>4, <1>5, <1>6 DEF Popped, EndCheck, Becomes, State, Popping, Rest, Types
<1>7. CASE ~end
  BY <1>1, <1>2, <1>4, <1>5, <1>7 DEF Popped, Becomes, State, Popping, Rest, Types
<1> QED BY <1>6, <1>7
-----------------------------------------------------------------------------
(* Sequences of queries. *)
LEMMA AppendSeq ==
  ASSUME NEW S, NEW s \in Seq(S), NEW e \in S
  PROVE  /\ Append(s, e) \in Seq(S)
         /\ Append(s, e) # <<>>
         /\ DOMAIN Append(s, e) = DOMAIN s \cup {Len(s) + 1}
         /\ \A i \in DOMAIN s : Append(s, e)[i] = s[i]
         /\ Append(s, e)[Len(s) + 1] = e
<1>1. Len(s) \in Nat /\ DOMAIN s = 1..Len(s)
  OBVIOUS
<1> QED BY <1>1

LEMMA TailSeq ==
  ASSUME NEW S, NEW s \in Seq(S), s # <<>>
  PROVE  /\ Tail(s) \in Seq(S)
         /\ Head(s) = s[1] /\ 1 \in DOMAIN s
         /\ \A i \in DOMAIN Tail(s) : i + 1 \in DOMAIN s /\ i \in Nat \ {0} /\ Tail(s)[i] = s[i + 1]
         /\ \A i \in DOMAIN s : i # 1 => i - 1 \in DOMAIN Tail(s) /\ Tail(s)[i - 1] = s[i]
OBVIOUS

LEMMA ConcatSeq ==
  ASSUME NEW S, NEW s \in Seq(S), NEW t \in Seq(S)
  PROVE  /\ s \o t \in Seq(S)
         /\ \A i \in DOMAIN (s \o t) : \/ i \in DOMAIN s /\ (s \o t)[i] = s[i]
                                       \/ \E j \in DOMAIN t : (s \o t)[i] = t[j]
         /\ \A i \in DOMAIN s : i \in DOMAIN (s \o t) /\ (s \o t)[i] = s[i]
         /\ \A j \in DOMAIN t : \E i \in DOMAIN (s \o t) : (s \o t)[i] = t[j]
<1>1. /\ Len(s) \in Nat /\ DOMAIN s = 1..Len(s)
      /\ Len(t) \in Nat /\ DOMAIN t = 1..Len(t)
      /\ s \o t \in Seq(S) /\ DOMAIN (s \o t) = 1..(Len(s) + Len(t))
  BY ConcatProperties
<1>2. \A i \in 1..Len(s) + Len(t) : (s \o t)[i] = IF i <= Len(s) THEN s[i] ELSE t[i - Len(s)]
  BY ConcatProperties
<1>3. \A j \in DOMAIN t : j + Len(s) \in DOMAIN (s \o t) /\ (s \o t)[j + Len(s)] = t[j]
  BY <1>1, <1>2
<1>4. \A i \in DOMAIN (s \o t) : i \in DOMAIN s \/ i - Len(s) \in DOMAIN t
  BY <1>1
<1>5. ASSUME NEW i \in DOMAIN (s \o t)
      PROVE  \/ i \in DOMAIN s /\ (s \o t)[i] = s[i]
             \/ \E j \in DOMAIN t : (s \o t)[i] = t[j]
  <2>1. CASE i \in DOMAIN s
    BY <1>1, <1>2, <2>1
  <2>2. CASE i \notin DOMAIN s
    <3>1. i - Len(s) \in DOMAIN t /\ (s \o t)[i] = t[i - Len(s)]
      BY <1>1, <1>2, <1>4, <2>2
    <3> QED BY <3>1
  <2> QED BY <2>1, <2>2
<1>6. \A i \in DOMAIN s : i \in DOMAIN (s \o t) /\ (s \o t)[i] = s[i]
  BY <1>1, <1>2
<1> QED BY <1>1, <1>3, <1>5, <1>6

LEMMA FailingSeq ==
  ASSUME NEW s \in Seq(QueryType)
  PROVE  /\ Failing(s) \in Seq(QueryType)
         /\ DOMAIN Failing(s) = DOMAIN s
         /\ \A i \in DOMAIN s : /\ Failing(s)[i] = [s[i] EXCEPT !.status = "failed"]
                                /\ Failing(s)[i].status = "failed"
                                /\ Failing(s)[i].op = s[i].op /\ Failing(s)[i].job = s[i].job
                                /\ Failing(s)[i].reply = s[i].reply
<1>1. DOMAIN s = 1..Len(s) /\ Len(s) \in Nat
  OBVIOUS
<1>2. \A i \in DOMAIN s : s[i] \in QueryType
  BY <1>1
<1>3. \A e \in QueryType : [e EXCEPT !.status = "failed"] \in QueryType
  BY DEF QueryType
<1>4. Failing(s) \in [1..Len(s) -> QueryType]
  BY <1>1, <1>2, <1>3 DEF Failing
<1>5. \A e \in QueryType : LET f == [e EXCEPT !.status = "failed"]
                           IN  f.status = "failed" /\ f.op = e.op /\ f.job = e.job /\ f.reply = e.reply
  BY DEF QueryType
<1>6. Failing(s) \in Seq(QueryType) /\ DOMAIN Failing(s) = DOMAIN s
  BY <1>1, <1>4
<1>7. ASSUME NEW i \in DOMAIN s
      PROVE  /\ Failing(s)[i] = [s[i] EXCEPT !.status = "failed"]
             /\ Failing(s)[i].status = "failed"
             /\ Failing(s)[i].op = s[i].op /\ Failing(s)[i].job = s[i].job
             /\ Failing(s)[i].reply = s[i].reply
  <2>1. Failing(s)[i] = [s[i] EXCEPT !.status = "failed"] /\ s[i] \in QueryType
    BY <1>2 DEF Failing
  <2> QED BY <1>5, <2>1
<1> QED BY <1>6, <1>7

-----------------------------------------------------------------------------
(* The types. *)
LEMMA QueryTypes ==
  /\ \A op \in {"insert", "update", "delete", "reread"} :
     \A job \in {"lookup", "register", "unregister", "sync"} : Query(op, job) \in QueryType
  /\ \A job \in {"lookup", "unregister", "sync"} : Query("select", job) \in QueryType
BY DEF Query, QueryType, AnyLicense

LEMMA AskedTypes ==
  ASSUME Types, NEW p \in Processes, NEW q \in QueryType, NEW before,
         before \in [Processes -> Seq(QueryType)], Asked(p, q, before)
  PROVE  /\ db' \in [Processes -> {"none", "connecting", "up", "dead"}]
         /\ opener' \in [Processes -> Seq(QueryType)]
         /\ queue' \in [Processes -> Seq(QueryType)]
<1>1. /\ db \in [Processes -> {"none", "connecting", "up", "dead"}]
      /\ opener \in [Processes -> Seq(QueryType)]
      /\ <<q>> \in Seq(QueryType)
  BY DEF Types
<1>2. [q EXCEPT !.status = "failed"] \in QueryType
  BY DEF QueryType
<1>3. /\ Append(before[p], q) \in Seq(QueryType)
      /\ Append(before[p], [q EXCEPT !.status = "failed"]) \in Seq(QueryType)
  BY <1>2, AppendSeq
<1> QED BY <1>1, <1>3 DEF Asked

LEMMA RestTypes ==
  ASSUME Types, NEW p \in Processes, queue[p] # <<>>
  PROVE  /\ Rest(p) \in [Processes -> Seq(QueryType)]
         /\ Head(queue[p]) \in QueryType /\ Head(queue[p]) = queue[p][1] /\ 1 \in DOMAIN queue[p]
<1>1. queue \in [Processes -> Seq(QueryType)] /\ queue[p] \in Seq(QueryType)
  BY DEF Types
<1>2. Tail(queue[p]) \in Seq(QueryType)
  BY <1>1, TailSeq
<1> QED BY <1>1, <1>2, TailSeq DEF Rest

LEMMA PostedTypes ==
  ASSUME Types, NEW p \in Processes, NEW notice \in {"license", "nothing"}, Posted(p, notice)
  PROVE  notices' \in [Processes -> Seq({"license", "nothing"})]
<1>1. \A q \in Processes : Append(notices[q], notice) \in Seq({"license", "nothing"})
  BY AppendSeq DEF Types
<1> QED BY <1>1 DEF Posted, Types

LEMMA CachedTypes ==
  ASSUME Types, NEW p \in Processes, Cached(p), queue[p] # <<>>
  PROVE  cache' \in [Processes -> AnyLicense] /\ excused' \in [Processes -> BOOLEAN]
<1>1. Head(queue[p]).reply \in AnyLicense
  BY RestTypes DEF QueryType
<1>2. cache \in [Processes -> AnyLicense] /\ excused \in [Processes -> BOOLEAN]
  BY DEF Types
<1> QED BY <1>1, <1>2 DEF Cached

(* The marks of a process, when one is set or cleared. *)
LEMMA ClearedTypes ==
  ASSUME Types, NEW p \in Processes
  PROVE  /\ [cache EXCEPT ![p] = NoLicense] \in [Processes -> AnyLicense]
         /\ [syncLicenses EXCEPT ![p] = FALSE] \in [Processes -> BOOLEAN]
         /\ [excused EXCEPT ![p] = FALSE] \in [Processes -> BOOLEAN]
         /\ [troubled EXCEPT ![p] = FALSE] \in [Processes -> BOOLEAN]
<1>1. /\ cache \in [Processes -> AnyLicense] /\ syncLicenses \in [Processes -> BOOLEAN]
      /\ excused \in [Processes -> BOOLEAN] /\ troubled \in [Processes -> BOOLEAN]
      /\ NoLicense \in AnyLicense
  BY DEF Types, AnyLicense
<1> QED BY <1>1

LEMMA MarkedTypes ==
  ASSUME Types, NEW p \in Processes
  PROVE  /\ [syncLicenses EXCEPT ![p] = TRUE] \in [Processes -> BOOLEAN]
         /\ [excused EXCEPT ![p] = TRUE] \in [Processes -> BOOLEAN]
         /\ [troubled EXCEPT ![p] = TRUE] \in [Processes -> BOOLEAN]
<1>1. /\ syncLicenses \in [Processes -> BOOLEAN]
      /\ excused \in [Processes -> BOOLEAN] /\ troubled \in [Processes -> BOOLEAN]
  BY DEF Types
<1> QED BY <1>1

LEMMA AnswerTypes ==
  ASSUME Types, NEW p \in Processes, NEW a \in {"none", "key", "refused", "error"}
  PROVE  [answer EXCEPT ![p] = a] \in [Processes -> {"none", "key", "refused", "error"}]
<1>1. answer \in [Processes -> {"none", "key", "refused", "error"}]
  BY DEF Types
<1> QED BY <1>1

LEMMA AskingTypes ==
  ASSUME Types, NEW p \in Processes, NEW job \in {"register", "sync"}
  PROVE  /\ [asking EXCEPT ![p][job] = @ + 1] \in [Processes -> [{"register", "sync"} -> Nat]]
         /\ asking[p][job] > 0 =>
              [asking EXCEPT ![p][job] = @ - 1] \in [Processes -> [{"register", "sync"} -> Nat]]
<1>1. /\ asking \in [Processes -> [{"register", "sync"} -> Nat]]
      /\ asking[p] \in [{"register", "sync"} -> Nat] /\ asking[p][job] \in Nat
  BY DEF Types
<1>2. /\ asking[p][job] + 1 \in Nat
      /\ asking[p][job] > 0 => asking[p][job] - 1 \in Nat
  BY <1>1
<1>3. ASSUME NEW n \in Nat
      PROVE  [asking EXCEPT ![p][job] = n] \in [Processes -> [{"register", "sync"} -> Nat]]
  BY <1>1
<1> QED BY <1>2, <1>3

LEMMA ReplyTypes ==
  ASSUME Types, NEW p \in Processes, Reply(p)
  PROVE  Types'
<1>1. CASE Selected(p)
  <2>1. \A q \in {Query("delete", "unregister"), Query("update", "sync")} : q \in QueryType
    BY QueryTypes
  <2>2. queue[p] # <<>>
    BY <1>1, SelectedEffect DEF Answered
  <2>3. /\ db' \in [Processes -> {"none", "connecting", "up", "dead"}]
        /\ opener' \in [Processes -> Seq(QueryType)]
        /\ queue' \in [Processes -> Seq(QueryType)]
    <3>1. CASE Popping(p)
      BY <2>2, <3>1, RestTypes DEF Popping, Types
    <3>2. ASSUME NEW q \in {Query("delete", "unregister"), Query("update", "sync")},
                 Asked(p, q, Rest(p))
          PROVE  /\ db' \in [Processes -> {"none", "connecting", "up", "dead"}]
                 /\ opener' \in [Processes -> Seq(QueryType)]
                 /\ queue' \in [Processes -> Seq(QueryType)]
      BY <2>1, <2>2, <3>2, AskedTypes, RestTypes
    <3> QED BY <1>1, <3>1, <3>2, SelectedEffect
  <2>4. cache' \in [Processes -> AnyLicense] /\ excused' \in [Processes -> BOOLEAN]
    BY <1>1, <2>2, SelectedEffect, CachedTypes
  <2> QED BY <1>1, <2>3, <2>4, SelectedEffect DEF Types, table
<1>2. CASE Removed(p)
  <2>1. notices' \in [Processes -> Seq({"license", "nothing"})]
    BY <1>2, RemovedEffect, PostedTypes
  <2>2. excused' \in [Processes -> BOOLEAN]
    BY <1>2, RemovedEffect, MarkedTypes
  <2>3. Popping(p) /\ queue' \in [Processes -> Seq(QueryType)]
    BY <1>2, RemovedEffect, RestTypes DEF Popping
  <2> QED BY <1>2, <2>1, <2>2, <2>3, RemovedEffect DEF Types, table, Popping
<1>3. CASE Checked(p)
  <2>1. /\ syncLicenses' \in [Processes -> BOOLEAN]
        /\ asking' \in [Processes -> [{"register", "sync"} -> Nat]]
    <3>1. syncLicenses \in [Processes -> BOOLEAN]
      BY DEF Types
    <3>2. /\ syncLicenses' = [syncLicenses EXCEPT ![p] = FALSE]
          /\ asking' = [asking EXCEPT ![p]["sync"] = @ + 1]
      BY <1>3, CheckedEffect
    <3> QED BY <3>1, <3>2, AskingTypes
  <2>2. Popping(p) /\ queue' \in [Processes -> Seq(QueryType)]
    BY <1>3, CheckedEffect, RestTypes DEF Popping
  <2> QED BY <1>3, <2>1, <2>2, CheckedEffect DEF Types, table, Popping
<1>4. CASE Saved(p)
  <2>1. queue[p] # <<>> /\ Head(queue[p]).op = "insert"
    BY <1>4, SavedEffect DEF Answered
  <2>2. Query("reread", Job(p)) \in QueryType
    BY <2>1, RestTypes, QueryTypes DEF QueryType, Job
  <2>3. /\ db' \in [Processes -> {"none", "connecting", "up", "dead"}]
        /\ opener' \in [Processes -> Seq(QueryType)]
        /\ queue' \in [Processes -> Seq(QueryType)]
    BY <1>4, <2>1, <2>2, SavedEffect, AskedTypes, RestTypes
  <2>4. /\ cache' \in [Processes -> AnyLicense] /\ excused' \in [Processes -> BOOLEAN]
        /\ syncLicenses' \in [Processes -> BOOLEAN]
    BY <1>4, SavedEffect, ClearedTypes
  <2> QED BY <1>4, <2>3, <2>4, SavedEffect DEF Types, table
<1>5. CASE Reread(p)
  <2>1. queue[p] # <<>>
    BY <1>5, RereadEffect DEF Answered
  <2>2. cache' \in [Processes -> AnyLicense] /\ excused' \in [Processes -> BOOLEAN]
    BY <1>5, <2>1, RereadEffect, CachedTypes
  <2>3. notices' \in [Processes -> Seq({"license", "nothing"})]
    BY <1>5, RereadEffect, PostedTypes
  <2>4. /\ UNCHANGED <<syncLicenses, asking, troubled, table, faults, db, opener>>
        /\ queue' = Rest(p)
        /\ stopped' = stopped \/ stopped' = stopped \cup {p}
        /\ answer' = answer \/ answer' = [answer EXCEPT ![p] = "key"]
    BY <1>5, RereadEffect DEF Popping
  <2> QED BY <2>1, <2>2, <2>3, <2>4, RestTypes DEF Types, table
<1>6. CASE Failed(p)
  <2>0. /\ answer \in [Processes -> {"none", "key", "refused", "error"}]
        /\ syncLicenses \in [Processes -> BOOLEAN]
    BY DEF Types
  <2>1. /\ answer' \in [Processes -> {"none", "key", "refused", "error"}]
        /\ syncLicenses' \in [Processes -> BOOLEAN]
    <3>1. syncLicenses' = syncLicenses \/ syncLicenses' = [syncLicenses EXCEPT ![p] = FALSE]
      BY <1>6, FailedEffect
    <3>2. answer' = answer \/ answer' = [answer EXCEPT ![p] = "error"]
      BY <1>6, FailedEffect
    <3>3. answer' \in [Processes -> {"none", "key", "refused", "error"}]
      BY <2>0, <3>2
    <3> QED BY <2>0, <3>1, <3>3
  <2>2. Popping(p) /\ queue' \in [Processes -> Seq(QueryType)]
    BY <1>6, FailedEffect, RestTypes DEF Popping
  <2> QED BY <1>6, <2>1, <2>2, FailedEffect DEF Types, table, Popping
<1> QED BY <1>1, <1>2, <1>3, <1>4, <1>5, <1>6 DEF Reply

LEMMA ExecutedType ==
  ASSUME Types, NEW p \in Processes, queue[p] # <<>>
  PROVE  /\ Executed(p) \in QueryType
         /\ Executed(p).status = "done" /\ Executed(p).reply = row
         /\ Executed(p).op = Head(queue[p]).op /\ Executed(p).job = Head(queue[p]).job
BY RestTypes DEF Executed, QueryType, Types

LEMMA MySQLTypes ==
  ASSUME Types, NEW p \in Processes, Execute(p) \/ Connected(p) \/ Broken(p)
  PROVE  Types'
<1>1. CASE Execute(p)
  <2>1. queue[p] # <<>> /\ queue \in [Processes -> Seq(QueryType)]
    BY <1>1, ExecuteEffect DEF Types
  <2>2. queue' \in [Processes -> Seq(QueryType)]
    <3>1. [queue[p] EXCEPT ![1] = Executed(p)] \in Seq(QueryType)
      BY <2>1, ExecutedType, RestTypes, ExceptSeq
    <3> QED BY <1>1, <2>1, <3>1, ExecuteEffect
  <2>3. row' \in AnyLicense /\ writes' \in Nat
    <3>1. Upsert(writes + 1) \in AnyLicense
      BY DEF Upsert, Types, AnyLicense
    <3>2. NoLicense \in AnyLicense /\ row \in AnyLicense /\ writes \in Nat
      BY DEF AnyLicense, Types
    <3> QED BY <1>1, <3>1, <3>2, ExecuteEffect
  <2>4. deleted' \in BOOLEAN
    BY <1>1, ExecuteEffect
  <2> QED BY <1>1, <2>2, <2>3, <2>4, ExecuteEffect DEF Types
<1>2. CASE Connected(p)
  <2>1. queue[p] \o opener[p] \in Seq(QueryType) /\ <<>> \in Seq(QueryType)
    BY ConcatSeq DEF Types
  <2>2. /\ db \in [Processes -> {"none", "connecting", "up", "dead"}]
        /\ opener \in [Processes -> Seq(QueryType)] /\ queue \in [Processes -> Seq(QueryType)]
    BY DEF Types
  <2>3. /\ db' \in [Processes -> {"none", "connecting", "up", "dead"}]
        /\ opener' \in [Processes -> Seq(QueryType)] /\ queue' \in [Processes -> Seq(QueryType)]
    BY <1>2, <2>1, <2>2, ConnectedEffect
  <2> QED BY <1>2, <2>3, ConnectedEffect DEF Types, table
<1>3. CASE Broken(p)
  <2>1. opener[p] \o queue[p] \in Seq(QueryType) /\ <<>> \in Seq(QueryType)
    BY ConcatSeq DEF Types
  <2>2. Failing(opener[p] \o queue[p]) \in Seq(QueryType)
    BY <2>1, FailingSeq
  <2>3. /\ db \in [Processes -> {"none", "connecting", "up", "dead"}]
        /\ opener \in [Processes -> Seq(QueryType)] /\ queue \in [Processes -> Seq(QueryType)]
    BY DEF Types
  <2>4. /\ db' \in [Processes -> {"none", "connecting", "up", "dead"}]
        /\ opener' \in [Processes -> Seq(QueryType)] /\ queue' \in [Processes -> Seq(QueryType)]
    BY <1>3, <2>1, <2>2, <2>3, BrokenEffect
  <2>5. troubled' \in [Processes -> BOOLEAN] /\ faults' \in Nat
    <3>1. troubled' = [troubled EXCEPT ![p] = TRUE] /\ faults' = faults + 1
      BY <1>3, BrokenEffect
    <3>2. troubled \in [Processes -> BOOLEAN] /\ faults \in Nat
      BY DEF Types
    <3> QED BY <3>1, <3>2
  <2> QED BY <1>3, <2>4, <2>5, BrokenEffect DEF Types, table
<1> QED BY <1>1, <1>2, <1>3

LEMMA StartTypes ==
  ASSUME Types, NEW p \in Processes,
         \/ Lookup(p) \/ Register(p) \/ Unregister(p) \/ Sync(p)
         \/ \E job \in {"register", "sync"} : Verified(p, job) \/ Refused(p, job)
         \/ CacheExpires(p) \/ HandleNotice(p) \/ NoticeLost(p)
  PROVE  Types'
<1> DEFINE Queries == /\ db' \in [Processes -> {"none", "connecting", "up", "dead"}]
                      /\ opener' \in [Processes -> Seq(QueryType)]
                      /\ queue' \in [Processes -> Seq(QueryType)]
<1>1. ASSUME NEW q \in QueryType, Asked(p, q, queue)
      PROVE  Queries
  BY <1>1, AskedTypes DEF Types
<1>2. Idle => Queries
  BY DEF Idle, Types
<1> HIDE DEF Queries
<1>4. CASE Lookup(p)
  <2>1. Queries
    BY <1>1, <1>4, LookupEffect, QueryTypes
  <2> QED BY <1>4, <2>1, LookupEffect DEF Types, table, Queries
<1>5. CASE Register(p)
  <2>1. /\ asking' \in [Processes -> [{"register", "sync"} -> Nat]]
        /\ answer' \in [Processes -> {"none", "key", "refused", "error"}]
        /\ troubled' \in [Processes -> BOOLEAN]
    <3>1. /\ asking' = [asking EXCEPT ![p]["register"] = @ + 1]
          /\ answer' = [answer EXCEPT ![p] = "none"]
          /\ troubled' = [troubled EXCEPT ![p] = @ /\ ~IdleRegister(p)]
      BY <1>5, RegisterEffect
    <3>2. troubled \in [Processes -> BOOLEAN]
      BY DEF Types
    <3>3. (troubled[p] /\ ~IdleRegister(p)) \in BOOLEAN
      OBVIOUS
    <3>4. troubled' \in [Processes -> BOOLEAN]
      BY <3>1, <3>2, <3>3
    <3> QED BY <3>1, <3>4, AnswerTypes, AskingTypes
  <2> QED BY <1>2, <1>5, <2>1, RegisterEffect DEF Types, table, Queries
<1>6. CASE Unregister(p)
  <2>1. Queries
    BY <1>1, <1>6, UnregisterEffect, QueryTypes
  <2>2. /\ cache' \in [Processes -> AnyLicense] /\ excused' \in [Processes -> BOOLEAN]
        /\ syncLicenses' \in [Processes -> BOOLEAN]
    BY <1>6, UnregisterEffect, ClearedTypes
  <2> QED BY <1>6, <2>1, <2>2, UnregisterEffect DEF Types, table, Queries
<1>7. CASE Sync(p)
  <2>1. Queries
    BY <1>1, <1>7, SyncEffect, QueryTypes
  <2> QED BY <1>7, <2>1, SyncEffect DEF Types, table, Queries
<1>8. ASSUME NEW job \in {"register", "sync"}, Verified(p, job)
      PROVE  Types'
  <2>1. Queries
    BY <1>1, <1>8, VerifiedEffect, QueryTypes
  <2>2. asking' \in [Processes -> [{"register", "sync"} -> Nat]]
    BY <1>8, VerifiedEffect, AskingTypes
  <2> QED BY <1>8, <2>1, <2>2, VerifiedEffect DEF Types, table, Queries
<1>9. ASSUME NEW job \in {"register", "sync"}, Refused(p, job)
      PROVE  Types'
  <2>1. /\ asking' \in [Processes -> [{"register", "sync"} -> Nat]]
        /\ answer' \in [Processes -> {"none", "key", "refused", "error"}]
    <3>1. answer \in [Processes -> {"none", "key", "refused", "error"}]
      BY DEF Types
    <3>2. asking' \in [Processes -> [{"register", "sync"} -> Nat]]
      BY <1>9, RefusedEffect, AskingTypes
    <3> QED BY <1>9, <3>1, <3>2, RefusedEffect, AnswerTypes
  <2> QED BY <1>2, <1>9, <2>1, RefusedEffect DEF Types, table, Queries
<1>10. CASE CacheExpires(p)
  <2>1. cache' \in [Processes -> AnyLicense] /\ excused' \in [Processes -> BOOLEAN]
    BY <1>10, CacheExpiresEffect, ClearedTypes
  <2> QED BY <1>2, <1>10, <2>1, CacheExpiresEffect DEF Types, table, Queries
<1>11. CASE HandleNotice(p)
  <2>1. Tail(notices[p]) \in Seq({"license", "nothing"})
    BY <1>11, HandleNoticeEffect, TailSeq DEF Types
  <2>2. notices' \in [Processes -> Seq({"license", "nothing"})]
    BY <1>11, <2>1, HandleNoticeEffect DEF Types
  <2>3. /\ cache' \in [Processes -> AnyLicense] /\ excused' \in [Processes -> BOOLEAN]
        /\ syncLicenses' \in [Processes -> BOOLEAN] /\ stopped' \subseteq Processes
    <3>1. /\ cache \in [Processes -> AnyLicense] /\ excused \in [Processes -> BOOLEAN]
          /\ syncLicenses \in [Processes -> BOOLEAN] /\ stopped \subseteq Processes
      BY DEF Types
    <3>2. \/ /\ cache' = [cache EXCEPT ![p] = NoLicense]
             /\ syncLicenses' = [syncLicenses EXCEPT ![p] = FALSE]
             /\ excused' = [excused EXCEPT ![p] = FALSE]
             /\ stopped' = stopped
          \/ /\ stopped' = stopped \cup {p}
             /\ UNCHANGED <<cache, syncLicenses, excused>>
      BY <1>11, HandleNoticeEffect
    <3> QED BY <3>1, <3>2, ClearedTypes
  <2> QED BY <1>2, <1>11, <2>2, <2>3, HandleNoticeEffect DEF Types, table, Queries
<1>12. CASE NoticeLost(p)
  <2>1. Tail(notices[p]) \in Seq({"license", "nothing"})
    BY <1>12, NoticeLostEffect, TailSeq DEF Types
  <2>2. notices' \in [Processes -> Seq({"license", "nothing"})]
    BY <1>12, <2>1, NoticeLostEffect DEF Types
  <2>3. excused' \in [Processes -> BOOLEAN]
    <3>1. excused \in [Processes -> BOOLEAN]
      BY DEF Types
    <3>2. excused' = [excused EXCEPT ![p] = @ \/ cache[p] \notin {NoLicense, row}]
      BY <1>12, NoticeLostEffect
    <3>3. (excused[p] \/ cache[p] \notin {NoLicense, row}) \in BOOLEAN
      OBVIOUS
    <3> QED BY <3>1, <3>2, <3>3
  <2> QED BY <1>2, <1>12, <2>2, <2>3, NoticeLostEffect DEF Types, table, Queries
<1> QED BY <1>4, <1>5, <1>6, <1>7, <1>8, <1>9, <1>10, <1>11, <1>12

LEMMA NextTypes == Types /\ [Next]_vars => Types'
<1>1. Types /\ UNCHANGED vars => Types'
  BY DEF Types, vars
<1> QED BY <1>1, ReplyTypes, MySQLTypes, StartTypes DEF Next

-----------------------------------------------------------------------------
(***************************************************************************)
(* What becomes of the queries that are pending.                           *)
(***************************************************************************)
LEMMA PendingTypes ==
  ASSUME Types, NEW p \in Processes, NEW e \in Pending(p)
  PROVE  e \in QueryType
BY DEF Types, Pending, InQueue, InOpener

LEMMA HeadIsPending ==
  ASSUME Types, NEW p \in Processes, queue[p] # <<>>
  PROVE  Head(queue[p]) \in Pending(p)
BY RestTypes DEF Pending, InQueue

LEMMA SamePending ==
  ASSUME Idle, NEW r
  PROVE  Pending(r)' = Pending(r)
BY DEF Idle, Pending, InQueue, InOpener

(* What one operation leaves in the queue of r. *)
LEMMA RestElements ==
  ASSUME Types, NEW p \in Processes, queue[p] # <<>>, NEW r \in Processes
  PROVE  /\ \A i \in DOMAIN Rest(p)[r] : Rest(p)[r][i] \in InQueue(r)
         /\ \A e \in InQueue(r) : \/ \E i \in DOMAIN Rest(p)[r] : Rest(p)[r][i] = e
                                  \/ r = p /\ e = Head(queue[p])
<1>1. Rest(p)[r] = IF r = p THEN Tail(queue[p]) ELSE queue[r]
  BY DEF Rest, Types
<1>2. queue[p] \in Seq(QueryType)
  BY DEF Types
<1>3. CASE r # p
  BY <1>1, <1>3 DEF InQueue
<1>4. CASE r = p
  <2>1. ASSUME NEW i \in DOMAIN Tail(queue[p])
        PROVE  Tail(queue[p])[i] \in InQueue(p)
    BY <1>2, TailSeq DEF InQueue
  <2>2. ASSUME NEW e \in InQueue(p), e # Head(queue[p])
        PROVE  \E i \in DOMAIN Tail(queue[p]) : Tail(queue[p])[i] = e
    <3>1. PICK i \in DOMAIN queue[p] : e = queue[p][i]
      BY DEF InQueue
    <3>2. i # 1
      BY <1>2, <2>2, <3>1, TailSeq
    <3> QED BY <1>2, <3>1, <3>2, TailSeq
  <2> QED BY <1>1, <1>4, <2>1, <2>2
<1> QED BY <1>3, <1>4

LEMMA PoppingPending ==
  ASSUME Types, NEW p \in Processes, Popping(p), NEW r \in Processes
  PROVE  /\ Pending(r)' \subseteq Pending(r)
         /\ \A e \in Pending(r) : e \in Pending(r)' \/ (r = p /\ e = Head(queue[p]))
<1>1. InOpener(r)' = InOpener(r) /\ queue[p] # <<>> /\ queue'[r] = Rest(p)[r]
  BY DEF Popping, InOpener
<1>2. InQueue(r)' = {Rest(p)[r][i] : i \in DOMAIN Rest(p)[r]}
  BY <1>1 DEF InQueue
<1> QED BY <1>1, <1>2, RestElements DEF Pending

LEMMA AskedPending ==
  ASSUME Types, Order, NEW p \in Processes, NEW q \in QueryType,
         NEW before, before = queue \/ (queue[p] # <<>> /\ before = Rest(p)),
         Asked(p, q, before), NEW r \in Processes
  PROVE  /\ \A e \in Pending(r)' :
              \/ e \in Pending(r)
              \/ r = p /\ (e = q \/ (db[p] = "dead" /\ e = [q EXCEPT !.status = "failed"]))
         /\ \A e \in Pending(r) :
              e \in Pending(r)' \/ (before # queue /\ r = p /\ e = Head(queue[p]))
         /\ db[p] # "dead" => q \in Pending(p)'
<1> DEFINE Before(s) == {before[s][i] : i \in DOMAIN before[s]}
           failed == [q EXCEPT !.status = "failed"]
<1>1. /\ before \in [Processes -> Seq(QueryType)]
      /\ before[p] \in Seq(QueryType) /\ failed \in QueryType
  BY RestTypes DEF Types, QueryType
<1>2. /\ Before(r) \subseteq InQueue(r)
      /\ \A e \in InQueue(r) : e \in Before(r) \/ (before # queue /\ r = p /\ e = Head(queue[p]))
  <2>1. CASE before = queue
    BY <2>1 DEF InQueue
  <2>2. CASE before # queue
    BY <2>2, RestElements
  <2> QED BY <2>1, <2>2
<1>3. CASE db[p] = "none"
  <2>1. opener' = [opener EXCEPT ![p] = <<q>>] /\ queue' = before
    BY <1>3 DEF Asked
  <2>2. InQueue(r)' = Before(r)
    BY <2>1 DEF InQueue
  <2>3. InOpener(r)' = IF r = p THEN {q} ELSE InOpener(r)
    <3>1. opener'[r] = IF r = p THEN <<q>> ELSE opener[r]
      BY <2>1 DEF Types
    <3>2. CASE r = p
      BY <3>1, <3>2 DEF InOpener
    <3>3. CASE r # p
      BY <3>1, <3>3 DEF InOpener
    <3> QED BY <3>2, <3>3
  <2>4. InOpener(p) = {}
    BY <1>3 DEF Order, InOpener
  <2>5. q \in Pending(p)'
    BY <2>1 DEF Pending, InOpener, Types
  <2> QED BY <1>2, <1>3, <2>2, <2>3, <2>4, <2>5 DEF Pending
<1>4. ASSUME NEW f \in {q, failed}, queue' = [before EXCEPT ![p] = Append(@, f)], opener' = opener
      PROVE  /\ \A e \in Pending(r)' : e \in Pending(r) \/ (r = p /\ e = f)
             /\ \A e \in Pending(r) :
                  e \in Pending(r)' \/ (before # queue /\ r = p /\ e = Head(queue[p]))
             /\ f \in Pending(p)'
  <2>1. f \in QueryType
    BY <1>1
  <2>2. /\ DOMAIN Append(before[p], f) = DOMAIN before[p] \cup {Len(before[p]) + 1}
        /\ \A i \in DOMAIN before[p] : Append(before[p], f)[i] = before[p][i]
        /\ Append(before[p], f)[Len(before[p]) + 1] = f
    BY <1>1, <2>1, AppendSeq
  <2>3. queue'[p] = Append(before[p], f) /\ (r # p => queue'[r] = before[r])
    BY <1>1, <1>4
  <2>4. InOpener(r)' = InOpener(r)
    BY <1>4 DEF InOpener
  <2>5. f \in InQueue(p)' /\ (r = p => InQueue(r)' = Before(r) \cup {f})
    BY <2>2, <2>3 DEF InQueue
  <2>6. r # p => InQueue(r)' = Before(r)
    BY <2>3 DEF InQueue
  <2> HIDE DEF Before
  <2> QED BY <1>2, <2>4, <2>5, <2>6 DEF Pending
<1>5. CASE db[p] = "dead"
  BY <1>4, <1>5 DEF Asked
<1>6. CASE db[p] \notin {"none", "dead"}
  BY <1>4, <1>6 DEF Asked
<1> QED BY <1>3, <1>5, <1>6

LEMMA ExecutePending ==
  ASSUME Types, NEW p \in Processes, Execute(p), NEW r \in Processes
  PROVE  /\ \A e \in Pending(r)' : e \in Pending(r) \/ (r = p /\ e = Executed(p))
         /\ \A e \in Pending(r) : e \in Pending(r)' \/ (r = p /\ e = Head(queue[p]))
         /\ Executed(p) \in Pending(p)'
<1>1. /\ queue[p] # <<>> /\ opener' = opener
      /\ queue' = [queue EXCEPT ![p][1] = Executed(p)]
  BY ExecuteEffect
<1>2. queue \in [Processes -> Seq(QueryType)] /\ queue[p] \in Seq(QueryType)
  BY DEF Types
<1>3. 1 \in DOMAIN queue[p] /\ Head(queue[p]) = queue[p][1]
  BY <1>1, RestTypes
<1>4. /\ r # p => queue'[r] = queue[r]
      /\ queue'[p] = [queue[p] EXCEPT ![1] = Executed(p)]
  BY <1>1, <1>2
<1>5. /\ DOMAIN queue'[p] = DOMAIN queue[p] /\ queue'[p][1] = Executed(p)
      /\ \A i \in DOMAIN queue[p] : i # 1 => queue'[p][i] = queue[p][i]
  BY <1>2, <1>3, <1>4
<1>6. InOpener(r)' = InOpener(r) /\ (r # p => InQueue(r)' = InQueue(r))
  BY <1>1, <1>4 DEF InOpener, InQueue
<1>7. /\ \A e \in InQueue(p)' : e \in InQueue(p) \/ e = Executed(p)
      /\ \A e \in InQueue(p) : e \in InQueue(p)' \/ e = Head(queue[p])
      /\ Executed(p) \in InQueue(p)'
  BY <1>3, <1>5 DEF InQueue
<1> QED BY <1>6, <1>7 DEF Pending

LEMMA ConnectedPending ==
  ASSUME Types, NEW p \in Processes, Connected(p), NEW r \in Processes
  PROVE  Pending(r)' = Pending(r)
<1>1. /\ queue' = [queue EXCEPT ![p] = @ \o opener[p]]
      /\ opener' = [opener EXCEPT ![p] = <<>>]
  BY ConnectedEffect
<1>2. /\ queue \in [Processes -> Seq(QueryType)] /\ opener \in [Processes -> Seq(QueryType)]
      /\ queue[p] \in Seq(QueryType) /\ opener[p] \in Seq(QueryType)
  BY DEF Types
<1>3. CASE r # p
  <2>1. queue'[r] = queue[r] /\ opener'[r] = opener[r]
    BY <1>1, <1>2, <1>3
  <2> QED BY <2>1 DEF Pending, InQueue, InOpener
<1>4. CASE r = p
  <2>1. queue'[p] = queue[p] \o opener[p] /\ opener'[p] = <<>>
    BY <1>1, <1>2
  <2>2. InOpener(p)' = {}
    BY <2>1 DEF InOpener
  <2>3. InQueue(p)' \subseteq InQueue(p) \cup InOpener(p)
    BY <1>2, <2>1, ConcatSeq DEF InQueue, InOpener
  <2>4. InQueue(p) \subseteq InQueue(p)'
    BY <1>2, <2>1, ConcatSeq DEF InQueue
  <2>5. InOpener(p) \subseteq InQueue(p)'
    <3> SUFFICES ASSUME NEW j \in DOMAIN opener[p] PROVE opener[p][j] \in InQueue(p)'
      BY DEF InOpener
    <3>1. PICK i \in DOMAIN (queue[p] \o opener[p]) : (queue[p] \o opener[p])[i] = opener[p][j]
      BY <1>2, ConcatSeq
    <3> QED BY <2>1, <3>1 DEF InQueue
  <2> QED BY <1>4, <2>2, <2>3, <2>4, <2>5 DEF Pending
<1> QED BY <1>3, <1>4

LEMMA BrokenPending ==
  ASSUME Types, NEW p \in Processes, Broken(p), NEW r \in Processes
  PROVE  /\ r # p => Pending(r)' = Pending(r)
         /\ \A e \in Pending(p)' : /\ e.status = "failed"
                                   /\ \E f \in Pending(p) : e.op = f.op /\ e.job = f.job /\ e.reply = f.reply
<1>1. /\ queue' = [queue EXCEPT ![p] = Failing(opener[p] \o @)]
      /\ opener' = [opener EXCEPT ![p] = <<>>]
  BY BrokenEffect
<1>2. /\ queue \in [Processes -> Seq(QueryType)] /\ opener \in [Processes -> Seq(QueryType)]
      /\ queue[p] \in Seq(QueryType) /\ opener[p] \in Seq(QueryType)
  BY DEF Types
<1>3. ASSUME r # p
      PROVE  Pending(r)' = Pending(r)
  <2>1. queue'[r] = queue[r] /\ opener'[r] = opener[r]
    BY <1>1, <1>2, <1>3
  <2> QED BY <2>1 DEF Pending, InQueue, InOpener
<1>4. ASSUME NEW e \in Pending(p)'
      PROVE  /\ e.status = "failed"
             /\ \E f \in Pending(p) : e.op = f.op /\ e.job = f.job /\ e.reply = f.reply
  <2> DEFINE all == opener[p] \o queue[p]
  <2>1. queue'[p] = Failing(all) /\ opener'[p] = <<>>
    BY <1>1, <1>2
  <2>2. all \in Seq(QueryType) /\ \A i \in DOMAIN all : all[i] \in Pending(p)
    BY <1>2, ConcatSeq DEF Pending, InQueue, InOpener
  <2>3. PICK i \in DOMAIN Failing(all) : e = Failing(all)[i]
    BY <2>1 DEF Pending, InQueue, InOpener
  <2> HIDE DEF all
  <2> QED BY <2>2, <2>3, FailingSeq
<1> QED BY <1>3, <1>4

-----------------------------------------------------------------------------
(***************************************************************************)
(* The steps, by what they do to the queries of a process p.               *)
(***************************************************************************)
Asking(p, q) ==
  /\ q \in QueryType /\ q.status = "sent" /\ q.reply = NoLicense
  /\ q.op = "reread" => Answered(p, "insert", "done")
  /\ Asked(p, q, queue) \/ (queue[p] # <<>> /\ Asked(p, q, Rest(p)))

Calm(p) ==
  /\ Idle \/ Popping(p) \/ \E q : Asking(p, q)
  /\ UNCHANGED <<table, faults>>

LEMMA QueryFields ==
  ASSUME NEW op, NEW job
  PROVE  /\ Query(op, job).op = op /\ Query(op, job).job = job
         /\ Query(op, job).status = "sent" /\ Query(op, job).reply = NoLicense
BY DEF Query

LEMMA CalmSteps ==
  ASSUME Types, NEW p \in Processes,
         \/ Lookup(p) \/ Register(p) \/ Unregister(p) \/ Sync(p)
         \/ \E job \in {"register", "sync"} : Verified(p, job) \/ Refused(p, job)
         \/ CacheExpires(p) \/ HandleNotice(p) \/ NoticeLost(p) \/ Reply(p)
  PROVE  Calm(p)
<1>1. CASE Lookup(p)
  <2>1. Asking(p, Query("select", "lookup")) /\ UNCHANGED <<table, faults>>
    BY <1>1, LookupEffect, QueryTypes, QueryFields DEF Asking
  <2> QED BY <2>1 DEF Calm
<1>2. CASE Unregister(p)
  <2>1. Asking(p, Query("select", "unregister")) /\ UNCHANGED <<table, faults>>
    BY <1>2, UnregisterEffect, QueryTypes, QueryFields DEF Asking
  <2> QED BY <2>1 DEF Calm
<1>3. CASE Sync(p)
  <2>1. Asking(p, Query("select", "sync")) /\ UNCHANGED <<table, faults>>
    BY <1>3, SyncEffect, QueryTypes, QueryFields DEF Asking
  <2> QED BY <2>1 DEF Calm
<1>4. ASSUME NEW job \in {"register", "sync"}, Verified(p, job)
      PROVE  Calm(p)
  <2>1. Asking(p, Query("insert", job)) /\ UNCHANGED <<table, faults>>
    BY <1>4, VerifiedEffect, QueryTypes, QueryFields DEF Asking
  <2> QED BY <2>1 DEF Calm
<1>5. CASE Selected(p)
  <2>1. queue[p] # <<>> /\ UNCHANGED <<table, faults>>
    BY <1>5, SelectedEffect DEF Answered
  <2>2. ASSUME NEW q \in {Query("delete", "unregister"), Query("update", "sync")},
               Asked(p, q, Rest(p))
        PROVE  Asking(p, q)
    BY <2>1, <2>2, QueryTypes, QueryFields DEF Asking
  <2> QED BY <1>5, <2>1, <2>2, SelectedEffect DEF Calm
<1>6. CASE Saved(p)
  <2>1. queue[p] # <<>> /\ Answered(p, "insert", "done") /\ Head(queue[p]).op = "insert"
    BY <1>6, SavedEffect DEF Answered
  <2>2. Query("reread", Job(p)) \in QueryType
    BY <2>1, RestTypes, QueryTypes DEF QueryType, Job
  <2>3. Asking(p, Query("reread", Job(p))) /\ UNCHANGED <<table, faults>>
    BY <1>6, <2>1, <2>2, SavedEffect, QueryFields DEF Asking
  <2> QED BY <2>3 DEF Calm
<1>7. CASE Register(p)
  BY <1>7, RegisterEffect DEF Calm
<1>8. ASSUME NEW job \in {"register", "sync"}, Refused(p, job)
      PROVE  Calm(p)
  BY <1>8, RefusedEffect DEF Calm
<1>9. CASE CacheExpires(p)
  BY <1>9, CacheExpiresEffect DEF Calm
<1>10. CASE HandleNotice(p)
  BY <1>10, HandleNoticeEffect DEF Calm
<1>11. CASE Removed(p)
  BY <1>11, RemovedEffect DEF Calm
<1>12. CASE Checked(p)
  BY <1>12, CheckedEffect DEF Calm
<1>13. CASE Reread(p)
  BY <1>13, RereadEffect DEF Calm
<1>14. CASE Failed(p)
  BY <1>14, FailedEffect DEF Calm
<1>15. CASE NoticeLost(p)
  BY <1>15, NoticeLostEffect DEF Calm
<1> QED BY <1>1, <1>2, <1>3, <1>4, <1>5, <1>6, <1>7, <1>8, <1>9, <1>10, <1>11, <1>12, <1>13,
           <1>14, <1>15 DEF Reply

LEMMA Steps ==
  ASSUME Types, Next
  PROVE  \E p \in Processes : Calm(p) \/ Execute(p) \/ Connected(p) \/ Broken(p)
BY CalmSteps DEF Next

(* Where the pending queries come from. *)
New(p, e) ==
  /\ e.reply = NoLicense
  /\ e.status = "sent" \/ (e.status = "failed" /\ db[p] = "dead")
  /\ e.op = "reread" => \E f \in Pending(p) : f.op = "insert" /\ f.status = "done"

Lost(p, e) ==
  /\ e.status = "failed"
  /\ \E f \in Pending(p) : e.op = f.op /\ e.job = f.job /\ e.reply = f.reply

LEMMA CalmPending ==
  ASSUME Types, Order, NEW p \in Processes, Calm(p), NEW r \in Processes, NEW e \in Pending(r)'
  PROVE  e \in Pending(r) \/ (r = p /\ New(p, e))
<1>1. CASE Idle
  BY <1>1, SamePending
<1>2. CASE Popping(p)
  BY <1>2, PoppingPending
<1>3. ASSUME NEW q, Asking(p, q), e \notin Pending(r)
      PROVE  r = p /\ New(p, e)
  <2>1. /\ q \in QueryType /\ q.status = "sent" /\ q.reply = NoLicense
        /\ q.op = "reread" => Answered(p, "insert", "done")
    BY <1>3 DEF Asking
  <2>2. r = p /\ (e = q \/ (db[p] = "dead" /\ e = [q EXCEPT !.status = "failed"]))
    BY <1>3, <2>1, AskedPending DEF Asking
  <2>3. /\ [q EXCEPT !.status = "failed"].status = "failed"
        /\ [q EXCEPT !.status = "failed"].reply = NoLicense
        /\ [q EXCEPT !.status = "failed"].op = q.op
    BY <2>1 DEF QueryType
  <2>4. Answered(p, "insert", "done") =>
          \E f \in Pending(p) : f.op = "insert" /\ f.status = "done"
    BY HeadIsPending DEF Answered
  <2> QED BY <2>1, <2>2, <2>3, <2>4 DEF New
<1> QED BY <1>1, <1>2, <1>3 DEF Calm

(* What is only ever growing, and who writes the table. *)
LEMMA Growing ==
  ASSUME Types, [Next]_vars
  PROVE  /\ writes <= writes' /\ faults <= faults' /\ (deleted => deleted')
         /\ UNCHANGED table \/ \E p \in Processes : Execute(p)
<1>1. writes \in Nat /\ faults \in Nat
  BY DEF Types
<1>2. CASE UNCHANGED vars
  BY <1>1, <1>2 DEF vars, table
<1>3. CASE Next
  <2>1. PICK p \in Processes : Calm(p) \/ Execute(p) \/ Connected(p) \/ Broken(p)
    BY <1>3, Steps
  <2>2. CASE Calm(p)
    BY <1>1, <2>2 DEF Calm, table
  <2>3. CASE Execute(p)
    <3>1. /\ writes' = writes \/ writes' = writes + 1
          /\ faults' = faults /\ (deleted => deleted')
      BY <2>3, ExecuteEffect
    <3> QED BY <1>1, <2>3, <3>1
  <2>4. CASE Connected(p)
    <3>1. UNCHANGED <<table, faults>>
      BY <2>4, ConnectedEffect
    <3> QED BY <1>1, <3>1 DEF table
  <2>5. CASE Broken(p)
    BY <1>1, <2>5, BrokenEffect DEF table
  <2> QED BY <2>1, <2>2, <2>3, <2>4, <2>5
<1> QED BY <1>2, <1>3

-----------------------------------------------------------------------------
(* The order of a connection. *)
LEMMA OrderAsked ==
  ASSUME Types, Order, NEW p \in Processes, NEW q, Asking(p, q)
  PROVE  Order'
<1>1. q \in QueryType /\ q.status = "sent"
  BY DEF Asking
<1>2. PICK before : /\ before = queue \/ (queue[p] # <<>> /\ before = Rest(p))
                    /\ Asked(p, q, before)
  BY DEF Asking
<1>3. before \in [Processes -> Seq(QueryType)] /\ before[p] \in Seq(QueryType)
  BY <1>2, RestTypes DEF Types
<1>4. /\ \A i \in DOMAIN before[p] : before[p][i].status = "done" => i = 1 /\ db[p] = "up"
      /\ \A r \in Processes : r # p => before[r] = queue[r]
  <2>1. CASE before = queue
    BY <2>1 DEF Order
  <2>2. CASE queue[p] # <<>> /\ before = Rest(p)
    <3>1. queue[p] \in Seq(QueryType) /\ before[p] = Tail(queue[p])
      BY <2>2 DEF Types, Rest
    <3>2. \A i \in DOMAIN before[p] : before[p][i].status # "done"
      <4> SUFFICES ASSUME NEW i \in DOMAIN Tail(queue[p]), Tail(queue[p])[i].status = "done"
                   PROVE  FALSE
        BY <3>1
      <4>1. i \in Nat \ {0} /\ i + 1 \in DOMAIN queue[p] /\ queue[p][i + 1].status = "done"
        BY <2>2, <3>1, TailSeq
      <4> QED BY <4>1 DEF Order
    <3> QED BY <2>2, <3>2 DEF Rest, Types
  <2> QED BY <1>2, <2>1, <2>2
<1>5. ASSUME NEW f \in QueryType, f.status # "done",
             queue' = [before EXCEPT ![p] = Append(@, f)], UNCHANGED <<db, opener>>
      PROVE  Order'
  <2>1. /\ DOMAIN Append(before[p], f) = DOMAIN before[p] \cup {Len(before[p]) + 1}
        /\ \A i \in DOMAIN before[p] : Append(before[p], f)[i] = before[p][i]
        /\ Append(before[p], f)[Len(before[p]) + 1] = f
    BY <1>3, AppendSeq
  <2>2. queue'[p] = Append(before[p], f) /\ \A r \in Processes : r # p => queue'[r] = queue[r]
    BY <1>3, <1>4, <1>5
  <2>3. \A i \in DOMAIN queue'[p] : queue'[p][i].status = "done" => i = 1 /\ db'[p] = "up"
    BY <1>4, <1>5, <2>1, <2>2
  <2> QED BY <1>5, <2>2, <2>3 DEF Order, InOpener
<1>6. CASE db[p] = "none"
  <2>1. /\ db' = [db EXCEPT ![p] = "connecting"]
        /\ opener' = [opener EXCEPT ![p] = <<q>>] /\ queue' = before
    BY <1>2, <1>6 DEF Asked
  <2>2. /\ db'[p] = "connecting" /\ opener'[p] = <<q>>
        /\ \A r \in Processes : r # p => db'[r] = db[r] /\ opener'[r] = opener[r]
    BY <2>1 DEF Types
  <2>3. /\ \A e \in InOpener(p)' : e.status = "sent"
        /\ opener'[p] # <<>>
    BY <1>1, <2>2 DEF InOpener
  <2>4. \A i \in DOMAIN queue'[p] : queue'[p][i].status # "done"
    BY <1>4, <1>6, <2>1
  <2>5. \A r \in Processes : r # p => InOpener(r)' = InOpener(r) /\ queue'[r] = queue[r]
    BY <1>4, <2>1, <2>2 DEF InOpener
  <2> QED BY <2>2, <2>3, <2>4, <2>5 DEF Order
<1>7. CASE db[p] = "dead"
  <2>1. [q EXCEPT !.status = "failed"] \in QueryType /\ [q EXCEPT !.status = "failed"].status # "done"
    BY <1>1 DEF QueryType
  <2> QED BY <1>2, <1>5, <1>7, <2>1 DEF Asked
<1>8. CASE db[p] \notin {"none", "dead"}
  BY <1>1, <1>2, <1>5, <1>8 DEF Asked
<1> QED BY <1>6, <1>7, <1>8

LEMMA OrderStep ==
  ASSUME Types, Order, [Next]_vars
  PROVE  Order'
<1>1. CASE Idle
  BY <1>1 DEF Idle, Order, InOpener
<1>2. ASSUME NEW p \in Processes, Popping(p)
      PROVE  Order'
  <2>1. /\ queue[p] # <<>> /\ queue[p] \in Seq(QueryType) /\ UNCHANGED <<db, opener>>
        /\ queue'[p] = Tail(queue[p]) /\ \A r \in Processes : r # p => queue'[r] = queue[r]
    BY <1>2 DEF Popping, Rest, Types
  <2>2. \A i \in DOMAIN queue'[p] : queue'[p][i].status # "done"
    <3> SUFFICES ASSUME NEW i \in DOMAIN Tail(queue[p]), Tail(queue[p])[i].status = "done"
                 PROVE  FALSE
      BY <2>1
    <3>1. i \in Nat \ {0} /\ i + 1 \in DOMAIN queue[p] /\ queue[p][i + 1].status = "done"
      BY <2>1, TailSeq
    <3> QED BY <3>1 DEF Order
  <2>3. \A r \in Processes : InOpener(r)' = InOpener(r) /\ db'[r] = db[r] /\ opener'[r] = opener[r]
    BY <2>1 DEF InOpener
  <2> QED BY <2>1, <2>2, <2>3 DEF Order
<1>3. ASSUME NEW p \in Processes, Execute(p)
      PROVE  Order'
  <2>1. /\ queue[p] # <<>> /\ queue[p] \in Seq(QueryType) /\ UNCHANGED <<db, opener>>
        /\ queue' = [queue EXCEPT ![p][1] = Executed(p)] /\ db[p] = "up"
    BY <1>3, ExecuteEffect DEF Types
  <2>2. \A r \in Processes : r # p => queue'[r] = queue[r]
    BY <2>1 DEF Types
  <2>3. /\ DOMAIN queue'[p] = DOMAIN queue[p]
        /\ \A i \in DOMAIN queue[p] : i # 1 => queue'[p][i] = queue[p][i]
    BY <2>1 DEF Types
  <2> QED BY <2>1, <2>2, <2>3 DEF Order, InOpener
<1>4. ASSUME NEW p \in Processes, Connected(p)
      PROVE  Order'
  <2>1. /\ db[p] = "connecting" /\ db' = [db EXCEPT ![p] = "up"]
        /\ queue' = [queue EXCEPT ![p] = @ \o opener[p]]
        /\ opener' = [opener EXCEPT ![p] = <<>>]
    BY <1>4, ConnectedEffect
  <2>2. /\ queue[p] \in Seq(QueryType) /\ opener[p] \in Seq(QueryType)
        /\ db'[p] = "up" /\ queue'[p] = queue[p] \o opener[p] /\ opener'[p] = <<>>
        /\ \A r \in Processes : r # p => /\ db'[r] = db[r] /\ queue'[r] = queue[r]
                                         /\ opener'[r] = opener[r]
    BY <2>1 DEF Types
  <2>3. \A i \in DOMAIN queue'[p] : queue'[p][i].status # "done"
    <3>1. \A j \in DOMAIN queue[p] : queue[p][j].status # "done"
      BY <2>1 DEF Order
    <3>2. \A j \in DOMAIN opener[p] : opener[p][j].status # "done"
      BY DEF Order, InOpener
    <3>3. ASSUME NEW s \in Seq(QueryType), NEW t \in Seq(QueryType),
                 \A j \in DOMAIN s : s[j].status # "done",
                 \A j \in DOMAIN t : t[j].status # "done"
          PROVE  \A i \in DOMAIN (s \o t) : (s \o t)[i].status # "done"
      BY <3>3, ConcatSeq
    <3> QED BY <2>2, <3>1, <3>2, <3>3
  <2>4. InOpener(p)' = {}
    BY <2>2 DEF InOpener
  <2>5. \A r \in Processes : r # p => InOpener(r)' = InOpener(r)
    BY <2>2 DEF InOpener
  <2> QED BY <2>2, <2>3, <2>4, <2>5 DEF Order
<1>5. ASSUME NEW p \in Processes, Broken(p)
      PROVE  Order'
  <2>1. /\ db' = [db EXCEPT ![p] = "dead"] \/ db' = [db EXCEPT ![p] = "none"]
        /\ queue' = [queue EXCEPT ![p] = Failing(opener[p] \o @)]
        /\ opener' = [opener EXCEPT ![p] = <<>>]
    BY <1>5, BrokenEffect
  <2>2. /\ db'[p] # "connecting" /\ opener'[p] = <<>>
        /\ \A r \in Processes : r # p => /\ db'[r] = db[r] /\ queue'[r] = queue[r]
                                         /\ opener'[r] = opener[r]
    BY <2>1 DEF Types
  <2>3. \A e \in Pending(p)' : e.status = "failed"
    BY <1>5, BrokenPending
  <2>4. /\ \A i \in DOMAIN queue'[p] : queue'[p][i].status # "done"
        /\ InOpener(p)' = {}
    BY <2>2, <2>3 DEF Pending, InQueue, InOpener
  <2>5. \A r \in Processes : r # p => InOpener(r)' = InOpener(r)
    BY <2>2 DEF InOpener
  <2> QED BY <2>2, <2>4, <2>5 DEF Order
<1>6. CASE UNCHANGED vars
  BY <1>1, <1>6 DEF vars, Idle
<1> QED BY <1>1, <1>2, <1>3, <1>4, <1>5, <1>6, OrderAsked, Steps DEF Calm

-----------------------------------------------------------------------------
(* What is read again was written. *)
LEMMA RereadsStep ==
  ASSUME Types, Order, Keys, Rereads, [Next]_vars
  PROVE  Rereads'
<1>1. /\ writes <= writes' /\ (deleted => deleted') /\ writes \in Nat /\ writes' \in Nat
  BY Growing, NextTypes DEF Types
<1>2. ASSUME NEW r \in Processes, NEW e \in Pending(r)
      PROVE  /\ e.op = "reread" \/ (e.op = "insert" /\ e.status = "done") => writes' > 0
             /\ e.op = "reread" /\ e.status = "done" /\ ~deleted' => e.reply # NoLicense
  BY <1>1 DEF Rereads
<1>3. ASSUME NEW p \in Processes, Calm(p)
      PROVE  Rereads'
  <2>1. ASSUME NEW e, New(p, e)
        PROVE  /\ e.status # "done"
               /\ e.op = "reread" => writes' > 0
    BY <1>2, <2>1 DEF New
  <2> QED BY <1>2, <1>3, <2>1, CalmPending DEF Rereads
<1>4. ASSUME NEW p \in Processes, Execute(p)
      PROVE  Rereads'
  <2>1. /\ queue[p] # <<>> /\ Head(queue[p]) \in Pending(p)
        /\ writes' = IF Head(queue[p]).op = "insert" THEN writes + 1 ELSE writes
    BY <1>4, ExecuteEffect, HeadIsPending
  <2>2. /\ Executed(p).reply = row /\ Executed(p).op = Head(queue[p]).op
    BY <2>1, ExecutedType
  <2>3. Executed(p).op \in {"reread", "insert"} => writes' > 0
    BY <1>1, <1>2, <2>1, <2>2
  <2>4. Executed(p).op = "reread" /\ ~deleted' => row # NoLicense
    <3>1. Head(queue[p]).op = "reread" => writes > 0
      BY <2>1 DEF Rereads
    <3> QED BY <1>1, <2>2, <3>1 DEF Keys
  <2> QED BY <1>2, <1>4, <2>2, <2>3, <2>4, ExecutePending DEF Rereads
<1>5. ASSUME NEW p \in Processes, Connected(p)
      PROVE  Rereads'
  BY <1>2, <1>5, ConnectedPending DEF Rereads
<1>6. ASSUME NEW p \in Processes, Broken(p)
      PROVE  Rereads'
  <2>1. ASSUME NEW e \in Pending(p)'
        PROVE  e.status = "failed" /\ (e.op = "reread" => writes' > 0)
    BY <1>2, <1>6, BrokenPending
  <2> QED BY <1>2, <1>6, <2>1, BrokenPending DEF Rereads
<1>7. CASE UNCHANGED vars
  <2>1. \A r \in Processes : Pending(r)' = Pending(r)
    BY <1>7, SamePending DEF vars, Idle
  <2> QED BY <1>2, <2>1 DEF Rereads
<1> QED BY <1>3, <1>4, <1>5, <1>6, <1>7, Steps

-----------------------------------------------------------------------------
(***************************************************************************)
(* The keys.  A row that exists keeps its key; as long as it was not       *)
(* deleted, there is a row as soon as anything was read.                   *)
(***************************************************************************)
(* What a step may do to a cache, and who hands out keys. *)
LEMMA CacheSteps ==
  ASSUME Types, NEW p \in Processes,
         \/ Lookup(p) \/ Register(p) \/ Unregister(p) \/ Sync(p)
         \/ \E job \in {"register", "sync"} : Verified(p, job) \/ Refused(p, job)
         \/ CacheExpires(p) \/ HandleNotice(p) \/ NoticeLost(p) \/ Reply(p) \/ Connected(p) \/ Broken(p)
  PROVE  /\ \/ cache' = cache \/ cache' = [cache EXCEPT ![p] = NoLicense]
            \/ queue[p] # <<>> /\ Cached(p)
         /\ \/ told' = told
            \/ /\ queue[p] # <<>> /\ Head(queue[p]).reply # NoLicense
               /\ told' = told \cup {Head(queue[p]).reply.key}
<1>1. ASSUME Lookup(p) \/ Register(p) \/ Sync(p) \/ NoticeLost(p)
      PROVE  UNCHANGED <<cache, told>>
  BY <1>1, LookupEffect, RegisterEffect, SyncEffect, NoticeLostEffect
<1>2. ASSUME \E job \in {"register", "sync"} : Verified(p, job) \/ Refused(p, job)
      PROVE  UNCHANGED <<cache, told>>
  BY <1>2, VerifiedEffect, RefusedEffect
<1>3. ASSUME Unregister(p) \/ CacheExpires(p) \/ HandleNotice(p) \/ Saved(p)
      PROVE  told' = told /\ (cache' = cache \/ cache' = [cache EXCEPT ![p] = NoLicense])
  BY <1>3, UnregisterEffect, CacheExpiresEffect, HandleNoticeEffect, SavedEffect
<1>4. ASSUME Connected(p) \/ Broken(p)
      PROVE  UNCHANGED <<cache, told>>
  BY <1>4, ConnectedEffect, BrokenEffect
<1>5. ASSUME Removed(p) \/ Checked(p) \/ Failed(p)
      PROVE  UNCHANGED <<cache, told>>
  BY <1>5, RemovedEffect, CheckedEffect, FailedEffect
<1>6. CASE Selected(p)
  BY <1>6, SelectedEffect DEF Answered
<1>7. CASE Reread(p)
  BY <1>7, RereadEffect DEF Answered
<1> QED BY <1>1, <1>2, <1>3, <1>4, <1>5, <1>6, <1>7 DEF Reply

LEMMA KeysStep ==
  ASSUME Types, Order, Keys, Types', [Next]_vars
  PROVE  Keys'
<1>1. ASSUME NEW p \in Processes, Execute(p)
      PROVE  Keys'
  <2>1. /\ queue[p] # <<>> /\ Head(queue[p]) \in Pending(p)
        /\ row' = CASE Head(queue[p]).op = "insert" -> Upsert(writes + 1)
                    [] Head(queue[p]).op = "delete" -> NoLicense
                    [] OTHER -> row
        /\ writes' = IF Head(queue[p]).op = "insert" THEN writes + 1 ELSE writes
        /\ deleted' = (deleted \/ Head(queue[p]).op = "delete")
        /\ cache' = cache /\ told' = told
    BY <1>1, ExecuteEffect, HeadIsPending
  <2>2. Executed(p).reply = row
    BY <2>1, ExecutedType
  <2>3. writes \in Nat /\ writes' \in Nat /\ writes <= writes'
    BY <2>1 DEF Types
  <2>4. /\ ~deleted' /\ writes' > 0 => row' # NoLicense
        /\ Written(row)'
        /\ ~deleted' => ~deleted /\ (row # NoLicense => row' # NoLicense /\ row'.key = row.key)
    <3>1. CASE Head(queue[p]).op = "insert"
      <4>1. /\ row' = Upsert(writes + 1) /\ writes' = writes + 1
            /\ ~deleted' => ~deleted
        BY <2>1, <3>1
      <4>2. /\ row'.version = writes + 1
            /\ row'.key = IF row = NoLicense THEN writes + 1 ELSE row.key
            /\ row' = [key |-> row'.key, version |-> row'.version]
        BY <4>1 DEF Upsert
      <4>3. row # NoLicense => row.key \in 1..writes
        BY DEF Keys, Written
      <4>4. row'.key \in 1..writes' /\ row'.version \in 1..writes'
        BY <2>3, <4>1, <4>2, <4>3
      <4>5. row' \in [key : Nat, version : Nat]
        BY <2>3, <4>2, <4>4
      <4> QED BY <4>1, <4>2, <4>4, <4>5, LicenseAssumption DEF Written
    <3>2. CASE Head(queue[p]).op = "delete"
      BY <2>1, <3>2 DEF Written
    <3>3. CASE Head(queue[p]).op \notin {"insert", "delete"}
      BY <2>1, <2>3, <3>3 DEF Keys, Written
    <3> QED BY <3>1, <3>2, <3>3
  <2>5. ASSUME NEW l, Written(l), Current(l)
        PROVE  Written(l)' /\ Current(l)'
    <3>1. l # NoLicense => l.key \in 1..writes' /\ l.version \in 1..writes'
      BY <2>3, <2>5 DEF Written
    <3> QED BY <2>4, <2>5, <3>1 DEF Written, Current
  <2>6. \A r \in Processes : Written(cache[r])' /\ Current(cache[r])'
    BY <2>1, <2>5 DEF Keys, Written, Current
  <2>7. ASSUME NEW r \in Processes, NEW e \in Pending(r)'
        PROVE  Written(e.reply)' /\ Current(e.reply)'
    <3>1. CASE e \in Pending(r)
      BY <2>5, <3>1 DEF Keys
    <3>2. CASE e.reply = row
      BY <2>5, <3>2 DEF Keys, Current
    <3> QED BY <1>1, <2>2, <2>7, <3>1, <3>2, ExecutePending
  <2>8. ~deleted' => \A key \in told' : row' # NoLicense /\ key = row'.key
    BY <2>1, <2>4 DEF Keys
  <2> QED BY <2>4, <2>6, <2>7, <2>8 DEF Keys
<1>2. ASSUME UNCHANGED table,
             \A p \in Processes : Written(cache[p])' /\ Current(cache[p])',
             \A p \in Processes : \A e \in Pending(p)' :
               e.reply = NoLicense \/ \E f \in Pending(p) : e.reply = f.reply,
             ~deleted => \A key \in told' : row # NoLicense /\ key = row.key
      PROVE  Keys'
  BY <1>2 DEF Keys, table, Written, Current
<1>3. ASSUME NEW p \in Processes, Calm(p) \/ Connected(p) \/ Broken(p)
      PROVE  /\ UNCHANGED table
             /\ \A r \in Processes : \A e \in Pending(r)' :
                  e.reply = NoLicense \/ \E f \in Pending(r) : e.reply = f.reply
  <2>1. CASE Calm(p)
    BY <2>1, CalmPending DEF Calm, New
  <2>2. CASE Connected(p)
    BY <2>2, ConnectedPending, ConnectedEffect
  <2>3. CASE Broken(p)
    BY <2>3, BrokenPending, BrokenEffect
  <2> QED BY <1>3, <2>1, <2>2, <2>3
<1>4. ASSUME NEW p \in Processes,
             \/ Lookup(p) \/ Register(p) \/ Unregister(p) \/ Sync(p)
             \/ \E job \in {"register", "sync"} : Verified(p, job) \/ Refused(p, job)
             \/ CacheExpires(p) \/ HandleNotice(p) \/ NoticeLost(p) \/ Reply(p) \/ Connected(p) \/ Broken(p)
      PROVE  Keys'
  <2>1. /\ UNCHANGED table
        /\ \A r \in Processes : \A e \in Pending(r)' :
             e.reply = NoLicense \/ \E f \in Pending(r) : e.reply = f.reply
    BY <1>3, <1>4, CalmSteps
  <2>2. \A r \in Processes : \/ cache'[r] = cache[r] \/ cache'[r] = NoLicense
                             \/ \E e \in Pending(p) : cache'[r] = e.reply
    <3>1. cache \in [Processes -> AnyLicense]
      BY DEF Types
    <3>2. \/ cache' = cache \/ cache' = [cache EXCEPT ![p] = NoLicense]
          \/ \E e \in Pending(p) : cache' = [cache EXCEPT ![p] = e.reply]
      BY <1>4, CacheSteps, HeadIsPending DEF Cached
    <3> QED BY <3>1, <3>2
  <2>3. ASSUME NEW l, l = NoLicense \/ (\E r \in Processes : l = cache[r])
                         \/ \E e \in Pending(p) : l = e.reply
        PROVE  /\ l # NoLicense => l.key \in 1..writes /\ l.version \in 1..writes
               /\ ~deleted /\ l # NoLicense => row # NoLicense /\ l.key = row.key
    BY <2>3 DEF Keys, Written, Current
  <2>4. \A r \in Processes : Written(cache[r])' /\ Current(cache[r])'
    BY <2>1, <2>2, <2>3 DEF Written, Current, table
  <2>5. ~deleted => \A key \in told' : row # NoLicense /\ key = row.key
    <3>1. CASE told' = told
      BY <3>1 DEF Keys
    <3>2. CASE /\ queue[p] # <<>> /\ Head(queue[p]).reply # NoLicense
               /\ told' = told \cup {Head(queue[p]).reply.key}
      BY <2>3, <3>2, HeadIsPending DEF Keys
    <3> QED BY <1>4, <3>1, <3>2, CacheSteps
  <2> QED BY <1>2, <2>1, <2>4, <2>5
<1>5. CASE UNCHANGED vars
  <2>1. \A r \in Processes : Pending(r)' = Pending(r)
    BY <1>5, SamePending DEF vars, Idle
  <2> QED BY <1>2, <1>5, <2>1 DEF vars, table, Keys, Written, Current
<1> QED BY <1>1, <1>4, <1>5 DEF Next

-----------------------------------------------------------------------------
(* Errors, and the loss of a connection. *)
Step(p) ==
  \/ Lookup(p) \/ Register(p) \/ Unregister(p) \/ Sync(p)
  \/ \E job \in {"register", "sync"} : Verified(p, job) \/ Refused(p, job)
  \/ CacheExpires(p) \/ HandleNotice(p) \/ NoticeLost(p)
  \/ Execute(p) \/ Connected(p) \/ Broken(p) \/ Reply(p)

LEMMA AnswerSteps ==
  ASSUME Types, NEW p \in Processes, Step(p)
  PROVE  /\ \A r \in Processes : r # p => answer'[r] = answer[r] /\ troubled'[r] = troubled[r]
         /\ answer'[p] = "error" =>
              \/ answer[p] = "error"
              \/ \E e \in Pending(p) : e.job = "register" /\ e.status = "failed"
         /\ troubled[p] => \/ troubled'[p]
                           \/ /\ answer'[p] = "none"
                              /\ \A e \in Pending(p)' : e.job # "register"
<1> USE DEF Step
<1>1. CASE UNCHANGED <<answer, troubled>>
  BY <1>1
<1>2. CASE Register(p)
  <2>1. /\ Idle /\ answer' = [answer EXCEPT ![p] = "none"]
        /\ troubled' = [troubled EXCEPT ![p] = @ /\ ~IdleRegister(p)]
    BY <1>2, RegisterEffect
  <2>2. /\ answer \in [Processes -> {"none", "key", "refused", "error"}]
        /\ troubled \in [Processes -> BOOLEAN]
    BY DEF Types
  <2>3. answer'[p] = "none" /\ \A r \in Processes : r # p => answer'[r] = answer[r]
    BY <2>1, <2>2
  <2>4. /\ troubled'[p] = (troubled[p] /\ ~IdleRegister(p))
        /\ \A r \in Processes : r # p => troubled'[r] = troubled[r]
    BY <2>1, <2>2
  <2>5. IdleRegister(p) => \A e \in Pending(p)' : e.job # "register"
    <3>1. Pending(p)' = Pending(p)
      BY <2>1, SamePending
    <3>2. IdleRegister(p) => \A e \in Pending(p) : e.job # "register"
      BY DEF IdleRegister, Pending, InQueue, InOpener
    <3> QED BY <3>1, <3>2
  <2> QED BY <2>3, <2>4, <2>5
<1>3. ASSUME answer' = answer \/ answer' = [answer EXCEPT ![p] = "refused"]
               \/ answer' = [answer EXCEPT ![p] = "key"], troubled' = troubled
      PROVE  /\ \A r \in Processes : r # p => answer'[r] = answer[r] /\ troubled'[r] = troubled[r]
             /\ answer'[p] = "error" => answer[p] = "error"
             /\ troubled[p] => troubled'[p]
  BY <1>3 DEF Types
<1>4. ASSUME NEW job \in {"register", "sync"}, Refused(p, job)
      PROVE  /\ answer' = answer \/ answer' = [answer EXCEPT ![p] = "refused"]
             /\ troubled' = troubled
  BY <1>4, RefusedEffect
<1>5. CASE Reread(p)
  <2>1. /\ answer' = answer \/ answer' = [answer EXCEPT ![p] = "key"]
        /\ troubled' = troubled
    BY <1>5, RereadEffect
  <2> QED BY <1>3, <2>1
<1>6. CASE Failed(p)
  <2>1. /\ queue[p] # <<>> /\ Head(queue[p]).status = "failed"
        /\ answer' = answer \/ (Job(p) = "register" /\ answer' = [answer EXCEPT ![p] = "error"])
        /\ troubled' = troubled
    BY <1>6, FailedEffect DEF Answered
  <2>2. Job(p) = "register" => \E e \in Pending(p) : e.job = "register" /\ e.status = "failed"
    BY <2>1, HeadIsPending DEF Job
  <2> QED BY <2>1, <2>2 DEF Types
<1>7. CASE Broken(p)
  <2>1. troubled' = [troubled EXCEPT ![p] = TRUE] /\ answer' = answer
    BY <1>7, BrokenEffect
  <2> QED BY <2>1 DEF Types
<1>8. ASSUME \/ Lookup(p) \/ Unregister(p) \/ Sync(p) \/ CacheExpires(p)
             \/ HandleNotice(p) \/ NoticeLost(p)
      PROVE  UNCHANGED <<answer, troubled>>
  BY <1>8, LookupEffect, UnregisterEffect, SyncEffect, CacheExpiresEffect, HandleNoticeEffect,
     NoticeLostEffect
<1>9. ASSUME NEW job \in {"register", "sync"}, Verified(p, job)
      PROVE  UNCHANGED <<answer, troubled>>
  BY <1>9, VerifiedEffect
<1>10. ASSUME Execute(p) \/ Connected(p) \/ Selected(p) \/ Removed(p) \/ Checked(p) \/ Saved(p)
      PROVE  UNCHANGED <<answer, troubled>>
  BY <1>10, ExecuteEffect, ConnectedEffect, SelectedEffect, RemovedEffect, CheckedEffect, SavedEffect
<1> QED BY <1>1, <1>2, <1>3, <1>4, <1>5, <1>6, <1>7, <1>8, <1>9, <1>10 DEF Reply

(* A connection that is kept though it is dead stays dead. *)
LEMMA DeadSteps ==
  ASSUME Types, Types', NEW p \in Processes, Calm(p) \/ Execute(p) \/ Connected(p) \/ Broken(p),
         NEW r \in Processes
  PROVE  /\ db[r] = "dead" => db'[r] = "dead"
         /\ db'[r] = "dead" => db[r] = "dead" \/ faults' > 0
<1>0. db \in [Processes -> {"none", "connecting", "up", "dead"}] /\ faults \in Nat
  BY DEF Types
<1>1. CASE db' = db
  BY <1>1
<1>2. CASE db[p] = "none" /\ db' = [db EXCEPT ![p] = "connecting"]
  BY <1>0, <1>2
<1>3. CASE Calm(p)
  <2>1. db' = db \/ (db[p] = "none" /\ db' = [db EXCEPT ![p] = "connecting"])
    BY <1>3 DEF Calm, Idle, Popping, Asking, Asked
  <2> QED BY <1>1, <1>2, <2>1
<1>4. CASE Execute(p)
  BY <1>1, <1>4, ExecuteEffect
<1>5. CASE Connected(p)
  <2>1. db[p] = "connecting" /\ db' = [db EXCEPT ![p] = "up"]
    BY <1>5, ConnectedEffect
  <2> QED BY <1>0, <2>1
<1>6. CASE Broken(p)
  <2>1. /\ db[p] \in {"connecting", "up"} /\ faults' = faults + 1
        /\ db' = [db EXCEPT ![p] = "dead"] \/ db' = [db EXCEPT ![p] = "none"]
    BY <1>6, BrokenEffect
  <2> QED BY <1>0, <2>1
<1> QED BY <1>3, <1>4, <1>5, <1>6

LEMMA LossesStep ==
  ASSUME Types, Types', Order, Losses, [Next]_vars
  PROVE  Losses'
<1>0. faults \in Nat /\ faults' \in Nat /\ faults <= faults'
  BY Growing DEF Types
<1>1. CASE UNCHANGED vars
  <2>1. \A r \in Processes : Pending(r)' = Pending(r)
    BY <1>1, SamePending DEF vars, Idle
  <2> QED BY <1>1, <2>1 DEF vars, Losses
<1>2. ASSUME NEW p \in Processes, Step(p)
      PROVE  Losses'
  <2>1. Calm(p) \/ Execute(p) \/ Connected(p) \/ Broken(p)
    BY <1>2, CalmSteps DEF Step
  <2>2. ASSUME NEW r \in Processes
        PROVE  /\ db[r] = "dead" => db'[r] = "dead"
               /\ db'[r] = "dead" => faults' > 0
    BY <1>0, <2>1, DeadSteps DEF Losses
  <2>3. ASSUME NEW r \in Processes, troubled[r] \/ db[r] = "dead"
        PROVE  \/ troubled'[r] \/ db'[r] = "dead"
               \/ answer'[r] = "none" /\ \A e \in Pending(r)' : e.job # "register"
    BY <1>2, <2>2, <2>3, AnswerSteps
  <2>4. ASSUME NEW r \in Processes, answer'[r] = "error"
        PROVE  troubled'[r] \/ db'[r] = "dead"
    <3>1. answer[r] = "error" \/ \E e \in Pending(r) : e.job = "register" /\ e.status = "failed"
      BY <1>2, <2>4, AnswerSteps
    <3>2. troubled[r] \/ db[r] = "dead"
      BY <3>1 DEF Losses
    <3> QED BY <2>3, <2>4, <3>2
  <2>5. ASSUME NEW r \in Processes, NEW e \in Pending(r)', e.status = "failed"
        PROVE  /\ faults' > 0
               /\ e.job = "register" => troubled'[r] \/ db'[r] = "dead"
    <3>1. CASE e \in Pending(r)
      <4>1. faults > 0 /\ (e.job = "register" => troubled[r] \/ db[r] = "dead")
        BY <2>5, <3>1 DEF Losses
      <4> QED BY <1>0, <2>3, <4>1
    <3>2. CASE r = p /\ New(p, e)
      BY <2>2, <2>5, <3>2 DEF New
    <3>3. CASE Execute(p) /\ r = p /\ e = Executed(p)
      BY <2>5, <3>3, ExecutedType, ExecuteEffect
    <3>4. CASE Broken(p) /\ r = p
      <4>1. troubled' = [troubled EXCEPT ![p] = TRUE] /\ faults' = faults + 1
        BY <3>4, BrokenEffect
      <4> QED BY <1>0, <3>4, <4>1 DEF Types
    <3> QED BY <2>1, <3>1, <3>2, <3>3, <3>4, CalmPending, ExecutePending, ConnectedPending,
               BrokenPending
  <2> QED BY <2>2, <2>4, <2>5 DEF Losses
<1>3. Next => \E p \in Processes : Step(p)
  BY DEF Next, Step
<1> QED BY <1>1, <1>2, <1>3

-----------------------------------------------------------------------------
(* Notices, and the processes they stop. *)
LEMMA PostedNotices ==
  ASSUME Types, NEW p \in Processes, NEW notice \in {"license", "nothing"}, Posted(p, notice),
         NEW r \in Processes
  PROVE  /\ r = p => notices'[r] = notices[r]
         /\ r # p => notices'[r] # <<>>
         /\ \A i \in DOMAIN notices'[r] :
              notices'[r][i] = notice \/ \E k \in DOMAIN notices[r] : notices'[r][i] = notices[r][k]
<1>1. notices[r] \in Seq({"license", "nothing"})
  BY DEF Types
<1>2. notices'[r] = IF r = p THEN notices[r] ELSE Append(notices[r], notice)
  BY DEF Posted
<1>3. CASE r = p
  BY <1>2, <1>3
<1>4. CASE r # p
  <2>1. notices'[r] = Append(notices[r], notice)
    BY <1>2, <1>4
  <2> QED BY <1>1, <1>4, <2>1, AppendSeq
<1> QED BY <1>3, <1>4

LEMMA NoticeSteps ==
  ASSUME Types, NEW p \in Processes, Step(p)
  PROVE  \/ UNCHANGED <<notices, stopped>>
         \/ HandleNotice(p) \/ NoticeLost(p) \/ Removed(p) \/ Reread(p)
<1> USE DEF Step
<1>1. ASSUME Lookup(p) \/ Register(p) \/ Unregister(p) \/ Sync(p) \/ CacheExpires(p)
      PROVE  UNCHANGED <<notices, stopped>>
  BY <1>1, LookupEffect, RegisterEffect, UnregisterEffect, SyncEffect, CacheExpiresEffect
<1>2. ASSUME \E job \in {"register", "sync"} : Verified(p, job) \/ Refused(p, job)
      PROVE  UNCHANGED <<notices, stopped>>
  BY <1>2, VerifiedEffect, RefusedEffect
<1>3. ASSUME Execute(p) \/ Connected(p) \/ Broken(p)
      PROVE  UNCHANGED <<notices, stopped>>
  BY <1>3, ExecuteEffect, ConnectedEffect, BrokenEffect
<1>4. ASSUME Selected(p) \/ Checked(p) \/ Saved(p) \/ Failed(p)
      PROVE  UNCHANGED <<notices, stopped>>
  BY <1>4, SelectedEffect, CheckedEffect, SavedEffect, FailedEffect
<1> QED BY <1>1, <1>2, <1>3, <1>4 DEF Reply

Empty(r) == \E i \in DOMAIN notices[r] : notices[r][i] = "nothing"

LEMMA StopsStep ==
  ASSUME Types, Types', Rereads, Losses, Stops, [Next]_vars
  PROVE  Stops'
<1> SUFFICES ASSUME ~deleted', ~(faults' > 0)
             PROVE  stopped' = {} /\ \A r \in Processes : ~Empty(r)'
  BY DEF Stops, Empty
<1>1. ~deleted /\ ~(faults > 0)
  BY Growing DEF Types
<1>2. stopped = {} /\ \A r \in Processes : ~Empty(r)
  BY <1>1 DEF Stops, Empty
<1>3. ASSUME UNCHANGED <<notices, stopped>>
      PROVE  stopped' = {} /\ \A r \in Processes : ~Empty(r)'
  BY <1>2, <1>3 DEF Empty
<1>4. ASSUME NEW p \in Processes, HandleNotice(p) \/ NoticeLost(p)
      PROVE  stopped' = {} /\ \A r \in Processes : ~Empty(r)'
  <2>1. /\ notices[p] # <<>> /\ notices' = [notices EXCEPT ![p] = Tail(@)]
        /\ stopped' = stopped \/ Head(notices[p]) # "license"
    BY <1>4, HandleNoticeEffect, NoticeLostEffect
  <2>2. notices[p] \in Seq({"license", "nothing"})
    BY DEF Types
  <2>3. Head(notices[p]) = "license"
    <3>1. 1 \in DOMAIN notices[p] /\ Head(notices[p]) = notices[p][1]
      BY <2>1, <2>2, TailSeq
    <3>2. notices[p][1] # "nothing"
      BY <1>2, <3>1 DEF Empty
    <3> QED BY <2>2, <3>1, <3>2
  <2>4. \A i \in DOMAIN Tail(notices[p]) : Tail(notices[p])[i] # "nothing"
    BY <1>2, <2>1, <2>2, TailSeq DEF Empty
  <2>5. notices'[p] = Tail(notices[p]) /\ \A r \in Processes : r # p => notices'[r] = notices[r]
    BY <2>1 DEF Types
  <2> QED BY <1>2, <2>1, <2>3, <2>4, <2>5 DEF Empty
<1>5. ASSUME NEW p \in Processes, Posted(p, "license"), stopped' = stopped
      PROVE  stopped' = {} /\ \A r \in Processes : ~Empty(r)'
  <2> SUFFICES ASSUME NEW r \in Processes, NEW i \in DOMAIN notices'[r], notices'[r][i] = "nothing"
               PROVE  FALSE
    BY <1>2, <1>5 DEF Empty
  <2>1. \E k \in DOMAIN notices[r] : notices'[r][i] = notices[r][k]
    BY <1>5, PostedNotices
  <2> QED BY <1>2, <2>1 DEF Empty
<1>6. ASSUME NEW p \in Processes, Reread(p)
      PROVE  Posted(p, "license") /\ stopped' = stopped
  <2>1. /\ queue[p] # <<>> /\ Head(queue[p]).op = "reread"
        /\ Head(queue[p]).status \in {"done", "failed"}
        /\ \/ Head(queue[p]).status = "done" => Head(queue[p]).reply = NoLicense
           \/ Posted(p, "license") /\ stopped' = stopped
    BY <1>6, RereadEffect DEF Answered
  <2>2. Head(queue[p]) \in Pending(p)
    BY <2>1, HeadIsPending
  <2>3. Head(queue[p]).status # "failed"
    BY <1>1, <2>2 DEF Losses
  <2>4. Head(queue[p]).status = "done" => Head(queue[p]).reply # NoLicense
    BY <1>1, <2>1, <2>2 DEF Rereads
  <2> QED BY <2>1, <2>3, <2>4
<1>7. ASSUME NEW p \in Processes, Removed(p)
      PROVE  Posted(p, "license") /\ stopped' = stopped
  BY <1>7, RemovedEffect
<1>8. ASSUME NEW p \in Processes, Step(p)
      PROVE  stopped' = {} /\ \A r \in Processes : ~Empty(r)'
  BY <1>3, <1>4, <1>5, <1>6, <1>7, <1>8, NoticeSteps
<1>9. CASE UNCHANGED vars
  BY <1>3, <1>9 DEF vars
<1> QED BY <1>8, <1>9 DEF Next, Step

-----------------------------------------------------------------------------
(***************************************************************************)
(* Outdated caches.                                                        *)
(***************************************************************************)
Announces(e) == Changed(e) \/ e.op = "reread"

(* As long as no connection was lost, an announcement is pending until the *)
(* others have been notified; an own change, until it is handled.          *)
LEMMA AnnouncementsStay ==
  ASSUME Types, Order, Losses, ~(faults > 0), NEW p \in Processes, Step(p), ~Broken(p),
         NEW q \in Processes, NEW e \in Pending(q), Announces(e)
  PROVE  \/ \E f \in Pending(q)' : Announces(f) /\ (Changed(e) => Changed(f))
         \/ q = p /\ Saved(p) /\ \E f \in Pending(q)' : Announces(f)
         \/ q = p /\ Removed(p)
         \/ q = p /\ Reread(p) /\ ~Changed(e)
<1> SUFFICES ASSUME e \notin Pending(q)'
             PROVE  \/ \E f \in Pending(q)' : Announces(f) /\ (Changed(e) => Changed(f))
                    \/ q = p /\ Saved(p) /\ \E f \in Pending(q)' : Announces(f)
                    \/ q = p /\ Removed(p)
                    \/ q = p /\ Reread(p) /\ ~Changed(e)
  OBVIOUS
<1>1. ~Idle /\ ~Connected(p)
  BY SamePending, ConnectedPending
<1>2. CASE Execute(p)
  <2>1. q = p /\ e = Head(queue[p]) /\ Executed(p) \in Pending(p)'
    BY <1>2, ExecutePending
  <2>2. /\ Head(queue[p]).status = "sent" /\ queue[p] # <<>>
        /\ Executed(p).op = Head(queue[p]).op
    BY <1>2, ExecuteEffect, ExecutedType
  <2>3. Announces(Executed(p)) /\ ~Changed(e)
    BY <2>1, <2>2 DEF Announces, Changed
  <2> QED BY <2>1, <2>3
<1>3. CASE Popping(p) \/ \E f : Asking(p, f)
  <2>1. q = p /\ e = Head(queue[p])
    <3>1. ASSUME NEW f, Asking(p, f)
          PROVE  q = p /\ e = Head(queue[p])
      BY <3>1, AskedPending DEF Asking
    <3> QED BY <1>3, <3>1, PoppingPending
  <2>2. e.op \in {"insert", "delete", "reread"}
    BY DEF Announces, Changed
  <2>3. e.status # "failed"
    BY DEF Losses
  <2>4. CASE Saved(p)
    <3>1. /\ Asked(p, Query("reread", Job(p)), Rest(p)) /\ queue[p] # <<>>
          /\ Head(queue[p]).op = "insert"
      BY <2>4, SavedEffect DEF Answered
    <3>2. Query("reread", Job(p)) \in QueryType
      BY <3>1, RestTypes, QueryTypes DEF QueryType, Job
    <3>3. db[p] # "dead"
      BY DEF Losses
    <3>4. Query("reread", Job(p)) \in Pending(p)'
      BY <3>1, <3>2, <3>3, AskedPending
    <3>5. Announces(Query("reread", Job(p)))
      BY QueryFields DEF Announces
    <3> QED BY <2>1, <2>4, <3>4, <3>5
  <2>5. CASE Reread(p)
    <3>1. Head(queue[p]).op = "reread"
      BY <2>5, RereadEffect DEF Answered
    <3> QED BY <2>1, <2>5, <3>1 DEF Changed
  <2>6. CASE Selected(p) \/ Checked(p) \/ Failed(p)
    <3>1. \/ Head(queue[p]).op \in {"select", "update"} \/ Head(queue[p]).status = "failed"
      BY <2>6, SelectedEffect, CheckedEffect, FailedEffect DEF Answered
    <3> QED BY <2>1, <2>2, <2>3, <3>1
  <2>7. CASE Lookup(p) \/ Unregister(p) \/ Sync(p)
             \/ \E job \in {"register", "sync"} : Verified(p, job)
    <3>1. ASSUME NEW f \in QueryType, Asked(p, f, queue)
          PROVE  FALSE
      BY <3>1, AskedPending
    <3> QED BY <2>7, <3>1, QueryTypes, LookupEffect, UnregisterEffect, SyncEffect, VerifiedEffect
  <2>8. Removed(p) => q = p /\ Removed(p)
    BY <2>1
  <2>9. Register(p) \/ CacheExpires(p) \/ HandleNotice(p) \/ NoticeLost(p)
           \/ (\E job \in {"register", "sync"} : Refused(p, job)) => FALSE
    BY <1>1, RegisterEffect, CacheExpiresEffect, HandleNoticeEffect, NoticeLostEffect,
       RefusedEffect
  <2> QED BY <1>1, <1>2, <2>4, <2>5, <2>6, <2>7, <2>8, <2>9 DEF Step, Reply
<1> QED BY <1>1, <1>2, <1>3, CalmSteps DEF Step, Calm

(* What a step does to the cache of r and its excuse, unless it writes the table. *)
LEMMA ExcuseSteps ==
  ASSUME Types, NEW p \in Processes, Step(p), NEW r \in Processes
  PROVE  \/ r # p /\ cache'[r] = cache[r] /\ excused'[r] = excused[r]
         \/ r = p /\ UNCHANGED <<cache, excused>> /\ ~Saved(p) /\ ~Removed(p)
         \/ r = p /\ cache'[p] = NoLicense
         \/ r = p /\ excused'[p] = (cache'[p] # row)
         \/ r = p /\ Removed(p) /\ excused'[p] /\ cache' = cache
         \/ /\ r = p /\ NoticeLost(p) /\ cache' = cache
            /\ excused'[p] = (excused[p] \/ cache[p] \notin {NoLicense, row})
<1>0. /\ cache \in [Processes -> AnyLicense] /\ excused \in [Processes -> BOOLEAN]
  BY DEF Types
<1>1. ASSUME UNCHANGED <<cache, excused>>, ~Saved(p), ~Removed(p)
      PROVE  \/ r # p /\ cache'[r] = cache[r] /\ excused'[r] = excused[r]
             \/ r = p /\ UNCHANGED <<cache, excused>> /\ ~Saved(p) /\ ~Removed(p)
  BY <1>1
<1>2. ASSUME cache' = [cache EXCEPT ![p] = NoLicense], excused' = [excused EXCEPT ![p] = FALSE]
      PROVE  \/ r # p /\ cache'[r] = cache[r] /\ excused'[r] = excused[r]
             \/ r = p /\ cache'[p] = NoLicense
  BY <1>0, <1>2
<1>3. ASSUME Cached(p), ~Saved(p), ~Removed(p)
      PROVE  \/ r # p /\ cache'[r] = cache[r] /\ excused'[r] = excused[r]
             \/ r = p /\ UNCHANGED <<cache, excused>> /\ ~Saved(p) /\ ~Removed(p)
             \/ r = p /\ excused'[p] = (cache'[p] # row)
  BY <1>0, <1>3 DEF Cached
<1>4. CASE Removed(p)
  <2>1. cache' = cache /\ excused' = [excused EXCEPT ![p] = TRUE]
    BY <1>4, RemovedEffect
  <2> QED BY <1>0, <1>4, <2>1
<1>5. Saved(p) => cache' = [cache EXCEPT ![p] = NoLicense] /\ excused' = [excused EXCEPT ![p] = FALSE]
  BY SavedEffect
<1>6. Selected(p) \/ Reread(p) => Cached(p)
  BY SelectedEffect, RereadEffect
<1>7. Unregister(p) \/ CacheExpires(p) =>
        cache' = [cache EXCEPT ![p] = NoLicense] /\ excused' = [excused EXCEPT ![p] = FALSE]
  BY UnregisterEffect, CacheExpiresEffect
<1>8. HandleNotice(p) =>
        \/ UNCHANGED <<cache, excused>>
        \/ cache' = [cache EXCEPT ![p] = NoLicense] /\ excused' = [excused EXCEPT ![p] = FALSE]
  BY HandleNoticeEffect
<1>9. Checked(p) \/ Failed(p) \/ Execute(p) \/ Connected(p) \/ Broken(p) => UNCHANGED <<cache, excused>>
  BY CheckedEffect, FailedEffect, ExecuteEffect, ConnectedEffect, BrokenEffect
<1>10. Lookup(p) \/ Register(p) \/ Sync(p) => UNCHANGED <<cache, excused>>
  BY LookupEffect, RegisterEffect, SyncEffect
<1>11. (\E job \in {"register", "sync"} : Verified(p, job) \/ Refused(p, job)) =>
         UNCHANGED <<cache, excused>>
  BY VerifiedEffect, RefusedEffect
<1>12. CASE NoticeLost(p)
  <2>1. cache' = cache /\ excused' = [excused EXCEPT ![p] = @ \/ cache[p] \notin {NoLicense, row}]
    BY <1>12, NoticeLostEffect
  <2> QED BY <1>0, <1>12, <2>1
<1> QED BY <1>1, <1>2, <1>3, <1>4, <1>5, <1>6, <1>7, <1>8, <1>9, <1>10, <1>11, <1>12
        DEF Step, Reply

LEMMA OutdatedStep ==
  ASSUME Types, Types', Order, Losses, Outdated, [Next]_vars
  PROVE  Outdated'
<1>1. CASE UNCHANGED vars
  <2>1. \A r \in Processes : Pending(r)' = Pending(r)
    BY <1>1, SamePending DEF vars, Idle
  <2> QED BY <1>1, <2>1 DEF vars, Outdated, Reason
<1>2. ASSUME NEW p \in Processes, Step(p)
      PROVE  Outdated'
  <2> SUFFICES ASSUME NEW r \in Processes, cache'[r] # NoLicense, cache'[r] # row',
                      ~(faults' > 0), stopped' = {}
               PROVE  Reason(r)'
    BY DEF Outdated, Reason
  <2>1. /\ ~(faults > 0) /\ stopped = {} /\ ~Broken(p)
    <3>1. ~(faults > 0)
      <4>1. faults \in Nat /\ faults' \in Nat
        BY DEF Types
      <4>2. faults <= faults'
        BY Growing
      <4> QED BY <4>1, <4>2
    <3>2. ~Broken(p)
      <4>1. Broken(p) => faults' = faults + 1 /\ faults \in Nat
        BY BrokenEffect DEF Types
      <4> QED BY <4>1
    <3>3. stopped \subseteq stopped'
      <4>1. HandleNotice(p) \/ NoticeLost(p) => stopped \subseteq stopped'
        BY HandleNoticeEffect, NoticeLostEffect
      <4>2. Removed(p) \/ Reread(p) => stopped \subseteq stopped'
        BY RemovedEffect, RereadEffect
      <4> QED BY <1>2, <4>1, <4>2, NoticeSteps
    <3> QED BY <3>1, <3>2, <3>3
  <2>2. CASE row' # row
    <3>1. Execute(p)
      <4>1. Calm(p) => row' = row
        BY DEF Calm, table
      <4>2. Connected(p) => row' = row
        BY ConnectedEffect DEF table
      <4>3. Calm(p) \/ Execute(p) \/ Connected(p)
        <5>1. \/ Lookup(p) \/ Register(p) \/ Unregister(p) \/ Sync(p)
              \/ \E job \in {"register", "sync"} : Verified(p, job) \/ Refused(p, job)
              \/ CacheExpires(p) \/ HandleNotice(p) \/ NoticeLost(p) \/ Reply(p) \/ Execute(p) \/ Connected(p)
          BY <1>2, <2>1, Zenon DEF Step
        <5> QED BY <5>1, CalmSteps
      <4> QED BY <2>2, <4>1, <4>2, <4>3
    <3>2. queue[p] # <<>> /\ Head(queue[p]).op \in {"insert", "delete"}
      BY <2>2, <3>1, ExecuteEffect
    <3>3. Changed(Executed(p)) /\ Executed(p) \in Pending(p)'
      BY <3>1, <3>2, ExecutedType, ExecutePending DEF Changed
    <3> QED BY <3>3 DEF Reason
  <2>3. CASE row' = row
    <3>1. CASE r = p /\ excused'[p]
      BY <3>1 DEF Reason
    <3>2. CASE \/ r # p
               \/ r = p /\ UNCHANGED <<cache, excused>> /\ ~Saved(p) /\ ~Removed(p) /\ ~NoticeLost(p)
      <4>1. cache'[r] = cache[r] /\ excused'[r] = excused[r]
        BY <1>2, <3>2, ExcuseSteps
      <4>2. Reason(r)
        BY <2>3, <4>1 DEF Outdated
      <4>3. CASE excused[r]
        BY <4>1, <4>3 DEF Reason
      <4>4. ASSUME r # p, Removed(p) \/ Reread(p)
            PROVE  notices'[r] # <<>>
        BY <4>4, RemovedEffect, RereadEffect, PostedNotices
      <4>5. CASE notices[r] # <<>>
        <5>1. UNCHANGED notices => Reason(r)'
          BY <4>5 DEF Reason
        <5>2. HandleNotice(p) => r # p
          BY <2>1, <4>1, HandleNoticeEffect DEF Types
        <5>3. HandleNotice(p) \/ NoticeLost(p) => notices'[r] = notices[r]
          BY <3>2, <5>2, HandleNoticeEffect, NoticeLostEffect DEF Types
        <5>4. r = p /\ Reread(p) => notices'[r] = notices[r]
          BY RereadEffect, PostedNotices
        <5>5. r = p => ~Removed(p)
          BY <3>2
        <5> QED BY <1>2, <4>4, <4>5, <5>1, <5>3, <5>4, <5>5, NoticeSteps DEF Reason
      <4>6. ASSUME NEW q \in Processes \ {r}, NEW e \in Pending(q), Announces(e)
            PROVE  Reason(r)'
        <5>1. (\E f \in Pending(q)' : Announces(f)) => Reason(r)'
          BY <4>6 DEF Reason, Announces
        <5>2. q = p /\ (Removed(p) \/ Reread(p)) => Reason(r)'
          BY <4>4, <4>6 DEF Reason
        <5> QED BY <1>2, <2>1, <4>6, <5>1, <5>2, AnnouncementsStay
      <4>7. ASSUME NEW e \in Pending(r), Changed(e)
            PROVE  Reason(r)'
        <5>1. (\E f \in Pending(r)' : Changed(f)) => Reason(r)'
          BY DEF Reason
        <5>2. r = p => ~Saved(p) /\ ~Removed(p)
          BY <3>2
        <5> QED BY <1>2, <2>1, <4>7, <5>1, <5>2, AnnouncementsStay DEF Announces
      <4> QED BY <2>1, <4>2, <4>3, <4>5, <4>6, <4>7 DEF Reason, Announces
    <3>3. CASE r = p /\ excused'[p] = (cache'[p] # row)
      BY <2>3, <3>1, <3>3
    <3>4. CASE r = p /\ NoticeLost(p)
      <4>1. /\ cache' = cache
            /\ excused' = [excused EXCEPT ![p] = @ \/ cache[p] \notin {NoLicense, row}]
        BY <3>4, NoticeLostEffect
      <4>2. excused'[p] = (excused[p] \/ cache[p] \notin {NoLicense, row})
        BY <4>1 DEF Types
      <4>3. cache[p] \notin {NoLicense, row}
        BY <2>3, <3>4, <4>1
      <4>4. excused'[p]
        BY <4>2, <4>3
      <4> QED BY <3>1, <3>4, <4>4
    <3> QED BY <1>2, <3>1, <3>2, <3>3, <3>4, ExcuseSteps
  <2> QED BY <2>2, <2>3
<1> QED BY <1>1, <1>2 DEF Next, Step

-----------------------------------------------------------------------------
LEMMA InitInv == Init => LicenseInv
<1> SUFFICES ASSUME Init PROVE LicenseInv
  OBVIOUS
<1>1. Types
  <2>1. row \in AnyLicense /\ cache \in [Processes -> AnyLicense]
    BY DEF Init, AnyLicense
  <2>2. <<>> \in Seq(QueryType) /\ <<>> \in Seq({"license", "nothing"})
    BY EmptySeq
  <2>3. /\ opener \in [Processes -> Seq(QueryType)] /\ queue \in [Processes -> Seq(QueryType)]
        /\ notices \in [Processes -> Seq({"license", "nothing"})]
    BY <2>2 DEF Init
  <2>4. /\ syncLicenses \in [Processes -> BOOLEAN] /\ troubled \in [Processes -> BOOLEAN]
        /\ excused \in [Processes -> BOOLEAN] /\ deleted \in BOOLEAN
    BY DEF Init
  <2>5. /\ db \in [Processes -> {"none", "connecting", "up", "dead"}]
        /\ asking \in [Processes -> [{"register", "sync"} -> Nat]]
        /\ stopped \subseteq Processes
        /\ answer \in [Processes -> {"none", "key", "refused", "error"}]
        /\ writes \in Nat /\ faults \in Nat
    BY DEF Init
  <2> QED BY <2>1, <2>3, <2>4, <2>5 DEF Types
<1>2. \A p \in Processes : Pending(p) = {}
  BY DEF Init, Pending, InQueue, InOpener
<1>3. Order
  BY DEF Init, Order, InOpener
<1>4. Keys
  BY <1>2 DEF Init, Keys, Written, Current
<1>5. Rereads /\ Losses
  BY <1>2 DEF Init, Rereads, Losses
<1>6. Stops
  BY DEF Init, Stops
<1>7. Outdated
  BY DEF Init, Outdated
<1> QED BY <1>1, <1>3, <1>4, <1>5, <1>6, <1>7 DEF LicenseInv

LEMMA LicenseInvariant == Spec => []LicenseInv
<1>1. LicenseInv /\ [Next]_vars => LicenseInv'
  BY NextTypes, OrderStep, KeysStep, RereadsStep, LossesStep, StopsStep, OutdatedStep DEF LicenseInv
<1> QED BY <1>1, InitInv, PTL DEF Spec

(***************************************************************************)
(* Every variable keeps its type; what the table and the caches hold was   *)
(* written before; a connection is being opened exactly while a job waits  *)
(* for it, and no answered query waits behind one that was not.            *)
(***************************************************************************)
THEOREM LicenseTypes == Spec => []TypeOK
<1>1. LicenseInv => TypeOK
  <2> SUFFICES ASSUME LicenseInv PROVE TypeOK
    OBVIOUS
  <2>1. Types /\ Order /\ Keys
    BY DEF LicenseInv
  <2>2. ASSUME NEW l \in AnyLicense, Written(l)
        PROVE  l \in License
    BY <2>2 DEF AnyLicense, License, Written
  <2>3. row \in License /\ cache \in [Processes -> License]
    BY <2>1, <2>2 DEF Types, Keys
  <2>4. \A p \in Processes : \A i \in DOMAIN notices[p] : notices[p][i] \in {"license", "nothing"}
    BY <2>1 DEF Types
  <2> QED BY <2>1, <2>3, <2>4 DEF TypeOK, Types, Order
<1> QED BY <1>1, LicenseInvariant, PTL

(***************************************************************************)
(* Until the client is unregistered, every key a register command handed   *)
(* out, every cached key and the key in the table are one, for any number  *)
(* of processes that register, check and look up at the same time.         *)
(***************************************************************************)
THEOREM OneKeyForAll == Spec => []OneKey
<1>1. LicenseInv => OneKey
  <2> SUFFICES ASSUME LicenseInv, ~deleted
               PROVE  /\ told \subseteq (IF row = NoLicense THEN {} ELSE {row.key})
                      /\ \A p \in Processes : cache[p] # NoLicense => cache[p].key = row.key
    BY DEF OneKey
  <2> QED BY DEF LicenseInv, Keys, Current
<1> QED BY <1>1, LicenseInvariant, PTL

(***************************************************************************)
(* A running process caches an outdated license only while a notification  *)
(* is on its way, or about to be sent, or because it looked the license up *)
(* before the change, made the change itself, or lost a notification.      *)
(***************************************************************************)
THEOREM OutdatedHasReason == Spec => []OutdatedNeedsReason
<1>1. LicenseInv => OutdatedNeedsReason
  <2> SUFFICES ASSUME LicenseInv, NEW p \in Processes, cache[p] \notin {NoLicense, row},
                      ~excused[p], notices[p] = <<>>, ~(faults > 0), stopped = {}
               PROVE  \E q \in Processes :
                        Announcing(q) \/ \E i \in DOMAIN opener[q] : opener[q][i].op = "reread"
    BY DEF OutdatedNeedsReason
  <2>1. PICK q \in Processes : \E e \in Pending(q) : Announces(e)
    BY DEF LicenseInv, Outdated, Reason, Announces
  <2>2. PICK e \in Pending(q) : Announces(e)
    BY <2>1
  <2>3. CASE e \in InQueue(q)
    BY <2>2, <2>3 DEF Announces, Changed, Announcing, InQueue
  <2>4. CASE e \in InOpener(q)
    <3>1. e.status = "sent"
      BY <2>4 DEF LicenseInv, Order
    <3> QED BY <2>2, <2>4, <3>1 DEF Announces, Changed, InOpener
  <2> QED BY <2>3, <2>4 DEF Pending
<1> QED BY <1>1, LicenseInvariant, PTL

(***************************************************************************)
(* A process stops over a missing license only if the client was           *)
(* unregistered, or a connection to MySQL was lost.                        *)
(***************************************************************************)
THEOREM StopsHaveCauses == Spec => []StopNeedsRemovalOrFault
<1>1. LicenseInv => StopNeedsRemovalOrFault
  BY DEF LicenseInv, Stops, StopNeedsRemovalOrFault
<1> QED BY <1>1, LicenseInvariant, PTL

(***************************************************************************)
(* A register command fails over MySQL only if a connection of its process *)
(* broke since it, or another that was under way with it, began, or is     *)
(* kept though it broke before: that others write the row, or have written *)
(* it, is no error.                                                        *)
(***************************************************************************)
THEOREM ErrorsAreLosses == Spec => []ErrorNeedsLostConnection
<1>1. LicenseInv => ErrorNeedsLostConnection
  BY DEF LicenseInv, Losses, ErrorNeedsLostConnection
<1> QED BY <1>1, LicenseInvariant, PTL
=============================================================================
