------------------------------ MODULE License -------------------------------
(***************************************************************************)
(* The license of one client in cloud mode (lib/license.js): the table in  *)
(* MySQL, the cache of each process, the register and unregister commands, *)
(* the daily check of an expired license, and the notifications by which   *)
(* processes tell each other to forget what they have cached.  The MySQL   *)
(* connection of a process (lib/storages/mysql.js) is part of it.          *)
(*                                                                         *)
(* A connection executes one query at a time.  A job - a lookup, a         *)
(* command, a check - has at any time one query in the queue, or waits for *)
(* the connection to open or for the license server.                       *)
(***************************************************************************)
EXTENDS Integers, Sequences, FiniteSets

CONSTANTS
  Processes,
  NoLicense,   \* no row, no cache entry
  MaxStarts,   \* bound on the commands and checks started
  MaxLookups,  \* bound on the queries waiting when a lookup starts
  MaxFaults    \* bound on the losses of a connection to MySQL

ASSUME LicenseAssumption ==
  /\ NoLicense \notin [key : Nat, version : Nat]
  /\ MaxStarts \in Nat /\ MaxLookups \in Nat /\ MaxFaults \in Nat

VARIABLES
  row,          \* the row of the client: its key, and a version for the rest
  cache,        \* cache[p] : the cached license
  syncLicenses, \* syncLicenses[p] : the client is being checked
  db,           \* dbConnection: "none", "connecting", "up", or "dead" but kept
  opener,       \* opener[p] : the query of the job that opens the connection
  queue,        \* queue[p] : queries not yet answered
  asking,       \* asking[p][job] : how many wait for the license server
  notices,      \* notices[p] : notifications on their way to p
  stopped,      \* processes that ended over an exception
  \* history
  told,         \* keys handed out by the register command
  answer,       \* answer[p] : the last answer of a register command
  troubled,     \* troubled[p] : a connection broke since it began, or one
                \* that was under way then
  excused,      \* excused[p] : what p cached is outdated by its own doing, or
                \* was when a notification was lost
  deleted, writes, starts, faults

vars == <<row, cache, syncLicenses, db, opener, queue, asking, notices, stopped,
          told, answer, troubled, excused, deleted, writes, starts, faults>>

State ==
  [cache |-> cache, syncLicenses |-> syncLicenses, db |-> db, opener |-> opener,
   queue |-> queue, asking |-> asking, notices |-> notices, stopped |-> stopped,
   told |-> told, answer |-> answer, troubled |-> troubled, excused |-> excused]

Becomes(s) ==
  /\ cache' = s.cache /\ syncLicenses' = s.syncLicenses /\ db' = s.db
  /\ opener' = s.opener /\ queue' = s.queue /\ asking' = s.asking
  /\ notices' = s.notices /\ stopped' = s.stopped /\ told' = s.told
  /\ answer' = s.answer /\ troubled' = s.troubled /\ excused' = s.excused

table == <<row, deleted, writes>>

Init ==
  /\ row = NoLicense
  /\ cache = [p \in Processes |-> NoLicense]
  /\ syncLicenses = [p \in Processes |-> FALSE]
  /\ db = [p \in Processes |-> "none"]
  /\ opener = [p \in Processes |-> <<>>]
  /\ queue = [p \in Processes |-> <<>>]
  /\ asking = [p \in Processes |-> [job \in {"register", "sync"} |-> 0]]
  /\ notices = [p \in Processes |-> <<>>]
  /\ stopped = {} /\ told = {} /\ answer = [p \in Processes |-> "none"]
  /\ troubled = [p \in Processes |-> FALSE] /\ excused = [p \in Processes |-> FALSE]
  /\ deleted = FALSE /\ writes = 0 /\ starts = 0 /\ faults = 0

-----------------------------------------------------------------------------
(***************************************************************************)
(* Queries.  getDatabase: the first caller opens the connection and waits  *)
(* for it; the others are queued behind the handshake.  A connection that  *)
(* broke under a query is kept, and fails every query.                     *)
(***************************************************************************)
Query(op, job) == [op |-> op, job |-> job, status |-> "sent", reply |-> NoLicense]

Ask(s, p, q) ==
  CASE s.db[p] = "none" -> [s EXCEPT !.db[p] = "connecting", !.opener[p] = <<q>>]
    [] s.db[p] = "dead" -> [s EXCEPT !.queue[p] = Append(@, [q EXCEPT !.status = "failed"])]
    [] OTHER -> [s EXCEPT !.queue[p] = Append(@, q)]

(* refresh: the cache entry and the mark of a check in progress go. *)
Refresh(s, p) ==
  [s EXCEPT !.cache[p] = NoLicense, !.syncLicenses[p] = FALSE, !.excused[p] = FALSE]

(* get: a license that was found is cached, for a day. *)
Fill(s, p, license) ==
  IF license = NoLicense THEN s
  ELSE [s EXCEPT !.cache[p] = license, !.excused[p] = license # row]

(* Mutant: tells nobody. *)
PostToNobody(s, p, notice) == s

(* Mutant: forgets to put the license into the notification. *)
PostEmpty(s, p, notice) ==
  [s EXCEPT !.notices = [q \in Processes |-> IF q = p THEN @[q] ELSE Append(@[q], "nothing")]]

(* postIpcNotification; a process ignores its own. *)
Post(s, p, notice) ==
  [s EXCEPT !.notices = [q \in Processes |-> IF q = p THEN @[q] ELSE Append(@[q], notice)]]

-----------------------------------------------------------------------------
(***************************************************************************)
(* What starts a job.                                                      *)
(***************************************************************************)
Running(p) == p \notin stopped

(* getByRequest, for a license that is not cached. *)
Lookup(p) ==
  /\ Running(p) /\ cache[p] = NoLicense /\ Len(queue[p]) < MaxLookups
  /\ Becomes(Ask(State, p, Query("select", "lookup")))
  /\ UNCHANGED <<table, starts, faults>>

Start(p) == Running(p) /\ starts < MaxStarts /\ starts' = starts + 1

(* No other register command of p is under way. *)
IdleRegister(p) ==
  /\ asking[p]["register"] = 0
  /\ \A i \in DOMAIN queue[p] : queue[p][i].job # "register"
  /\ \A i \in DOMAIN opener[p] : opener[p][i].job # "register"

Register(p) ==
  /\ Start(p)
  /\ Becomes([State EXCEPT !.asking[p]["register"] = @ + 1, !.answer[p] = "none",
                           !.troubled[p] = @ /\ ~IdleRegister(p)])
  /\ UNCHANGED <<table, faults>>

Unregister(p) ==
  /\ Start(p)
  /\ Becomes(Ask(Refresh(State, p), p, Query("select", "unregister")))
  /\ UNCHANGED <<table, faults>>

(* sync, by isValid for a license that has expired: one at a time. *)
Sync(p) ==
  /\ Start(p) /\ ~syncLicenses[p] /\ writes > 0
  /\ Becomes(Ask([State EXCEPT !.syncLicenses[p] = TRUE], p, Query("select", "sync")))
  /\ UNCHANGED <<table, faults>>

(* The license server answers: save, or an error of the server or of save. *)
Verified(p, job) ==
  /\ Running(p) /\ asking[p][job] > 0
  /\ Becomes(Ask([State EXCEPT !.asking[p][job] = @ - 1], p, Query("insert", job)))
  /\ UNCHANGED <<table, starts, faults>>

Refused(p, job) ==
  /\ Running(p) /\ asking[p][job] > 0
  /\ Becomes([State EXCEPT !.asking[p][job] = @ - 1,
                           !.answer[p] = IF job = "register" THEN "refused" ELSE @])
  /\ UNCHANGED <<table, starts, faults>>

CacheExpires(p) ==
  /\ Running(p) /\ cache[p] # NoLicense
  /\ Becomes([State EXCEPT !.cache[p] = NoLicense, !.excused[p] = FALSE])
  /\ UNCHANGED <<table, starts, faults>>

(* processIpcLicenses; a notification without a license throws. *)
HandleNotice(p) ==
  /\ Running(p) /\ notices[p] # <<>>
  /\ LET s == [State EXCEPT !.notices[p] = Tail(@)]
     IN  Becomes(IF Head(notices[p]) = "license" THEN Refresh(s, p)
                 ELSE [s EXCEPT !.stopped = @ \cup {p}])
  /\ UNCHANGED <<table, starts, faults>>

(* PUBLISH reaches whoever is subscribed: p has lost its Redis connection. *)
NoticeLost(p) ==
  /\ Running(p) /\ notices[p] # <<>>
  /\ Becomes([State EXCEPT !.notices[p] = Tail(@),
                           !.excused[p] = @ \/ cache[p] \notin {NoLicense, row}])
  /\ UNCHANGED <<table, starts, faults>>

-----------------------------------------------------------------------------
(***************************************************************************)
(* MySQL.                                                                  *)
(***************************************************************************)
(* Mutant: a row that exists gets the new key too. *)
UpsertWithKey(n) == [key |-> n, version |-> n]

(* INSERT ... ON DUPLICATE KEY UPDATE leaves the key of a row alone. *)
Upsert(n) == [key |-> IF row = NoLicense THEN n ELSE row.key, version |-> n]

(* Mutant: INSERT without ON DUPLICATE KEY fails for a row that exists. *)
ExecuteInsertOnce(p) ==
  /\ db[p] = "up" /\ queue[p] # <<>> /\ Head(queue[p]).status = "sent"
  /\ LET op == Head(queue[p]).op
         fails == op = "insert" /\ row # NoLicense
     IN  /\ row' = CASE op = "insert" /\ ~fails -> Upsert(writes + 1)
                     [] op = "delete" -> NoLicense
                     [] OTHER -> row
         /\ writes' = IF op = "insert" /\ ~fails THEN writes + 1 ELSE writes
         /\ deleted' = (deleted \/ op = "delete")
         /\ Becomes([State EXCEPT !.queue[p][1] =
              [@ EXCEPT !.status = IF fails THEN "failed" ELSE "done", !.reply = row]])
  /\ UNCHANGED <<starts, faults>>

Execute(p) ==
  /\ db[p] = "up" /\ queue[p] # <<>> /\ Head(queue[p]).status = "sent"
  /\ LET op == Head(queue[p]).op
     IN  /\ row' = CASE op = "insert" -> Upsert(writes + 1)
                     [] op = "delete" -> NoLicense
                     [] OTHER -> row
         /\ writes' = IF op = "insert" THEN writes + 1 ELSE writes
         /\ deleted' = (deleted \/ op = "delete")
         /\ Becomes([State EXCEPT !.queue[p][1] = [@ EXCEPT !.status = "done", !.reply = row]])
  /\ UNCHANGED <<starts, faults>>

(* Mutant: the job that opened the connection asks again and again. *)
ConnectedAndWaiting(p) ==
  /\ Running(p) /\ db[p] = "connecting"
  /\ Becomes([State EXCEPT !.db[p] = "up", !.queue[p] = @ \o opener[p]])
  /\ UNCHANGED <<table, starts, faults>>

(* connect's callback; the job that opened the connection is queued last. *)
Connected(p) ==
  /\ Running(p) /\ db[p] = "connecting"
  /\ Becomes([State EXCEPT !.db[p] = "up", !.queue[p] = @ \o opener[p], !.opener[p] = <<>>])
  /\ UNCHANGED <<table, starts, faults>>

(***************************************************************************)
(* The connection breaks, or cannot be opened: every query fails, whether  *)
(* or not it was executed.  Only when no query waits does the "error"      *)
(* event reach the handler that resets dbConnection.                       *)
(***************************************************************************)
Failing(q) == [k \in DOMAIN q |-> [q[k] EXCEPT !.status = "failed"]]

Broken(p) ==
  /\ Running(p) /\ db[p] \in {"connecting", "up"}
  /\ faults < MaxFaults /\ faults' = faults + 1
  /\ Becomes([State EXCEPT
       !.db[p] = IF @ = "up" /\ queue[p] # <<>> THEN "dead" ELSE "none",
       !.queue[p] = Failing(opener[p] \o @), !.opener[p] = <<>>, !.troubled[p] = TRUE])
  /\ UNCHANGED <<table, starts>>

-----------------------------------------------------------------------------
(***************************************************************************)
(* The callbacks of queries, by what they answer.                          *)
(***************************************************************************)
Answered(p, op, status) ==
  /\ Running(p) /\ queue[p] # <<>>
  /\ Head(queue[p]).op = op /\ Head(queue[p]).status = status

Popped(p) == [State EXCEPT !.queue[p] = Tail(@)]
Job(p) == Head(queue[p]).job
Found(p) == Head(queue[p]).reply

EndCheck(s, p) == [s EXCEPT !.syncLicenses[p] = FALSE]

(* Mutant: a license that was checked today stays marked. *)
SelectedStillMarked(p) ==
  /\ Answered(p, "select", "done")
  /\ LET s == Fill(Popped(p), p, Found(p))
     IN  CASE Job(p) = "lookup" -> Becomes(s)
           [] Job(p) = "unregister" ->
                Becomes(IF Found(p) = NoLicense THEN s ELSE Ask(s, p, Query("delete", Job(p))))
           [] Job(p) = "sync" ->
                \/ Becomes(s)
                \/ Found(p) # NoLicense /\ Becomes(Ask(s, p, Query("update", Job(p))))
  /\ UNCHANGED <<table, starts, faults>>

(* get, for a lookup, for unregister, and for sync, which ends if the      *)
(* license is gone or was checked within a day.                            *)
Selected(p) ==
  /\ Answered(p, "select", "done")
  /\ LET s == Fill(Popped(p), p, Found(p))
     IN  CASE Job(p) = "lookup" -> Becomes(s)
           [] Job(p) = "unregister" ->
                Becomes(IF Found(p) = NoLicense THEN s ELSE Ask(s, p, Query("delete", Job(p))))
           [] Job(p) = "sync" ->
                \/ Becomes(EndCheck(s, p))
                \/ Found(p) # NoLicense /\ Becomes(Ask(s, p, Query("update", Job(p))))
  /\ UNCHANGED <<table, starts, faults>>

(* unregister *)
Removed(p) ==
  /\ Answered(p, "delete", "done")
  /\ Becomes(Post([Popped(p) EXCEPT !.excused[p] = TRUE], p, "license"))
  /\ UNCHANGED <<table, starts, faults>>

(* sync: lastCheck is set, the license server is asked. *)
Checked(p) ==
  /\ Answered(p, "update", "done")
  /\ Becomes([EndCheck(Popped(p), p) EXCEPT !.asking[p]["sync"] = @ + 1])
  /\ UNCHANGED <<table, starts, faults>>

(* save: the license is read again, for its key. *)
Saved(p) ==
  /\ Answered(p, "insert", "done")
  /\ Becomes(Ask(Refresh(Popped(p), p), p, Query("reread", Job(p))))
  /\ UNCHANGED <<table, starts, faults>>

(***************************************************************************)
(* save's second callback: the notification, then the answer.  There may   *)
(* be no license any more; the register command then throws inside a       *)
(* promise, which ends the process or not, by the version of Node.         *)
(***************************************************************************)
Reread(p) ==
  /\ Answered(p, "reread", "done") \/ Answered(p, "reread", "failed")
  /\ LET license == IF Head(queue[p]).status = "done" THEN Found(p) ELSE NoLicense
         s == Post(Fill(Popped(p), p, license), p,
                   IF license = NoLicense THEN "nothing" ELSE "license")
     IN  IF Job(p) # "register" THEN Becomes(s)
         ELSE IF license = NoLicense
           THEN \E end \in {{}, {p}} : Becomes([s EXCEPT !.stopped = @ \cup end])
           ELSE Becomes([s EXCEPT !.told = @ \cup {license.key}, !.answer[p] = "key"])
  /\ UNCHANGED <<table, starts, faults>>

(* Any other query that failed ends its job; save answers the command. *)
Failed(p) ==
  /\ \E op \in {"select", "delete", "update", "insert"} : Answered(p, op, "failed")
  /\ LET s == IF Job(p) = "sync" /\ Head(queue[p]).op # "insert"
                THEN EndCheck(Popped(p), p) ELSE Popped(p)
     IN  Becomes([s EXCEPT !.answer[p] = IF Job(p) = "register" THEN "error" ELSE @])
  /\ UNCHANGED <<table, starts, faults>>

Reply(p) ==
  \/ Selected(p) \/ Removed(p) \/ Checked(p)
  \/ Saved(p) \/ Reread(p) \/ Failed(p)

Next == \E p \in Processes :
  \/ Lookup(p) \/ Register(p) \/ Unregister(p) \/ Sync(p)
  \/ \E job \in {"register", "sync"} : Verified(p, job) \/ Refused(p, job)
  \/ CacheExpires(p) \/ HandleNotice(p) \/ NoticeLost(p)
  \/ Execute(p) \/ Connected(p) \/ Broken(p)
  \/ Reply(p)

(***************************************************************************)
(* MySQL and the event loops run; a connection opens or breaks.  Nobody    *)
(* starts anything.                                                        *)
(***************************************************************************)
Fairness ==
  \A p \in Processes :
    WF_vars(Execute(p)) /\ WF_vars(Connected(p)) /\ WF_vars(Reply(p))

Spec == Init /\ [][Next]_vars /\ Fairness

-----------------------------------------------------------------------------
(***************************************************************************)
(* Every variable has its type, and what the table and the caches hold was *)
(* written before; the connection is being opened exactly while a job      *)
(* waits for it, and no query that was answered waits behind one that was  *)
(* not.                                                                    *)
(***************************************************************************)
License == [key : 1..writes, version : 1..writes] \cup {NoLicense}

TypeOK ==
  /\ row \in License
  /\ cache \in [Processes -> License]
  /\ syncLicenses \in [Processes -> BOOLEAN]
  /\ stopped \subseteq Processes
  /\ \A p \in Processes :
       /\ (db[p] = "connecting") = (opener[p] # <<>>)
       /\ db[p] = "connecting" => \A i \in DOMAIN queue[p] : queue[p][i].status # "done"
       /\ \A i \in DOMAIN queue[p] : queue[p][i].status = "done" => i = 1
       /\ \A i \in DOMAIN notices[p] : notices[p][i] \in {"license", "nothing"}

(***************************************************************************)
(* One key: until the client is unregistered, every key a register command *)
(* handed out is the key in the table and in every cache, whatever         *)
(* registrations, checks and lookups run at the same time.                 *)
(***************************************************************************)
OneKey ==
  ~deleted =>
    /\ told \subseteq (IF row = NoLicense THEN {} ELSE {row.key})
    /\ \A p \in Processes : cache[p] # NoLicense => cache[p].key = row.key

(***************************************************************************)
(* A process caches an outdated license only until the notification comes, *)
(* or for one of three reasons: it looked the license up before the change *)
(* and got the reply after the notification, it removed it itself, or a    *)
(* notification was lost.  A change whose reply was lost is not announced  *)
(* at all.                                                                 *)
(***************************************************************************)
Announcing(p) ==
  \E i \in DOMAIN queue[p] :
    \/ queue[p][i].op \in {"insert", "delete"} /\ queue[p][i].status = "done"
    \/ queue[p][i].op = "reread"

OutdatedNeedsReason ==
  \A p \in Processes : cache[p] \notin {NoLicense, row} /\ Running(p) =>
    \/ excused[p]
    \/ notices[p] # <<>>
    \/ \E q \in Processes :
         Announcing(q) \/ \E i \in DOMAIN opener[q] : opener[q][i].op = "reread"
    \/ faults > 0 \/ stopped # {}

(***************************************************************************)
(* A process stops over a missing license only when the client was         *)
(* unregistered while it was being registered, or MySQL was lost.          *)
(***************************************************************************)
StopNeedsRemovalOrFault == stopped # {} => deleted \/ faults > 0

(***************************************************************************)
(* A check ends, however its queries end, so that the client can be        *)
(* checked again another day.                                              *)
(***************************************************************************)
CheckEnds ==
  \A p \in Processes : syncLicenses[p] ~> ~syncLicenses[p] \/ p \in stopped

(***************************************************************************)
(* A register command fails over MySQL only if a connection of its process *)
(* broke since it, or another that was under way with it, began, or had    *)
(* broken under a query before: such a connection is kept, and no command  *)
(* of the process succeeds again.  That the row exists already, or that    *)
(* others write it, is no error.                                           *)
(***************************************************************************)
ErrorNeedsLostConnection ==
  \A p \in Processes : answer[p] = "error" => troubled[p] \/ db[p] = "dead"
=============================================================================
