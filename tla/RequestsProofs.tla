--------------------------- MODULE RequestsProofs ---------------------------
(***************************************************************************)
(* What the requests of a process may do, for any number of requests,      *)
(* whatever they carry and whatever the routes are: which can end the      *)
(* process, which polls are handed to the adapter without a client, what   *)
(* the daily counters say, what is published and what an answer tells of   *)
(* it.  The last part follows a request through its definitions (a batch   *)
(* is refused, answered by a reply or published), to what its outcome may  *)
(* send (Fair), to the invariant of what was sent (PublishInv), and then   *)
(* by its types (Typed), to the type invariant.                            *)
(***************************************************************************)
EXTENDS Requests, LoopTheorems, TLAPS

(* The variables the proof is about; what a request carries is not typed.  *)
Shape ==
  /\ DOMAIN kind = Req /\ DOMAIN route = Req /\ DOMAIN stage = Req
  /\ DOMAIN head = Req /\ DOMAIN socket = Req
  /\ bytes \in [Req -> Nat]
  /\ process \in {"running", "exiting", "exited"}

OverLimit(r) == stage[r] = "body" /\ bytes[r] > Limit(r)

(***************************************************************************)
(* A head is written once: after it a request is done, or is read on over  *)
(* its limit.  (A handler that throws, or whose upgrade is reset, has not  *)
(* written any.)                                                           *)
(***************************************************************************)
OneHead == \A r \in Req : head[r] # 0 => stage[r] = "done" \/ OverLimit(r)

(* Who asks for a license is in the cloud; who has not come reads nothing. *)
StagesFit ==
  /\ \A r \in Req : stage[r] \in {"license", "rejected"} => cloudMode
  /\ \A r \in Req : stage[r] = "new" => bytes[r] = 0 /\ kind[r] = NoKind
  /\ \A r \in Req : stage[r] = "body" => route[r] # "subscribe"

(* Outside the cloud a poll is handed over in the event it came with. *)
OpenUntilHandled ==
  ~cloudMode => \A r \in Req : stage[r] \in {"new", "arrived", "poll"} => socket[r] = "open"

RequestsInv == Shape /\ OneHead /\ StagesFit /\ OpenUntilHandled /\ CrashNeedsCause

-----------------------------------------------------------------------------
(* No command is answered at once and by a reply. *)
LEMMA OneAnswer ==
  ASSUME NEW r \in Req, NEW lic
  PROVE  Outcome(r, lic).reply => Outcome(r, lic).code = 0
<1>1. Reply.code = 0
  BY DEF Reply
<1>2. \A code : ~Refuse(code).reply /\ ~[Refuse(code) EXCEPT !.counted = 1].reply
  BY DEF Refuse
<1>3. \A code, messages, counted : ~Publish(code, messages, counted).reply
  BY DEF Publish
<1> DEFINE Good(o) == o.reply => o.code = 0
<1>4. \A channels, trusted : Good(ChannelStats(channels, trusted, lic))
  BY <1>1, <1>2 DEF ChannelStats
<1>5. \A messages, publicId, trusted : Good(IncomingMessages(r, messages, publicId, trusted, lic))
  BY <1>2, <1>3 DEF IncomingMessages
<1>6. ASSUME NEW body, NEW publicId, NEW trusted
      PROVE  Good(ProcessClientRequest(r, body, publicId, trusted, lic))
  <2> DEFINE o == ProcessClientRequest(r, body, publicId, trusted, lic)
             counted == [Refuse(4015) EXCEPT !.counted = 1]
  <2>1. \/ o = Refuse(4012) \/ o = Refuse(4013) \/ o = Refuse(4014) \/ o = counted
        \/ o = IncomingMessages(r, body.messages, publicId, trusted, lic)
        \/ o = ChannelStats(body.channels, trusted, lic) \/ o = Reply
    BY DEF ProcessClientRequest
  <2>2. ~Refuse(4012).reply /\ ~Refuse(4013).reply /\ ~Refuse(4014).reply /\ ~counted.reply
    BY <1>2
  <2>3. Good(IncomingMessages(r, body.messages, publicId, trusted, lic))
    BY <1>5
  <2>4. Good(ChannelStats(body.channels, trusted, lic)) /\ Good(Reply)
    BY <1>1, <1>4
  <2> HIDE DEF o, counted
  <2>5. Good(o)
    BY <2>1, <2>2, <2>3, <2>4
  <2> QED BY <2>5 DEF o
<1>7. Good(ProcessPublishRequest(r, lic))
  <2> DEFINE binary == ProcessClientRequest(r, Body(r), NoId, TRUE, lic)
  <2>1. Good(binary)
    BY <1>6
  <2>3. Good(Refuse(RequestError(r, lic)))
    BY <1>2
  <2>4. Good(PublishText(r, lic))
    BY DEF PublishText, Publish
  <2>2. ProcessPublishRequest(r, lic) \in {binary, PublishText(r, lic), Refuse(RequestError(r, lic))}
    BY DEF ProcessPublishRequest
  <2> HIDE DEF binary
  <2> QED BY <2>1, <2>2, <2>3, <2>4
<1>8. Good(ProcessChannelStatsRequest(r, lic))
  BY <1>2, <1>4 DEF ProcessChannelStatsRequest
<1>9. Good(ProcessRestRequest(r, lic))
  BY <1>6 DEF ProcessRestRequest
<1>10. Good(ProcessRegisterRequest(r))
  BY <1>2 DEF ProcessRegisterRequest, Reply
<1>11. Good(ProcessSystemRequest(r))
  BY <1>2 DEF ProcessSystemRequest, Reply
<1> QED BY <1>1, <1>2, <1>3, <1>7, <1>8, <1>9, <1>10, <1>11 DEF Outcome

-----------------------------------------------------------------------------
LEMMA InitInv == Init => RequestsInv
<1> SUFFICES ASSUME Init PROVE RequestsInv
  OBVIOUS
<1>1. Shape
  BY DEF Init, Shape
<1> QED BY <1>1 DEF Init, RequestsInv, OneHead, StagesFit, OpenUntilHandled, CrashNeedsCause

(* A cause stays one: requests do not change, bodies only grow, a socket   *)
(* that is gone and a handler that threw stay so.                          *)
CauseOf(r) ==
  \/ bytes[r] > Limit(r) + 1
  \/ kind[r].via = "upgrade" /\ cloudMode /\ socket[r] = "gone"
  \/ stage[r] = "failed" /\ (HashesNull(r) \/ RegistersNoHost(r))
  \/ stage[r] = "rejected" /\ cloudMode /\ Malformed(r)

LEMMA CauseStays ==
  ASSUME CrashNeedsCause, NEW r \in Req,
         process' # process => process' = "running" \/ CauseOf(r)',
         \A q \in Req : CauseOf(q) => CauseOf(q)'
  PROVE  CrashNeedsCause'
BY DEF CrashNeedsCause, CauseOf, Limit, HashesNull, RegistersNoHost, Malformed

(* A step of request r alone: what the parts of the invariant need of it.  *)
Alone(r) ==
  /\ cloudMode' = cloudMode
  /\ DOMAIN kind' = Req /\ DOMAIN route' = Req /\ DOMAIN stage' = Req
  /\ DOMAIN head' = Req /\ DOMAIN socket' = Req
  /\ process' \in {process, "exiting"}
  /\ \A q \in Req : q # r =>
       /\ kind'[q] = kind[q] /\ route'[q] = route[q] /\ stage'[q] = stage[q]
       /\ bytes'[q] = bytes[q] /\ head'[q] = head[q] /\ socket'[q] = socket[q]

LEMMA AloneInv ==
  ASSUME RequestsInv, NEW r \in Req, Alone(r),
         bytes' \in [Req -> Nat],
         head'[r] # 0 => stage'[r] = "done" \/ OverLimit(r)',
         stage'[r] \in {"license", "rejected"} => cloudMode,
         stage'[r] # "new",
         stage'[r] = "body" => route'[r] # "subscribe",
         ~cloudMode /\ stage'[r] \in {"arrived", "poll"} => socket'[r] = "open",
         process' # process => CauseOf(r)',
         CauseOf(r) => CauseOf(r)'
  PROVE  RequestsInv'
<1>1. Shape'
  BY DEF RequestsInv, Shape, Alone
<1>2. OneHead'
  BY DEF RequestsInv, OneHead, OverLimit, Limit, Alone
<1>3. StagesFit'
  BY DEF RequestsInv, StagesFit, Alone
<1>4. OpenUntilHandled'
  BY DEF RequestsInv, OpenUntilHandled, Alone
<1>5. \A q \in Req : CauseOf(q) => CauseOf(q)'
  BY DEF CauseOf, Limit, HashesNull, RegistersNoHost, Malformed, Alone
<1>6. CrashNeedsCause'
  BY <1>5, CauseStays DEF RequestsInv
<1> QED BY <1>1, <1>2, <1>3, <1>4, <1>6 DEF RequestsInv

-----------------------------------------------------------------------------
(***************************************************************************)
(* What a handler leaves of a request r whose head is not written: it has  *)
(* written one at most, and then is done; it cannot end the process but by *)
(* throwing.                                                               *)
(***************************************************************************)
Handled(r) ==
  /\ DOMAIN stage' = Req /\ DOMAIN head' = Req /\ DOMAIN socket' = Req
  /\ \A q \in Req : q # r =>
       stage'[q] = stage[q] /\ head'[q] = head[q] /\ socket'[q] = socket[q]
  /\ stage'[r] \in {"done", "reply", "failed", "poll", "websocket"}
  /\ head'[r] # 0 => stage'[r] = "done"
  /\ stage'[r] = "poll" => route[r] = "subscribe" /\ socket'[r] = socket[r]
  /\ socket[r] = "gone" => socket'[r] = "gone"
  /\ \/ process' = process
     \/ /\ process' = "exiting" /\ stage'[r] = "failed"
        /\ HashesNull(r) \/ RegistersNoHost(r)

LEMMA HandleKeeps ==
  ASSUME Shape, NEW r \in Req, NEW lic, head[r] = 0, Handle(r, lic)
  PROVE  Handled(r)
<1> USE DEF Shape, Handled
<1>1. CASE kind[r].via = "upgrade"
  <2>1. CASE Upgrade(r, lic)
    <3>1. CASE kind[r].path = Server.sub
      BY <2>1, <3>1 DEF Upgrade
    <3>2. CASE kind[r].path # Server.sub
      BY <2>1, <3>2 DEF Upgrade, WriteHead
    <3> QED BY <3>1, <3>2
  <2>2. CASE ~Upgrade(r, lic)
    BY <1>1, <2>2 DEF Handle, HandleUpgrade, WriteHead
  <2> QED BY <2>1, <2>2
<1>2. CASE kind[r].via # "upgrade"
  <2>1. socket' = socket
    BY <1>2 DEF Handle
  <2>2. \/ route[r] = "subscribe" /\ Subscribe(r)
        \/ Throw(r) /\ (HashesNull(r) \/ RegistersNoHost(r))
        \/ Do(r, Outcome(r, lic))
    BY <1>2 DEF Handle, Throws
  <2>3. CASE route[r] = "subscribe" /\ Subscribe(r)
    BY <2>1, <2>3 DEF Subscribe
  <2>4. CASE Throw(r) /\ (HashesNull(r) \/ RegistersNoHost(r))
    BY <2>1, <2>4 DEF Throw, Uncaught
  <2>5. CASE Do(r, Outcome(r, lic))
    <3> DEFINE o == Outcome(r, lic)
    <3>1. /\ stage' = [stage EXCEPT ![r] = IF o.reply THEN "reply" ELSE "done"]
          /\ process' = process
          /\ head' = head \/ (o.code # 0 /\ head' = [head EXCEPT ![r] = HttpStatus(o.code)])
      BY <2>5 DEF Do, WriteHead
    <3>2. o.reply => o.code = 0
      BY OneAnswer
    <3> HIDE DEF o
    <3> QED BY <2>1, <3>1, <3>2
  <2> QED BY <2>2, <2>3, <2>4, <2>5
<1> QED BY <1>1, <1>2

(* Begin, at the event r came with or at the end of its body. *)
LEMMA BeginInv ==
  ASSUME RequestsInv, NEW r \in Req, Begin(r),
         stage[r] = "arrived" \/ (stage[r] = "body" /\ ~OverLimit(r)),
         UNCHANGED <<cloudMode, kind, route, bytes>>
  PROVE  RequestsInv'
<1>1. head[r] = 0
  BY DEF RequestsInv, OneHead, OverLimit
<1>4. CASE NeedsLicense(r) /\ Malformed(r) /\ Reject(r)
  <2>1. /\ stage' = [stage EXCEPT ![r] = "rejected"] /\ cloudMode /\ Malformed(r)
        /\ process' \in {process, "exiting"} /\ UNCHANGED <<head, socket>>
    BY <1>4 DEF Reject, Uncaught, NeedsLicense
  <2>2. Alone(r) /\ stage'[r] = "rejected" /\ head'[r] = 0
    BY <1>1, <2>1 DEF Alone, RequestsInv, Shape
  <2>3. CauseOf(r)'
    BY <2>1, <2>2 DEF CauseOf, Malformed
  <2> QED BY <2>1, <2>2, <2>3, AloneInv DEF RequestsInv, Shape
<1>2. CASE NeedsLicense(r) /\ AskLicense(r)
  <2>1. /\ stage' = [stage EXCEPT ![r] = "license"] /\ cloudMode
        /\ UNCHANGED <<head, socket, process>>
    BY <1>2 DEF AskLicense, NeedsLicense
  <2>2. Alone(r) /\ stage'[r] = "license" /\ head'[r] = 0
    BY <1>1, <2>1 DEF Alone, RequestsInv, Shape
  <2>3. CauseOf(r) => CauseOf(r)'
    BY <2>1, <2>2 DEF CauseOf, Limit, HashesNull, RegistersNoHost, Malformed
  <2> QED BY <2>1, <2>2, <2>3, AloneInv DEF RequestsInv, Shape
<1>3. CASE Handle(r, "none")
  <2>1. Handled(r)
    BY <1>1, <1>3, HandleKeeps DEF RequestsInv
  <2>2. Alone(r) /\ bytes' \in [Req -> Nat]
    BY <2>1 DEF Alone, Handled, RequestsInv, Shape
  <2>3. ~cloudMode /\ stage'[r] = "poll" => socket'[r] = "open"
    BY <2>1 DEF Handled, RequestsInv, OpenUntilHandled, StagesFit
  <2>4. CauseOf(r) => CauseOf(r)'
    BY <2>1 DEF Handled, CauseOf, Limit, HashesNull, RegistersNoHost, Malformed
  <2>5. process' # process => CauseOf(r)'
    BY <2>1 DEF Handled, CauseOf, HashesNull, RegistersNoHost, Malformed
  <2>6. /\ head'[r] # 0 => stage'[r] = "done"
        /\ stage'[r] \notin {"license", "rejected", "new", "body", "arrived"}
    BY <2>1 DEF Handled
  <2> QED BY <2>2, <2>3, <2>4, <2>5, <2>6, AloneInv
<1> QED BY <1>2, <1>3, <1>4 DEF Begin

-----------------------------------------------------------------------------
(* The events of a request, one lemma each. *)
LEMMA ArriveInv ==
  ASSUME RequestsInv, NEW r \in Req, Arrive(r)
  PROVE  RequestsInv'
<1>1. /\ stage[r] = "new" /\ stage' = [stage EXCEPT ![r] = "arrived"]
      /\ UNCHANGED <<cloudMode, bytes, head, socket, process>>
  BY DEF Arrive
<1>2. PICK k \in Kinds[r] : kind' = [kind EXCEPT ![r] = k]
  BY DEF Arrive
<1>3. DOMAIN route' = Req /\ \A q \in Req : q # r => route'[q] = route[q]
  BY DEF Arrive, RequestsInv, Shape
<1>4. Alone(r) /\ stage'[r] = "arrived" /\ head'[r] = 0
  BY <1>1, <1>2, <1>3 DEF Alone, RequestsInv, Shape, OneHead, OverLimit
<1>5. ~CauseOf(r)
  <2>1. bytes[r] = 0 /\ kind[r].via # "upgrade"
    BY <1>1 DEF RequestsInv, StagesFit, NoKind
  <2>2. Limit(r) \in Nat
    BY RequestsAssumption DEF Limit
  <2> QED BY <1>1, <2>1, <2>2 DEF CauseOf, HashesNull, RegistersNoHost, Malformed
<1>6. ~cloudMode => socket'[r] = "open"
  BY <1>1 DEF RequestsInv, OpenUntilHandled
<1> QED BY <1>1, <1>4, <1>5, <1>6, AloneInv DEF RequestsInv, Shape

LEMMA ProcessInv ==
  ASSUME RequestsInv, NEW r \in Req, Process(r)
  PROVE  RequestsInv'
<1>1. stage[r] = "arrived" /\ UNCHANGED <<cloudMode, kind, route, bytes>>
  BY DEF Process
<1>2. CASE Begin(r)
  BY <1>1, <1>2, BeginInv
<1>3. CASE ~Begin(r)
  <2>1. /\ stage' = [stage EXCEPT ![r] = "body"] /\ route[r] # "subscribe"
        /\ UNCHANGED <<head, socket, process>>
    BY <1>3 DEF Process
  <2>2. Alone(r) /\ stage'[r] = "body" /\ head'[r] = 0
    BY <1>1, <2>1 DEF Alone, RequestsInv, Shape, OneHead, OverLimit
  <2>3. CauseOf(r) => CauseOf(r)'
    BY <1>1, <2>1, <2>2 DEF CauseOf, Limit, HashesNull, RegistersNoHost, Malformed
  <2> QED BY <1>1, <2>1, <2>2, <2>3, AloneInv DEF RequestsInv, Shape
<1> QED BY <1>2, <1>3

(* A second 413 is a cause. *)
LEMMA DataInv ==
  ASSUME RequestsInv, NEW r \in Req, Data(r)
  PROVE  RequestsInv'
<1>1. /\ stage[r] = "body" /\ bytes' = [bytes EXCEPT ![r] = @ + 1]
      /\ UNCHANGED <<cloudMode, kind, route, stage>>
  BY DEF Data
<1>2. /\ Limit(r) \in Nat /\ Limit(r)' = Limit(r) /\ bytes[r] \in Nat
      /\ bytes'[r] = bytes[r] + 1 /\ bytes' \in [Req -> Nat]
  BY <1>1, RequestsAssumption DEF Limit, RequestsInv, Shape
<1>3. route[r] # "subscribe"
  BY <1>1 DEF RequestsInv, StagesFit
<1>4. CASE bytes[r] + 1 > Limit(r)
  <2>1. /\ socket' = [socket EXCEPT ![r] = "gone"]
        /\ \/ head[r] # 0 /\ process' = "exiting" /\ head' = head
           \/ head' = [head EXCEPT ![r] = 413] /\ process' = process
    BY <1>4 DEF Data, WriteHead
  <2>2. Alone(r)
    BY <1>1, <2>1 DEF Alone, RequestsInv, Shape
  <2>3. OverLimit(r)'
    BY <1>1, <1>2, <1>4 DEF OverLimit
  <2>4. process' # process => CauseOf(r)'
    BY <1>1, <1>2, <2>1 DEF CauseOf, HashesNull, RegistersNoHost, Malformed, RequestsInv, OneHead, OverLimit
  <2>5. CauseOf(r) => CauseOf(r)'
    BY <1>1, <1>2, <2>1 DEF CauseOf, HashesNull, RegistersNoHost, Malformed, RequestsInv, Shape
  <2> QED BY <1>1, <1>2, <1>3, <2>2, <2>3, <2>4, <2>5, AloneInv
<1>5. CASE ~(bytes[r] + 1 > Limit(r))
  <2>1. UNCHANGED <<head, socket, process>>
    BY <1>5 DEF Data
  <2>2. Alone(r)
    BY <1>1, <2>1 DEF Alone, RequestsInv, Shape
  <2>3. head'[r] = 0
    BY <1>1, <1>2, <1>5, <2>1 DEF RequestsInv, OneHead, OverLimit
  <2>4. CauseOf(r) => CauseOf(r)'
    BY <1>1, <1>2, <2>1 DEF CauseOf, HashesNull, RegistersNoHost, Malformed
  <2> QED BY <1>1, <1>2, <1>3, <2>1, <2>2, <2>3, <2>4, AloneInv
<1> QED BY <1>4, <1>5

LEMMA EndInv ==
  ASSUME RequestsInv, NEW r \in Req, End(r)
  PROVE  RequestsInv'
<1>1. stage[r] = "body" /\ UNCHANGED <<cloudMode, kind, route, bytes>>
  BY DEF End
<1>2. CASE bytes[r] > Limit(r)
  <2>1. stage' = [stage EXCEPT ![r] = "done"] /\ UNCHANGED <<head, socket, process>>
    BY <1>2 DEF End
  <2>2. Alone(r) /\ stage'[r] = "done"
    BY <1>1, <2>1 DEF Alone, RequestsInv, Shape
  <2>3. CauseOf(r) => CauseOf(r)'
    BY <1>1, <2>1, <2>2 DEF CauseOf, Limit, HashesNull, RegistersNoHost, Malformed
  <2> QED BY <1>1, <2>1, <2>2, <2>3, AloneInv DEF RequestsInv, Shape
<1>3. CASE ~(bytes[r] > Limit(r))
  <2>1. Begin(r) /\ ~OverLimit(r)
    BY <1>3 DEF End, OverLimit
  <2> QED BY <1>1, <2>1, BeginInv
<1> QED BY <1>2, <1>3

LEMMA LicenseFoundInv ==
  ASSUME RequestsInv, NEW r \in Req, LicenseFound(r)
  PROVE  RequestsInv'
<1>1. stage[r] = "license" /\ UNCHANGED <<cloudMode, kind, route, bytes>>
  BY DEF LicenseFound
<1>2. PICK lic \in Licenses : Handle(r, lic)
  BY DEF LicenseFound
<1>3. head[r] = 0 /\ cloudMode
  BY <1>1 DEF RequestsInv, OneHead, OverLimit, StagesFit
<1>4. Handled(r)
  BY <1>2, <1>3, HandleKeeps DEF RequestsInv
<1>5. Alone(r) /\ bytes' \in [Req -> Nat]
  BY <1>1, <1>4 DEF Alone, Handled, RequestsInv, Shape
<1>6. CauseOf(r) => CauseOf(r)'
  BY <1>1, <1>4 DEF Handled, CauseOf, Limit, HashesNull, RegistersNoHost, Malformed
<1>7. process' # process => CauseOf(r)'
  BY <1>1, <1>4 DEF Handled, CauseOf, HashesNull, RegistersNoHost, Malformed
<1>8. /\ head'[r] # 0 => stage'[r] = "done"
      /\ stage'[r] \notin {"license", "rejected", "new", "body", "arrived"}
  BY <1>4 DEF Handled
<1> QED BY <1>3, <1>5, <1>6, <1>7, <1>8, AloneInv

(* A reply is late at most for its client: the head is not written yet. *)
LEMMA AnsweredInv ==
  ASSUME RequestsInv, NEW r \in Req, Answered(r)
  PROVE  RequestsInv'
<1>1. /\ stage[r] = "reply" /\ stage' = [stage EXCEPT ![r] = "done"]
      /\ UNCHANGED <<cloudMode, kind, route, bytes, socket>>
  BY DEF Answered
<1>2. head[r] = 0
  BY <1>1 DEF RequestsInv, OneHead, OverLimit
<1>3. head' = [head EXCEPT ![r] = 200] /\ process' = process
  BY <1>2 DEF Answered, WriteHead
<1>4. Alone(r) /\ stage'[r] = "done"
  BY <1>1, <1>3 DEF Alone, RequestsInv, Shape
<1>5. CauseOf(r) => CauseOf(r)'
  BY <1>1, <1>4 DEF CauseOf, Limit, HashesNull, RegistersNoHost, Malformed
<1> QED BY <1>1, <1>3, <1>4, <1>5, AloneInv DEF RequestsInv, Shape

LEMMA TimeoutInv ==
  ASSUME RequestsInv, NEW r \in Req, Timeout(r)
  PROVE  RequestsInv'
<1>1. /\ stage[r] \in {"reply", "failed"} /\ socket' = [socket EXCEPT ![r] = "gone"]
      /\ UNCHANGED <<cloudMode, kind, route, stage, bytes, head, process>>
  BY DEF Timeout
<1>2. Alone(r) /\ socket'[r] = "gone" /\ head[r] = 0
  BY <1>1 DEF Alone, RequestsInv, Shape, OneHead, OverLimit
<1>3. CauseOf(r) => CauseOf(r)'
  BY <1>1, <1>2 DEF CauseOf, Limit, HashesNull, RegistersNoHost, Malformed
<1> QED BY <1>1, <1>2, <1>3, AloneInv DEF RequestsInv, Shape

LEMMA FrameInv ==
  ASSUME RequestsInv, NEW r \in Req, Frame(r)
  PROVE  RequestsInv'
<1>1. /\ stage[r] = "websocket" /\ socket[r] # "gone"
      /\ UNCHANGED <<cloudMode, kind, route, stage, bytes, head, process>>
  BY DEF Frame
<1>2. DOMAIN socket' = Req /\ \A q \in Req : q # r => socket'[q] = socket[q]
  BY DEF Frame, RequestsInv, Shape
<1>3. Alone(r) /\ head[r] = 0
  BY <1>1, <1>2 DEF Alone, RequestsInv, Shape, OneHead, OverLimit
<1>4. CauseOf(r) => CauseOf(r)'
  BY <1>1 DEF CauseOf, Limit, HashesNull, RegistersNoHost, Malformed
<1> QED BY <1>1, <1>3, <1>4, AloneInv DEF RequestsInv, Shape

(* The reset of an upgrade that waits for its license is a cause. *)
LEMMA ClientLeavesInv ==
  ASSUME RequestsInv, NEW r \in Req, ClientLeaves(r)
  PROVE  RequestsInv'
<1>1. /\ stage[r] # "new" /\ socket' = [socket EXCEPT ![r] = "gone"]
      /\ stage' = [stage EXCEPT ![r] =
           IF @ \in {"arrived", "body", "poll", "websocket"} THEN "done" ELSE @]
      /\ UNCHANGED <<cloudMode, kind, route, bytes, head>>
  BY DEF ClientLeaves
<1>2. \/ process' = process
      \/ /\ stage[r] \in {"license", "rejected"} /\ kind[r].via = "upgrade"
         /\ process' = "exiting"
  BY DEF ClientLeaves
<1>3. /\ Alone(r) /\ socket'[r] = "gone"
      /\ stage'[r] = IF stage[r] \in {"arrived", "body", "poll", "websocket"} THEN "done"
                     ELSE stage[r]
  BY <1>1, <1>2 DEF Alone, RequestsInv, Shape
<1>4. process' # process => CauseOf(r)'
  BY <1>1, <1>2, <1>3 DEF CauseOf, HashesNull, RegistersNoHost, Malformed, RequestsInv, StagesFit
<1>5. CauseOf(r) => CauseOf(r)'
  BY <1>1, <1>3 DEF CauseOf, Limit, HashesNull, RegistersNoHost, Malformed
<1>6. head'[r] # 0 => stage'[r] = "done"
  BY <1>1, <1>3 DEF RequestsInv, OneHead, OverLimit
<1>7. stage'[r] \in {"license", "rejected"} => cloudMode
  BY <1>3 DEF RequestsInv, StagesFit
<1>8. stage'[r] \notin {"new", "body", "arrived", "poll"}
  BY <1>1, <1>3
<1> QED BY <1>1, <1>3, <1>4, <1>5, <1>6, <1>7, <1>8, AloneInv DEF RequestsInv, Shape

LEMMA NextInv == RequestsInv /\ [Next]_vars => RequestsInv'
<1> SUFFICES ASSUME RequestsInv, [Next]_vars PROVE RequestsInv'
  OBVIOUS
<1>1. ASSUME NEW r \in Req, Step(r) PROVE RequestsInv'
  BY <1>1, ArriveInv, ProcessInv, DataInv, EndInv, LicenseFoundInv, AnsweredInv,
     TimeoutInv, FrameInv, ClientLeavesInv DEF Step
<1>2. CASE UNCHANGED <<cloudMode, rvars>> /\ process' \in {process, "exited"} /\
           (process' # process => process = "exiting")
  BY <1>2 DEF rvars, RequestsInv, Shape, OneHead, OverLimit, Limit, StagesFit,
              OpenUntilHandled, CrashNeedsCause, HashesNull, RegistersNoHost, Malformed
<1>3. CASE Report \/ Midnight \/ Exit \/ UNCHANGED vars
  BY <1>2, <1>3 DEF Report, Midnight, Exit, vars
<1> QED BY <1>1, <1>3 DEF Next

LEMMA RequestsInvariant == Spec => []RequestsInv
<1> QED BY InitInv, NextInv, PTL DEF Spec

-----------------------------------------------------------------------------
(***************************************************************************)
(* The process ends by one of four kinds of requests only: a body that is  *)
(* read on after its 413, an upgrade that was reset before it was a        *)
(* websocket, signed statistics without CHANNEL_ID, and a URL or Host that *)
(* does not parse, in the cloud or in a registration.  No late reply,      *)
(* frame, timeout or other request writes a second head or throws.         *)
(***************************************************************************)
THEOREM FourKindsCrash == Spec => []CrashNeedsCause
<1>1. RequestsInv => CrashNeedsCause
  BY DEF RequestsInv
<1> QED BY <1>1, RequestsInvariant, PTL

(***************************************************************************)
(* Outside the cloud mode every poll is handed to the adapter with its     *)
(* socket open, so that its "close" event will remove it.                  *)
(***************************************************************************)
THEOREM GhostPollsAreOfTheCloud == Spec => []GhostPollNeedsCloud
<1>1. RequestsInv => GhostPollNeedsCloud
  BY DEF RequestsInv, OpenUntilHandled, GhostPollNeedsCloud
<1> QED BY <1>1, RequestsInvariant, PTL

-----------------------------------------------------------------------------
(***************************************************************************)
(* The counters are those of today, or of an earlier day, when nothing was *)
(* counted since midnight.                                                 *)
(***************************************************************************)
CountsOfToday ==
  /\ DOMAIN counts = {"day", "requests", "messages"}
  /\ day \in Nat /\ counts.day \in Nat /\ counts.day <= day
  /\ counts.day = day => counts.requests = today.requests /\ counts.messages = today.messages
  /\ counts.day < day => today.requests = 0 /\ today.messages = 0

LEMMA IncrementKeeps ==
  ASSUME CountsOfToday, NEW requests, NEW messages, Increment(requests, messages), day' = day
  PROVE  CountsOfToday'
<1> DEFINE c == TryResetCounters(counts)
<1>1. c.day = day /\ c.requests = today.requests /\ c.messages = today.messages
  BY DEF CountsOfToday, TryResetCounters
<1>4. DOMAIN c = {"day", "requests", "messages"}
  BY DEF CountsOfToday, TryResetCounters
<1>2. /\ DOMAIN counts' = {"day", "requests", "messages"}
      /\ counts'.day = c.day
      /\ counts'.requests = c.requests + requests /\ counts'.messages = c.messages + messages
  <2>1. counts' = [c EXCEPT !.requests = @ + requests, !.messages = @ + messages]
    BY DEF Increment
  <2> HIDE DEF c
  <2> QED BY <1>4, <2>1
<1>3. today'.requests = today.requests + requests /\ today'.messages = today.messages + messages
  BY DEF Increment
<1> QED BY <1>1, <1>2, <1>3 DEF CountsOfToday

(* A handler counts, or leaves the counters alone. *)
Counting ==
  \/ UNCHANGED <<counts, today>>
  \/ \E requests, messages : Increment(requests, messages)

LEMMA HandleCounts ==
  ASSUME NEW r, NEW lic, Handle(r, lic)
  PROVE  Counting
<1>1. CASE kind[r].via = "upgrade"
  BY <1>1 DEF Handle, HandleUpgrade, Upgrade, Counting
<1>2. CASE kind[r].via # "upgrade"
  <2>1. Subscribe(r) \/ Throw(r) \/ Do(r, Outcome(r, lic))
    BY <1>2 DEF Handle
  <2> QED BY <2>1 DEF Subscribe, Throw, Do, CountedBy, Counting
<1> QED BY <1>1, <1>2

LEMMA CountsStep ==
  ASSUME CountsOfToday, [Next]_vars
  PROVE  CountsOfToday'
<1>1. ASSUME Counting, day' = day
      PROVE  CountsOfToday'
  <2>1. CASE UNCHANGED <<counts, today>>
    BY <1>1, <2>1 DEF CountsOfToday
  <2> QED BY <1>1, <2>1, IncrementKeeps DEF Counting
<1>2. ASSUME NEW r \in Req, Arrive(r) \/ Data(r) \/ Answered(r) \/ Timeout(r) \/ ClientLeaves(r)
      PROVE  CountsOfToday'
  BY <1>1, <1>2 DEF Arrive, Data, Answered, Timeout, ClientLeaves, svars, Counting
<1>3. ASSUME NEW r \in Req, Process(r) \/ End(r) \/ LicenseFound(r)
      PROVE  CountsOfToday'
  <2>1. day' = day
    BY <1>3 DEF Process, End, LicenseFound
  <2>2. \/ UNCHANGED <<counts, today>>
        \/ \E lic : Handle(r, lic)
    BY <1>3 DEF Process, End, LicenseFound, Begin, Reject, AskLicense
  <2> QED BY <1>1, <2>1, <2>2, HandleCounts DEF Counting
<1>4. ASSUME NEW r \in Req, Frame(r)
      PROVE  CountsOfToday'
  <2>1. day' = day /\ \E o : CountedBy(o)
    BY <1>4 DEF Frame
  <2> QED BY <1>1, <2>1 DEF CountedBy, Counting
<1>5. CASE Report
  BY <1>1, <1>5 DEF Report, Counting
<1>6. CASE Midnight
  BY <1>6 DEF Midnight, CountsOfToday
<1>7. CASE Exit \/ UNCHANGED vars
  BY <1>1, <1>7 DEF Exit, vars, svars, Counting
<1> QED BY <1>2, <1>3, <1>4, <1>5, <1>6, <1>7 DEF Next, Step

(***************************************************************************)
(* Whenever the daily statistics are read they count what was done since   *)
(* midnight, although nothing runs at midnight: whoever uses the counters  *)
(* next resets them.                                                       *)
(***************************************************************************)
THEOREM StatisticsAreOfToday == Spec => []ReportedIsToday
<1>1. Init => CountsOfToday
  <2> SUFFICES ASSUME Init PROVE CountsOfToday
    OBVIOUS
  <2>1. /\ counts = [day |-> 0, requests |-> 0, messages |-> 0] /\ day = 0
        /\ today = [requests |-> 0, messages |-> 0]
    BY DEF Init
  <2>2. DOMAIN counts = {"day", "requests", "messages"}
    BY <2>1
  <2> QED BY <2>1, <2>2 DEF CountsOfToday
<1>2. CountsOfToday => ReportedIsToday
  BY DEF CountsOfToday, ReportedIsToday, TryResetCounters
<1> QED BY <1>1, <1>2, CountsStep, PTL DEF Spec

-----------------------------------------------------------------------------
(***************************************************************************)
(* What is published, and what the answer says of it.  First the           *)
(* definitions a request goes through, then what each event sends.         *)
(***************************************************************************)
LEMMA LeastExists ==
  ASSUME NEW n \in Nat, NEW I \in SUBSET (1..n), I # {}
  PROVE  Min(I) \in I
<1> DEFINE None == {i \in 0..n : \A k \in 1..i : k \notin I}
<1> SUFFICES ASSUME \A j \in I : \E k \in I : ~(j <= k) PROVE FALSE
  BY DEF Min
<1>1. 0 \in None
  OBVIOUS
<1>2. ASSUME NEW k \in 1..n, k - 1 \in None PROVE k \in None
  <2>1. k \notin I
    BY <1>2
  <2> QED BY <1>2, <2>1
<1> HIDE DEF None
<1>3. 0..n \subseteq None
  BY <1>1, <1>2, UpToInduction
<1>4. \A k \in 1..n : k \notin I
  BY <1>3 DEF None
<1> QED BY <1>4

(* The routes are some of those the constructor adds, in so many rounds. *)
Entries == {Constructed[j] : j \in 1..Len(Constructed)}
Routers == [routes : Seq(Entries), ok : BOOLEAN]

LEMMA RoutesByRounds ==
  \E run \in [0..Len(Constructed) -> Routers] :
    /\ run[0] = [routes |-> <<>>, ok |-> TRUE]
    /\ \A i \in 1..Len(Constructed) : run[i] = AddGiven(run[i-1], Constructed[i])
    /\ Routes = run[Len(Constructed)]
<1> DEFINE n == Len(Constructed)
           start == [routes |-> <<>>, ok |-> TRUE]
           Round(x, i) == AddGiven(x, Constructed[i])
           G == [xi \in Routers \X (1..n) |-> Round(xi[1], xi[2])]
           Eq(g) == g = [i \in 0..n |-> IF i = 0 THEN start ELSE Round(g[i-1], i)]
           run == CHOOSE g : Eq(g)
<1>0. n \in Nat
  BY DEF Constructed
<1>1. ASSUME NEW x \in Routers, NEW i \in 1..n PROVE Round(x, i) \in Routers
  <2>1. Constructed[i] \in Entries
    BY DEF Entries
  <2>2. Append(x.routes, Constructed[i]) \in Seq(Entries)
    BY <2>1 DEF Routers
  <2>3. Add(x, Constructed[i]) \in Routers
    BY <2>2 DEF Add, Routers
  <2> QED BY <2>3 DEF AddGiven
<1>2. start \in Routers
  BY DEF Routers
<1> HIDE DEF n, Round, start
<1>3. G \in [Routers \X (1..n) -> Routers]
  BY <1>1
<1>4. PICK f \in [0..n -> Routers] : IsRun(f, n, start, G)
  <2> HIDE DEF G
  <2> QED BY <1>0, <1>2, <1>3, LoopExists, Zenon
<1>5. f[0] = start /\ \A i \in 1..n : f[i] = G[<<f[i-1], i>>]
  <2> HIDE DEF G
  <2> QED BY <1>4 DEF IsRun
<1>6. ASSUME NEW i \in 1..n PROVE f[i] = Round(f[i-1], i)
  <2>1. f[i-1] \in Routers
    BY <1>0
  <2>2. G[<<f[i-1], i>>] = Round(f[i-1], i)
    BY <2>1
  <2> QED BY <1>5, <2>2
<1>7. \A i \in 0..n : f[i] = IF i = 0 THEN start ELSE Round(f[i-1], i)
  BY <1>0, <1>5, <1>6
<1>8. Eq(f)
  BY <1>7
<1>9. Eq(run)
  BY <1>8
<1> HIDE DEF run, G
<1>10. 0..n \subseteq {i \in 0..n : run[i] \in Routers}
  <2>1. 0 \in {i \in 0..n : run[i] \in Routers}
    BY <1>0, <1>2, <1>9
  <2>2. ASSUME NEW k \in 1..n, k - 1 \in {i \in 0..n : run[i] \in Routers}
        PROVE  k \in {i \in 0..n : run[i] \in Routers}
    <3>1. run[k] = Round(run[k-1], k)
      BY <1>0, <1>9
    <3> QED BY <1>0, <1>1, <2>2, <3>1
  <2> QED BY <1>0, <2>1, <2>2, UpToInduction
<1>11. run \in [0..n -> Routers]
  BY <1>9, <1>10
<1>12. run[0] = start /\ \A i \in 1..n : run[i] = Round(run[i-1], i)
  BY <1>0, <1>9
<1>13. Routes = run[n]
  BY DEF Routes, run, n, Round, start
<1> QED BY <1>11, <1>12, <1>13 DEF n, Round, start

LEMMA RoutesAreConstructed == Routes.routes \in Seq(Entries)
<1>1. Len(Constructed) \in Nat
  BY DEF Constructed
<1>2. Routes \in Routers
  BY <1>1, RoutesByRounds
<1> QED BY <1>2 DEF Routers

(* Only POST on the pub route is a publish. *)
LEMMA PublishRoute ==
  ASSUME NEW method, NEW url, Match(Routes.routes, method, url).fn = "publish"
  PROVE  method = "POST" /\ IsPrefix(Server.pub, url)
<1> DEFINE rs == Routes.routes
           I == {i \in 1..Len(rs) : rs[i].method = method /\ IsPrefix(rs[i].path, url)}
<1>1. rs \in Seq(Entries)
  BY RoutesAreConstructed
<1>2. Match(rs, method, url) = IF I # {} THEN rs[Min(I)] ELSE NoRoute
  <2>1. CASE I = {}
    BY <2>1 DEF Match, SelectInSeq
  <2>2. CASE I # {}
    <3>1. Min(I) \in I
      <4>1. Len(rs) \in Nat /\ I \in SUBSET (1..Len(rs))
        BY <1>1
      <4> HIDE DEF I, rs
      <4> QED BY <2>2, <4>1, LeastExists
    <3>2. Min(I) # 0
      BY <1>1, <3>1
    <3> QED BY <2>2, <3>2 DEF Match, SelectInSeq
  <2> QED BY <2>1, <2>2
<1>3. I # {}
  <2> HIDE DEF I
  <2>1. I = {} => Match(rs, method, url) = NoRoute
    BY <1>2
  <2>2. NoRoute.fn = "none"
    BY DEF NoRoute
  <2>3. Match(rs, method, url) # NoRoute
    BY <2>2
  <2> QED BY <2>1, <2>3
<1>4. Min(I) \in I
  <2>1. Len(rs) \in Nat /\ I \in SUBSET (1..Len(rs))
    BY <1>1
  <2> HIDE DEF I, rs
  <2> QED BY <1>3, <2>1, LeastExists
<1>5. PICK i \in 1..Len(rs) : /\ rs[i].method = method /\ IsPrefix(rs[i].path, url)
                              /\ rs[i].fn = "publish"
  BY <1>2, <1>3, <1>4
<1>6. rs[i] \in Entries
  BY <1>1
<1>7. rs[i] = Constructed[1]
  BY <1>5, <1>6 DEF Entries, Constructed
<1> QED BY <1>5, <1>7 DEF Constructed

-----------------------------------------------------------------------------
(* FirstError is one of the codes, or none of them is an error. *)
LEMMA FirstErrorIsOne ==
  ASSUME NEW S \in SUBSET Int, NEW codes \in Seq(S)
  PROVE  /\ FirstError(codes) \in S \cup {0}
         /\ FirstError(codes) = 0 => \A i \in 1..Len(codes) : codes[i] = 0
<1> DEFINE I == {i \in 1..Len(codes) : codes[i] # 0}
<1>0. Len(codes) \in Nat /\ I \in SUBSET (1..Len(codes))
  OBVIOUS
<1>1. CASE I = {}
  <2>1. FirstError(codes) = 0
    BY <1>1 DEF FirstError, SelectInSeq
  <2> QED BY <1>1, <2>1
<1>2. CASE I # {}
  <2>1. Min(I) \in I
    <3> HIDE DEF I
    <3> QED BY <1>0, <1>2, LeastExists
  <2>2. Min(I) \in 1..Len(codes) /\ codes[Min(I)] # 0 /\ Min(I) # 0
    BY <1>0, <2>1
  <2>3. FirstError(codes) = codes[Min(I)]
    BY <1>2, <2>2 DEF FirstError, SelectInSeq
  <2> HIDE DEF I
  <2>4. codes[Min(I)] \in S
    BY <2>2
  <2> QED BY <2>2, <2>3, <2>4
<1> QED BY <1>1, <1>2

(* The codes of a refused command, all answered 400. *)
Errors == 4012..4035 \ {4029}

LEMMA ErrorStatus ==
  ASSUME NEW code \in Errors
  PROVE  HttpStatus(code) = 400
BY DEF Errors, HttpStatus

(* The receivers of one message. *)
LEMMA ChannelsValidated ==
  ASSUME NEW R, NEW channels \in Seq(R), NEW trusted \in BOOLEAN, NEW lic
  PROVE  /\ ValidateChannels(channels, trusted, lic) \in Errors \cup {0}
         /\ ValidateChannels(channels, trusted, lic) = 0 /\ R \subseteq Receiver =>
              /\ Len(channels) \in 1..MaxChannels
              /\ ~trusted => \A channel \in ToSet(channels) :
                   ~channel.private /\ SignatureIsValid(channel.key, lic)
<1> DEFINE codes == [i \in DOMAIN channels |-> ErrorIn(channels[i], trusted, lic)]
           S == Errors \cup {0}
<1>0. MaxChannels \in Nat /\ Len(channels) \in Nat /\ DOMAIN channels = 1..Len(channels)
  BY RequestsAssumption
<1>1. \A channel : ErrorIn(channel, trusted, lic) \in S
  BY DEF ErrorIn, Errors
<1>2. codes \in Seq(S) /\ Len(codes) = Len(channels)
  BY <1>0, <1>1
<1>3. S \in SUBSET Int /\ 4017 \in S /\ 4018 \in S /\ 4017 # 0 /\ 4018 # 0
  BY DEF Errors
<1>7. \A i \in DOMAIN channels : codes[i] = ErrorIn(channels[i], trusted, lic)
  OBVIOUS
<1>8. ValidateChannels(channels, trusted, lic) =
        IF channels = <<>> THEN 4017
        ELSE IF Len(channels) > MaxChannels THEN 4018 ELSE FirstError(codes)
  <2>1. CASE channels = <<>>
    BY <1>0, <2>1 DEF ValidateChannels
  <2>2. CASE channels # <<>> /\ Len(channels) > MaxChannels
    BY <2>2 DEF ValidateChannels
  <2>3. CASE channels # <<>> /\ ~(Len(channels) > MaxChannels)
    BY <2>3 DEF ValidateChannels
  <2> QED BY <2>1, <2>2, <2>3
<1> HIDE DEF S, codes
<1>4. /\ FirstError(codes) \in S \cup {0}
      /\ FirstError(codes) = 0 => \A i \in 1..Len(codes) : codes[i] = 0
  BY <1>2, <1>3, FirstErrorIsOne
<1>5. ValidateChannels(channels, trusted, lic) \in S
  BY <1>3, <1>4, <1>8 DEF S
<1>6. ASSUME ValidateChannels(channels, trusted, lic) = 0, R \subseteq Receiver
      PROVE  /\ Len(channels) \in 1..MaxChannels
             /\ ~trusted => \A channel \in ToSet(channels) :
                  ~channel.private /\ SignatureIsValid(channel.key, lic)
  <2>1. channels # <<>> /\ Len(channels) <= MaxChannels /\ FirstError(codes) = 0
    BY <1>0, <1>3, <1>6, <1>8
  <2>2. Len(channels) \in 1..MaxChannels
    BY <1>0, <2>1
  <2>3. ASSUME ~trusted, NEW i \in DOMAIN channels
        PROVE  ~channels[i].private /\ SignatureIsValid(channels[i].key, lic)
    <3>1. ErrorIn(channels[i], trusted, lic) = 0
      BY <1>0, <1>2, <1>4, <1>7, <2>1
    <3>3. channels[i] \in Receiver
      BY <1>0, <1>6
    <3>2. channels[i].private \in BOOLEAN
      BY <3>3 DEF Receiver
    <3> QED BY <2>3, <3>1, <3>2 DEF ErrorIn
  <2> QED BY <2>2, <2>3 DEF ToSet
<1> QED BY <1>5, <1>6 DEF S

LEMMA MessagesValidated ==
  ASSUME NEW messages \in Seq(Seq(Receiver)), NEW trusted \in BOOLEAN, NEW lic
  PROVE  /\ ValidateMessages(messages, trusted, lic) \in Errors \cup {0}
         /\ ValidateMessages(messages, trusted, lic) = 0 =>
              \A i \in DOMAIN messages : ValidateChannels(messages[i], trusted, lic) = 0
<1> DEFINE codes == [i \in DOMAIN messages |-> ValidateChannels(messages[i], trusted, lic)]
           S == Errors \cup {0}
<1>0. Len(messages) \in Nat /\ DOMAIN messages = 1..Len(messages)
  OBVIOUS
<1>1. \A i \in DOMAIN messages : ValidateChannels(messages[i], trusted, lic) \in S
  BY ChannelsValidated
<1>2. codes \in Seq(S) /\ Len(codes) = Len(messages)
  BY <1>0, <1>1
<1>3. S \in SUBSET Int /\ 4016 \in S /\ 4016 # 0
  BY DEF Errors
<1>4. \A i \in DOMAIN messages : codes[i] = ValidateChannels(messages[i], trusted, lic)
  OBVIOUS
<1>5. ValidateMessages(messages, trusted, lic) =
        IF Len(messages) > MaxMessages THEN 4016 ELSE FirstError(codes)
  BY DEF ValidateMessages
<1> HIDE DEF S, codes
<1>6. /\ FirstError(codes) \in S \cup {0}
      /\ FirstError(codes) = 0 => \A i \in 1..Len(codes) : codes[i] = 0
  BY <1>2, <1>3, FirstErrorIsOne
<1>7. ValidateMessages(messages, trusted, lic) \in S
  BY <1>3, <1>5, <1>6 DEF S
<1>8. ASSUME ValidateMessages(messages, trusted, lic) = 0, NEW i \in DOMAIN messages
      PROVE  ValidateChannels(messages[i], trusted, lic) = 0
  <2>1. FirstError(codes) = 0
    BY <1>3, <1>5, <1>8
  <2> QED BY <1>0, <1>2, <1>4, <1>6, <1>8, <2>1
<1> QED BY <1>7, <1>8 DEF S

-----------------------------------------------------------------------------
(* What becomes of a command: refused, answered by a reply, or published.  *)
Refused(o) == o.publish = <<>> /\ ~o.reply /\ o.code \in Errors \cup {404}

RepliesLater(o) == o.publish = <<>> /\ o.reply /\ o.code = 0

SenderOf(trusted, publicId) ==
  IF trusted THEN Backend ELSE [type |-> "client", id |-> publicId]

Published(o, r, messages, sender) ==
  /\ o.publish \in Seq(ToSet(o.publish)) /\ Len(o.publish) = Len(messages)
  /\ \A i \in DOMAIN messages : o.publish[i] = Message(r, messages[i], sender)
  /\ ~o.reply /\ o.code = IF kind[r].via = "http" THEN 200 ELSE 0

LEMMA RefuseForm ==
  ASSUME NEW code \in Errors \cup {404}
  PROVE  Refused(Refuse(code)) /\ Refused([Refuse(code) EXCEPT !.counted = 1])
BY DEF Refused, Refuse

LEMMA IncomingForm ==
  ASSUME NEW r, NEW messages \in Seq(Seq(Receiver)), NEW publicId,
         NEW trusted \in BOOLEAN, NEW lic
  PROVE  LET o == IncomingMessages(r, messages, publicId, trusted, lic)
         IN  \/ Refused(o)
             \/ /\ Published(o, r, messages, SenderOf(trusted, publicId))
                /\ ValidateMessages(messages, trusted, lic) = 0
<1> DEFINE o == IncomingMessages(r, messages, publicId, trusted, lic)
           error == ValidateMessages(messages, trusted, lic)
           sender == SenderOf(trusted, publicId)
           sent == [i \in DOMAIN messages |-> Message(r, messages[i], sender)]
<1>1. error \in Errors \cup {0}
  BY MessagesValidated
<1>2. CASE error # 0
  <2>1. o = [Refuse(error) EXCEPT !.counted = 1]
    BY <1>2 DEF IncomingMessages
  <2>2. error \in Errors \cup {404}
    BY <1>1, <1>2
  <2> HIDE DEF o, error
  <2>3. Refused(o)
    BY <2>1, <2>2, RefuseForm
  <2> QED BY <2>3 DEF o
<1>3. CASE error = 0
  <2>1. o = Publish(IF kind[r].via = "http" THEN 200 ELSE 0, sent, 1)
    BY <1>3 DEF IncomingMessages, SenderOf
  <2>2. o.publish = sent /\ ~o.reply /\ o.code = IF kind[r].via = "http" THEN 200 ELSE 0
    BY <2>1 DEF Publish
  <2>3. DOMAIN messages = 1..Len(messages) /\ Len(messages) \in Nat
    OBVIOUS
  <2>4. \A i \in 1..Len(messages) : sent[i] = Message(r, messages[i], sender)
    BY <2>3
  <2>5. sent = [i \in 1..Len(messages) |-> Message(r, messages[i], sender)]
    BY <2>3
  <2>7. DOMAIN sent = 1..Len(messages)
    BY <2>3
  <2> HIDE DEF sent, o, error
  <2>8. \A i \in 1..Len(messages) : sent[i] \in ToSet(sent)
    BY <2>7 DEF ToSet
  <2>6. sent \in Seq(ToSet(sent)) /\ Len(sent) = Len(messages)
    BY <2>3, <2>4, <2>5, <2>8
  <2>9. Published(o, r, messages, sender)
    BY <2>2, <2>3, <2>4, <2>6 DEF Published
  <2> QED BY <1>3, <2>9 DEF o, error
<1> QED BY <1>2, <1>3

LEMMA StatsForm ==
  ASSUME NEW R, NEW channels \in Seq(R), NEW trusted \in BOOLEAN, NEW lic
  PROVE  LET o == ChannelStats(channels, trusted, lic)
         IN  Refused(o) \/ RepliesLater(o)
<1> DEFINE error == ValidateChannels(channels, trusted, lic)
<1>1. error \in Errors \cup {0}
  BY ChannelsValidated
<1>2. error # 0 => Refused([Refuse(error) EXCEPT !.counted = 1])
  <2> HIDE DEF error
  <2> QED BY <1>1, RefuseForm
<1>3. RepliesLater(Reply)
  BY DEF RepliesLater, Reply
<1> QED BY <1>2, <1>3 DEF ChannelStats

(* A request batch, from a body or a frame. *)
Batch(o, r, body, trusted, publicId, lic) ==
  \/ Refused(o)
  \/ RepliesLater(o) /\ body.command \in {"channelStats", "serverStats"}
  \/ /\ body.command = "incomingMessages"
     /\ trusted \/ publicId # NoId
     /\ Published(o, r, body.messages, SenderOf(trusted, publicId))
     /\ ValidateMessages(body.messages, trusted, lic) = 0

LEMMA ClientForm ==
  ASSUME NEW r, NEW body, Decoded(body), NEW publicId, NEW trusted \in BOOLEAN, NEW lic
  PROVE  Batch(ProcessClientRequest(r, body, publicId, trusted, lic),
               r, body, trusted, publicId, lic)
<1> DEFINE o == ProcessClientRequest(r, body, publicId, trusted, lic)
           incoming == IncomingMessages(r, body.messages, publicId, trusted, lic)
           stats == ChannelStats(body.channels, trusted, lic)
           unknown == [Refuse(4015) EXCEPT !.counted = 1]
<1>1. \/ o = Refuse(4012) \/ o = Refuse(4013) \/ o = Refuse(4014) \/ o = unknown
      \/ body.command = "incomingMessages" /\ (trusted \/ publicId # NoId) /\ o = incoming
      \/ body.command = "channelStats" /\ o = stats
      \/ body.command = "serverStats" /\ o = Reply
  BY DEF ProcessClientRequest
<1>2. Refused(Refuse(4012)) /\ Refused(Refuse(4013)) /\ Refused(Refuse(4014)) /\ Refused(unknown)
  <2>1. Refused(Refuse(4012)) /\ Refused(Refuse(4013)) /\ Refused(Refuse(4014))
    BY DEF Refused, Refuse, Errors
  <2>2. Refused(unknown)
    BY DEF Refused, Refuse, Errors
  <2> QED BY <2>1, <2>2
<1>3. RepliesLater(Reply)
  BY DEF RepliesLater, Reply
<1>4. body.command = "channelStats" => Refused(stats) \/ RepliesLater(stats)
  BY StatsForm DEF Decoded
<1>5. body.command = "incomingMessages" =>
        \/ Refused(incoming)
        \/ /\ Published(incoming, r, body.messages, SenderOf(trusted, publicId))
           /\ ValidateMessages(body.messages, trusted, lic) = 0
  BY IncomingForm DEF Decoded
<1> HIDE DEF o, incoming, stats, unknown
<1>6. Batch(o, r, body, trusted, publicId, lic)
  BY <1>1, <1>2, <1>3, <1>4, <1>5 DEF Batch
<1> QED BY <1>6 DEF o

(* What the portal or a client may send, with the license that was found.  *)
MayPublish(k, lic, m) ==
  IF m.sender = Backend
    THEN /\ k.method = "POST" /\ IsPrefix(Server.pub, k.path)
         /\ cloudMode => lic # "none" /\ SignatureIsValid(k.signature, lic)
    ELSE /\ cloudMode => lic # "none"
         /\ \E part \in ToSet(k.channels) :
              part.public = m.sender.id /\ SignatureIsValid(part.key, lic)
         /\ Len(m.receivers) \in 1..MaxChannels
         /\ \A channel \in ToSet(m.receivers) :
              ~channel.private /\ SignatureIsValid(channel.key, lic)

(* All that an outcome publishes is of the request and allowed. *)
MayPublishAll(r, lic, messages) ==
  \A i \in DOMAIN messages : messages[i].from = r /\ MayPublish(kind[r], lic, messages[i])

(* The public id of a client was signed, with a license in the cloud. *)
LEMMA ClientIsSigned ==
  ASSUME NEW r, NEW lic, kind[r].channels \in Seq(Channel),
         PubChannelId(ParseChannels(kind[r].channels, TRUE, lic)) # NoId
  PROVE  LET id == PubChannelId(ParseChannels(kind[r].channels, TRUE, lic))
         IN  /\ cloudMode => lic # "none"
             /\ \E part \in ToSet(kind[r].channels) :
                  part.public = id /\ SignatureIsValid(part.key, lic)
<1> DEFINE cs == kind[r].channels
           channels == ParseChannels(cs, TRUE, lic)
           I == {i \in 1..Len(channels) : channels[i].public # NoId}
<1>1. PubChannelId(channels) = IF I = {} \/ Min(I) = 0 THEN NoId ELSE channels[Min(I)].public
  BY DEF PubChannelId, SelectInSeq
<1>2. I # {}
  <2> HIDE DEF I, channels
  <2> QED BY <1>1 DEF channels
<1>3. Min(I) \in I
  <2>1. Len(channels) \in Nat
    <3>1. channels = <<>> \/ channels = cs
      BY DEF ParseChannels
    <3>2. Len(cs) \in Nat /\ Len(<<>>) \in Nat
      OBVIOUS
    <3> HIDE DEF channels, cs
    <3> QED BY <3>1, <3>2
  <2>2. I \in SUBSET (1..Len(channels))
    OBVIOUS
  <2> HIDE DEF I, channels
  <2> QED BY <1>2, <2>1, <2>2, LeastExists
<1>4. channels # <<>>
  <2>1. CASE channels = <<>>
    <3>1. \A i : i \notin 1..Len(<<>>)
      OBVIOUS
    <3>2. Min(I) \in 1..Len(channels)
      BY <1>3
    <3> HIDE DEF I, channels
    <3> QED BY <2>1, <3>1, <3>2
  <2> QED BY <2>1
<1>5. /\ channels = cs /\ ~(cloudMode /\ lic = "none")
      /\ \A i \in DOMAIN cs : ParsedChannel(cs[i], TRUE, lic)
  BY <1>4 DEF ParseChannels
<1>6. Min(I) \in DOMAIN cs /\ Min(I) # 0
  <2>1. Min(I) \in 1..Len(cs)
    BY <1>3, <1>5
  <2> HIDE DEF I
  <2> QED BY <2>1
<1>7. PubChannelId(channels) = cs[Min(I)].public
  BY <1>1, <1>2, <1>5, <1>6
<1>8. SignatureIsValid(cs[Min(I)].key, lic)
  BY <1>5, <1>6 DEF ParsedChannel
<1> HIDE DEF I
<1>9. cs[Min(I)] \in ToSet(cs)
  BY <1>6 DEF ToSet
<1> QED BY <1>5, <1>7, <1>8, <1>9

(* Who asks with rights of the portal, or as a client, has them. *)
IsEntitled(r, trusted, publicId, lic) ==
  IF trusted
    THEN /\ kind[r].method = "POST" /\ IsPrefix(Server.pub, kind[r].path)
         /\ cloudMode => lic # "none" /\ SignatureIsValid(kind[r].signature, lic)
    ELSE publicId # NoId =>
         /\ cloudMode => lic # "none"
         /\ \E part \in ToSet(kind[r].channels) :
              part.public = publicId /\ SignatureIsValid(part.key, lic)

Sends(r, lic, messages) ==
  messages \in Seq(ToSet(messages)) /\ MayPublishAll(r, lic, messages)

LEMMA NothingSent ==
  ASSUME NEW r, NEW lic
  PROVE  Sends(r, lic, <<>>)
<1>1. <<>> \in Seq(ToSet(<<>>)) /\ DOMAIN <<>> = {}
  OBVIOUS
<1> QED BY <1>1 DEF Sends, MayPublishAll

LEMMA BatchSends ==
  ASSUME NEW r, NEW o, NEW body, Decoded(body), NEW trusted \in BOOLEAN, NEW publicId, NEW lic,
         Batch(o, r, body, trusted, publicId, lic), IsEntitled(r, trusted, publicId, lic)
  PROVE  Sends(r, lic, o.publish)
<1>1. CASE o.publish = <<>>
  BY <1>1, NothingSent
<1>2. CASE o.publish # <<>>
  <2> DEFINE ms == body.messages
             sender == SenderOf(trusted, publicId)
  <2>1. /\ trusted \/ publicId # NoId
        /\ Published(o, r, ms, sender) /\ ValidateMessages(ms, trusted, lic) = 0
        /\ ms \in Seq(Seq(Receiver))
    BY <1>2 DEF Batch, Refused, RepliesLater, Decoded
  <2>2. /\ o.publish \in Seq(ToSet(o.publish)) /\ Len(o.publish) = Len(ms)
        /\ \A i \in DOMAIN ms : o.publish[i] = Message(r, ms[i], sender)
    BY <2>1 DEF Published
  <2>3. DOMAIN o.publish = DOMAIN ms
    <3> HIDE DEF ms
    <3> QED BY <2>1, <2>2
  <2>4. \A i \in DOMAIN ms : ValidateChannels(ms[i], trusted, lic) = 0
    <3> HIDE DEF ms
    <3> QED BY <2>1, MessagesValidated
  <2>5. ASSUME NEW i \in DOMAIN ms
        PROVE  o.publish[i].from = r /\ MayPublish(kind[r], lic, o.publish[i])
    <3> DEFINE m == o.publish[i]
    <3>1. /\ m.from = r /\ m.sender = sender /\ m.receivers = ms[i]
      <4>1. m = Message(r, ms[i], sender)
        BY <2>2
      <4> HIDE DEF m, ms, sender
      <4> QED BY <4>1 DEF Message
    <3>2. ms[i] \in Seq(Receiver)
      <4> HIDE DEF ms
      <4> QED BY <2>1
    <3>3. /\ Len(ms[i]) \in 1..MaxChannels
          /\ ~trusted => \A channel \in ToSet(ms[i]) :
               ~channel.private /\ SignatureIsValid(channel.key, lic)
      <4> HIDE DEF ms
      <4> QED BY <2>4, <3>2, ChannelsValidated
    <3>4. ASSUME trusted PROVE MayPublish(kind[r], lic, m)
      <4>1. m.sender = Backend
        BY <3>1, <3>4 DEF SenderOf
      <4> HIDE DEF m
      <4> QED BY <3>1, <3>4, <4>1 DEF IsEntitled, MayPublish
    <3>5. ASSUME ~trusted PROVE MayPublish(kind[r], lic, m)
      <4>1. m.sender # Backend /\ m.sender.id = publicId
        BY <3>1, <3>5 DEF SenderOf, Backend
      <4> HIDE DEF m, ms
      <4> QED BY <2>1, <3>1, <3>3, <3>5, <4>1 DEF IsEntitled, MayPublish
    <3> QED BY <3>1, <3>4, <3>5
  <2> HIDE DEF ms
  <2> QED BY <2>2, <2>3, <2>5 DEF Sends, MayPublishAll
<1> QED BY <1>1, <1>2

(* What the status of an answer given at once says of the messages. *)
Tells(r, status, messages) ==
  /\ status # 200 => messages = <<>>
  /\ status = 200 /\ route[r] \in {"publish", "rest"} =>
       \/ route[r] = "publish" /\ ~kind[r].binary
       \/ kind[r].body.command # "incomingMessages"
       \/ /\ Len(messages) = Len(kind[r].body.messages)
          /\ \A i \in DOMAIN kind[r].body.messages :
               messages[i].receivers = kind[r].body.messages[i]

(* The outcome of a request: what it sends is allowed, a status given at   *)
(* once tells of it, and what is answered by a reply sends nothing.        *)
Fair(r, lic, o) ==
  /\ Sends(r, lic, o.publish)
  /\ kind[r].via = "http" /\ o.code # 0 => Tells(r, HttpStatus(o.code), o.publish)
  /\ o.reply => /\ o.publish = <<>>
                /\ route[r] \in {"publish", "rest"} =>
                     kind[r].body.command # "incomingMessages"

LEMMA RefusedIsFair ==
  ASSUME NEW r, NEW lic, NEW o, Refused(o)
  PROVE  Fair(r, lic, o)
<1>1. HttpStatus(o.code) # 200
  <2>1. CASE o.code = 404
    BY <2>1 DEF HttpStatus
  <2>2. CASE o.code \in Errors
    BY <2>2, ErrorStatus
  <2> QED BY <2>1, <2>2 DEF Refused
<1>2. Sends(r, lic, o.publish)
  BY NothingSent DEF Refused
<1> QED BY <1>1, <1>2 DEF Fair, Tells, Refused

LEMMA BatchIsFair ==
  ASSUME NEW r, NEW o, NEW trusted \in BOOLEAN, NEW publicId, NEW lic,
         Decoded(kind[r].body),
         Batch(o, r, Body(r), trusted, publicId, lic), IsEntitled(r, trusted, publicId, lic)
  PROVE  Fair(r, lic, o)
<1>0. Decoded(Body(r))
  BY DEF Body, Decoded
<1>1. Sends(r, lic, o.publish)
  BY <1>0, BatchSends
<1>2. CASE Refused(o)
  BY <1>2, RefusedIsFair
<1>3. CASE RepliesLater(o) /\ Body(r).command \in {"channelStats", "serverStats"}
  <2>1. kind[r].body.command # "incomingMessages"
    BY <1>3 DEF Body
  <2> QED BY <1>1, <1>3, <2>1 DEF Fair, RepliesLater
<1>4. CASE /\ Body(r).command = "incomingMessages"
           /\ Published(o, r, Body(r).messages, SenderOf(trusted, publicId))
  <2> DEFINE ms == kind[r].body.messages
             sender == SenderOf(trusted, publicId)
  <2>1. Body(r) = kind[r].body
    BY <1>4 DEF Body
  <2>2. /\ Len(o.publish) = Len(ms) /\ ~o.reply
        /\ kind[r].via = "http" => o.code = 200
        /\ \A i \in DOMAIN ms : o.publish[i] = Message(r, ms[i], sender)
    BY <1>4, <2>1 DEF Published
  <2>3. \A i \in DOMAIN ms : o.publish[i].receivers = ms[i]
    <3> TAKE i \in DOMAIN ms
    <3>1. o.publish[i] = Message(r, ms[i], sender)
      BY <2>2
    <3> HIDE DEF ms, sender
    <3> QED BY <3>1 DEF Message
  <2>4. HttpStatus(200) = 200
    BY DEF HttpStatus
  <2> QED BY <1>1, <2>2, <2>3, <2>4 DEF Fair, Tells
<1> QED BY <1>2, <1>3, <1>4 DEF Batch

LEMMA RepliedIsFair ==
  ASSUME NEW r, NEW lic, NEW o, RepliesLater(o), route[r] \notin {"publish", "rest"}
  PROVE  Fair(r, lic, o)
BY NothingSent DEF Fair, RepliesLater

(* A request as it was parsed, with the route it matched. *)
Parsed(r) ==
  /\ kind[r].channels \in Seq(Channel) /\ Decoded(kind[r].body)
  /\ route[r] = "publish" => kind[r].method = "POST" /\ IsPrefix(Server.pub, kind[r].path)

LEMMA PublishIsFair ==
  ASSUME NEW r, NEW lic, Parsed(r), route[r] = "publish"
  PROVE  Fair(r, lic, ProcessPublishRequest(r, lic))
<1> DEFINE error == RequestError(r, lic)
           o == ProcessPublishRequest(r, lic)
           batch == ProcessClientRequest(r, Body(r), NoId, TRUE, lic)
           text == PublishText(r, lic)
<1>1. error \in {0, 4025, 4026}
  BY DEF RequestError
<1>2. error = 0 => IsEntitled(r, TRUE, NoId, lic)
  BY DEF RequestError, RequestSignature, IsEntitled, Parsed
<1>3. /\ error # 0 => o = Refuse(error)
      /\ error = 0 /\ kind[r].binary => o = batch
      /\ error = 0 /\ ~kind[r].binary => o = text
  BY DEF ProcessPublishRequest
<1> HIDE DEF o, error
<1>4. CASE error # 0
  <2>1. Refused(Refuse(error))
    BY <1>1, <1>4 DEF Refused, Refuse, Errors
  <2> QED BY <1>3, <1>4, <2>1, RefusedIsFair DEF o
<1>5. CASE error = 0 /\ kind[r].binary
  <2>1. Decoded(Body(r))
    BY DEF Body, Decoded, Parsed
  <2>2. Batch(batch, r, Body(r), TRUE, NoId, lic)
    BY <2>1, ClientForm
  <2> HIDE DEF batch
  <2>3. Fair(r, lic, batch)
    BY <1>2, <1>5, <2>2, BatchIsFair DEF Parsed
  <2> QED BY <1>3, <1>5, <2>3 DEF o
<1>6. CASE error = 0 /\ ~kind[r].binary
  <2>1. PICK receivers : /\ text.publish = <<>> \/ text.publish = <<Message(r, receivers, Backend)>>
                         /\ text.code = 200 /\ ~text.reply
    BY DEF PublishText, Publish
  <2> HIDE DEF text
  <2>2. CASE text.publish = <<>>
    <3>1. Sends(r, lic, text.publish)
      BY <2>2, NothingSent
    <3>2. Tells(r, HttpStatus(text.code), text.publish)
      BY <1>6, <2>2 DEF Tells
    <3> QED BY <1>3, <1>6, <2>1, <3>1, <3>2 DEF o, Fair
  <2>3. CASE text.publish = <<Message(r, receivers, Backend)>>
    <3> DEFINE m == Message(r, receivers, Backend)
    <3>1. m.from = r /\ m.sender = Backend
      BY DEF Message
    <3> HIDE DEF m
    <3>2. MayPublish(kind[r], lic, m)
      BY <1>2, <1>6, <3>1 DEF MayPublish, IsEntitled
    <3>3. <<m>> \in Seq(ToSet(<<m>>)) /\ DOMAIN <<m>> = {1} /\ <<m>>[1] = m
      BY DEF ToSet
    <3>4. Sends(r, lic, <<m>>)
      BY <3>1, <3>2, <3>3 DEF Sends, MayPublishAll
    <3>5. HttpStatus(200) = 200
      BY DEF HttpStatus
    <3>6. Tells(r, HttpStatus(text.code), text.publish)
      BY <1>6, <2>1, <3>5 DEF Tells
    <3> QED BY <1>3, <1>6, <2>1, <2>3, <3>4, <3>6 DEF o, Fair, m
  <2> QED BY <2>1, <2>2, <2>3
<1> QED BY <1>4, <1>5, <1>6 DEF o

LEMMA StatsIsFair ==
  ASSUME NEW r, NEW lic, Parsed(r), route[r] = "channelStats"
  PROVE  Fair(r, lic, ProcessChannelStatsRequest(r, lic))
<1> DEFINE error == RequestError(r, lic)
           o == ProcessChannelStatsRequest(r, lic)
           channels == ParseChannels(kind[r].channels, FALSE, lic)
           privateOnly == [i \in DOMAIN channels |-> [id |-> channels[i].id, private |-> TRUE]]
           R == {privateOnly[i] : i \in DOMAIN channels}
<1>1. error \in {0, 4025, 4026}
  BY DEF RequestError
<1>2. DOMAIN channels = 1..Len(channels) /\ Len(channels) \in Nat
  <2>1. channels \in Seq(Channel)
    <3>1. channels = <<>> \/ channels = kind[r].channels
      BY DEF ParseChannels
    <3>2. <<>> \in Seq(Channel) /\ kind[r].channels \in Seq(Channel)
      BY DEF Parsed
    <3> HIDE DEF channels
    <3> QED BY <3>1, <3>2
  <2> HIDE DEF channels
  <2> QED BY <2>1
<1>3. o = IF error # 0 THEN Refuse(error) ELSE ChannelStats(privateOnly, TRUE, lic)
  BY DEF ProcessChannelStatsRequest
<1> HIDE DEF o, error, channels
<1>4. \A i \in 1..Len(channels) : privateOnly[i] \in R
  BY <1>2
<1>5. privateOnly = [i \in 1..Len(channels) |-> privateOnly[i]]
  BY <1>2
<1> HIDE DEF privateOnly, R
<1>6. privateOnly \in Seq(R)
  BY <1>2, <1>4, <1>5
<1>7. CASE error # 0
  <2>1. Refused(Refuse(error))
    BY <1>1, <1>7 DEF Refused, Refuse, Errors
  <2> QED BY <1>3, <1>7, <2>1, RefusedIsFair DEF o
<1>8. CASE error = 0
  <2>1. Refused(o) \/ RepliesLater(o)
    BY <1>3, <1>6, <1>8, StatsForm
  <2> QED BY <2>1, RefusedIsFair, RepliedIsFair DEF o
<1> QED BY <1>7, <1>8

LEMMA RestIsFair ==
  ASSUME NEW r, NEW lic, Parsed(r)
  PROVE  Fair(r, lic, ProcessRestRequest(r, lic))
<1> DEFINE publicId == PubChannelId(ParseChannels(kind[r].channels, TRUE, lic))
           o == ProcessRestRequest(r, lic)
<1>1. Decoded(Body(r))
  BY DEF Body, Decoded, Parsed
<1>2. o = ProcessClientRequest(r, Body(r), publicId, FALSE, lic)
  BY DEF ProcessRestRequest
<1>3. IsEntitled(r, FALSE, publicId, lic)
  BY ClientIsSigned DEF IsEntitled, Parsed
<1> HIDE DEF publicId, o
<1>4. Batch(o, r, Body(r), FALSE, publicId, lic)
  BY <1>1, <1>2, ClientForm
<1>5. Fair(r, lic, o)
  BY <1>3, <1>4, BatchIsFair DEF Parsed
<1> QED BY <1>5 DEF o

LEMMA OutcomeIsFair ==
  ASSUME NEW r, NEW lic, Parsed(r)
  PROVE  Fair(r, lic, Outcome(r, lic))
<1>1. CASE route[r] = "publish"
  BY <1>1, PublishIsFair DEF Outcome
<1>2. CASE route[r] = "channelStats"
  BY <1>2, StatsIsFair DEF Outcome
<1>3. CASE route[r] = "rest"
  BY <1>3, RestIsFair DEF Outcome
<1>4. CASE route[r] = "register"
  <2> DEFINE o == ProcessRegisterRequest(r)
  <2>1. Refused(o) \/ RepliesLater(o)
    BY DEF ProcessRegisterRequest, Refused, RepliesLater, Refuse, Reply, Errors
  <2> HIDE DEF o
  <2>2. Fair(r, lic, o)
    BY <1>4, <2>1, RefusedIsFair, RepliedIsFair
  <2> QED BY <1>4, <2>2 DEF Outcome, o
<1>5. CASE route[r] = "systemctl"
  <2> DEFINE o == ProcessSystemRequest(r)
  <2>1. Refused(o) \/ RepliesLater(o)
    BY DEF ProcessSystemRequest, Refused, RepliesLater, Refuse, Reply, Errors
  <2> HIDE DEF o
  <2>2. Fair(r, lic, o)
    BY <1>5, <2>1, RefusedIsFair, RepliedIsFair
  <2> QED BY <1>5, <2>2 DEF Outcome, o
<1>6. CASE route[r] = "stat"
  <2>1. RepliesLater(Reply)
    BY DEF RepliesLater, Reply
  <2> QED BY <1>6, <2>1, RepliedIsFair DEF Outcome
<1>7. CASE route[r] = "options"
  <2> DEFINE o == Publish(200, <<>>, 0)
  <2>1. o.code = 200 /\ o.publish = <<>> /\ ~o.reply
    BY DEF Publish
  <2> HIDE DEF o
  <2>2. Fair(r, lic, o)
    BY <1>7, <2>1, NothingSent DEF Fair, Tells
  <2> QED BY <1>7, <2>2 DEF Outcome, o
<1>8. CASE route[r] \notin {"publish", "channelStats", "rest", "register", "systemctl", "stat", "options"}
  <2>1. Refused(Refuse(404))
    BY DEF Refused, Refuse
  <2> QED BY <1>8, <2>1, RefusedIsFair DEF Outcome
<1> QED BY <1>1, <1>2, <1>3, <1>4, <1>5, <1>6, <1>7, <1>8

-----------------------------------------------------------------------------
(***************************************************************************)
(* The invariant of the messages.  A request has sent nothing until its    *)
(* handler ran, and nothing that a reply answers; what it carries and the  *)
(* license it was given do not change once it has sent something.          *)
(***************************************************************************)
FateOf(r) ==
  kind[r].via = "http" /\ head[r] # 0 /\ stage[r] # "body" =>
    /\ head[r] # 200 => Sent(r) = {}
    /\ head[r] = 200 /\ route[r] \in {"publish", "rest"} =>
         \/ route[r] = "publish" /\ ~kind[r].binary
         \/ kind[r].body.command # "incomingMessages"
         \/ AllSent(r, kind[r].body.messages)

StageOf(r) ==
  /\ IF stage[r] = "new" THEN kind[r] = NoKind ELSE Parsed(r)
  /\ stage[r] \in {"new", "arrived", "body", "license"} => license[r] = "none"
  /\ stage[r] \in {"new", "arrived", "body", "license", "reply", "failed", "rejected",
               "poll"} => Sent(r) = {}
  /\ stage[r] = "reply" /\ route[r] \in {"publish", "rest"} =>
       kind[r].body.command # "incomingMessages"
  /\ stage[r] = "websocket" => kind[r].via = "upgrade"
  /\ stage[r] = "body" => head[r] # 200

Mail ==
  /\ submitted \in Seq(ToSet(submitted))
  /\ \A i \in DOMAIN submitted : submitted[i].from \in Req

PublishInv ==
  /\ DOMAIN license = Req /\ Mail
  /\ \A r \in Req : StageOf(r) /\ FateOf(r)
  /\ PublishedIsAllowed

LEMMA Concat ==
  ASSUME NEW s, NEW t, s \in Seq(ToSet(s)), t \in Seq(ToSet(t))
  PROVE  /\ s \o t \in Seq(ToSet(s \o t))
         /\ Len(s) \in Nat /\ DOMAIN s = 1..Len(s)
         /\ Len(t) \in Nat /\ DOMAIN t = 1..Len(t)
         /\ Len(s \o t) = Len(s) + Len(t) /\ DOMAIN (s \o t) = 1..(Len(s) + Len(t))
         /\ \A i \in 1..Len(s) : (s \o t)[i] = s[i]
         /\ \A i \in 1..Len(t) : (s \o t)[Len(s) + i] = t[i]
<1> DEFINE S == ToSet(s) \cup ToSet(t)
           u == s \o t
<1>1. s \in Seq(S) /\ t \in Seq(S)
  <2>1. ToSet(s) \subseteq S /\ ToSet(t) \subseteq S
    OBVIOUS
  <2> HIDE DEF S
  <2> QED BY <2>1
<1> HIDE DEF S
<1>2. /\ u \in Seq(S) /\ Len(u) = Len(s) + Len(t) /\ DOMAIN u = 1..(Len(s) + Len(t))
      /\ Len(s) \in Nat /\ DOMAIN s = 1..Len(s) /\ Len(t) \in Nat /\ DOMAIN t = 1..Len(t)
  BY <1>1
<1>3. \A i \in 1..Len(s) : u[i] = s[i]
  BY <1>1
<1>4. \A i \in 1..Len(t) : u[Len(s) + i] = t[i]
  BY <1>1
<1> HIDE DEF u
<1>5. u \in Seq(ToSet(u))
  <2>1. \A i \in 1..Len(u) : u[i] \in ToSet(u)
    BY <1>2 DEF ToSet
  <2>2. u = [i \in 1..Len(u) |-> u[i]] /\ Len(u) \in Nat
    BY <1>2
  <2> QED BY <2>1, <2>2
<1> QED BY <1>2, <1>3, <1>4, <1>5 DEF u

(* A step of request r alone, in which it sends `sent`. *)
Sending(r, sent) ==
  /\ cloudMode' = cloudMode /\ DOMAIN license' = Req
  /\ \A q \in Req : q # r =>
       /\ kind'[q] = kind[q] /\ route'[q] = route[q] /\ stage'[q] = stage[q]
       /\ head'[q] = head[q] /\ license'[q] = license[q]
  /\ submitted' = submitted \o sent

LEMMA SentBy ==
  ASSUME Mail, NEW r \in Req, NEW sent, sent \in Seq(ToSet(sent)),
         submitted' = submitted \o sent, \A i \in DOMAIN sent : sent[i].from = r
  PROVE  /\ Mail'
         /\ Sent(r)' = Sent(r) \cup ((Len(submitted) + 1)..(Len(submitted) + Len(sent)))
         /\ \A q \in Req : q # r => Sent(q)' = Sent(q)
<1>1. /\ submitted' \in Seq(ToSet(submitted'))
      /\ Len(submitted) \in Nat /\ DOMAIN submitted = 1..Len(submitted)
      /\ Len(sent) \in Nat /\ DOMAIN sent = 1..Len(sent)
      /\ DOMAIN submitted' = 1..(Len(submitted) + Len(sent))
      /\ \A i \in 1..Len(submitted) : submitted'[i] = submitted[i]
      /\ \A i \in 1..Len(sent) : submitted'[Len(submitted) + i] = sent[i]
  BY Concat DEF Mail
<1>2. ASSUME NEW i \in DOMAIN submitted', i \notin DOMAIN submitted
      PROVE  submitted'[i].from = r /\ i \in (Len(submitted) + 1)..(Len(submitted) + Len(sent))
  <2>1. i - Len(submitted) \in 1..Len(sent) /\ i = Len(submitted) + (i - Len(submitted))
    BY <1>1, <1>2
  <2>2. submitted'[i] = sent[i - Len(submitted)]
    BY <1>1, <2>1
  <2> QED BY <1>1, <1>2, <2>1, <2>2
<1>3. DOMAIN submitted \subseteq DOMAIN submitted'
  BY <1>1
<1>4. Mail'
  BY <1>1, <1>2 DEF Mail
<1>5. ASSUME NEW q \in Req, q # r PROVE Sent(q)' = Sent(q)
  BY <1>1, <1>2, <1>3, <1>5 DEF Sent
<1>6. Sent(r)' = Sent(r) \cup ((Len(submitted) + 1)..(Len(submitted) + Len(sent)))
  <2>1. ASSUME NEW i \in (Len(submitted) + 1)..(Len(submitted) + Len(sent))
        PROVE  i \in DOMAIN submitted' /\ i \notin DOMAIN submitted
    BY <1>1, <2>1
  <2> QED BY <1>1, <1>2, <1>3, <2>1 DEF Sent
<1> QED BY <1>4, <1>5, <1>6

LEMMA SendingInv ==
  ASSUME PublishInv, NEW r \in Req, NEW sent, Sending(r, sent),
         sent \in Seq(ToSet(sent)),
         \A i \in DOMAIN sent :
           sent[i].from = r /\ MayPublish(kind'[r], license'[r], sent[i]),
         Sent(r) = {} \/ (kind'[r] = kind[r] /\ license'[r] = license[r]),
         StageOf(r)', FateOf(r)'
  PROVE  PublishInv'
<1>1. /\ Len(submitted) \in Nat /\ DOMAIN submitted = 1..Len(submitted)
      /\ Len(sent) \in Nat /\ DOMAIN sent = 1..Len(sent)
      /\ Len(submitted') = Len(submitted) + Len(sent)
      /\ DOMAIN submitted' = 1..(Len(submitted) + Len(sent))
      /\ \A i \in 1..Len(submitted) : submitted'[i] = submitted[i]
      /\ \A i \in 1..Len(sent) : submitted'[Len(submitted) + i] = sent[i]
  BY Concat DEF PublishInv, Mail, Sending
<1>2. Mail' /\ \A q \in Req : q # r => Sent(q)' = Sent(q)
  BY SentBy DEF PublishInv, Sending
<1>3. ASSUME NEW q \in Req, q # r PROVE StageOf(q)' /\ FateOf(q)'
  <2>1. StageOf(q)'
    BY <1>2, <1>3 DEF PublishInv, StageOf, Parsed, Sending
  <2>2. ASSUME NEW messages, AllSent(q, messages), Len(messages) \in Nat,
               DOMAIN messages = 1..Len(messages)
        PROVE  AllSent(q, messages)'
    <3>1. PICK n \in 0..(Len(submitted) - Len(messages)) :
            /\ Sent(q) = (n + 1)..(n + Len(messages))
            /\ \A i \in DOMAIN messages : submitted[n + i].receivers = messages[i]
      BY <2>2 DEF AllSent
    <3>2. n \in 0..(Len(submitted') - Len(messages))
      BY <1>1, <2>2, <3>1
    <3>3. ASSUME NEW i \in DOMAIN messages PROVE submitted'[n + i].receivers = messages[i]
      <4>1. n + i \in 1..Len(submitted)
        BY <1>1, <2>2, <3>1
      <4> QED BY <1>1, <3>1, <4>1
    <3> QED BY <1>2, <1>3, <3>1, <3>2, <3>3 DEF AllSent
  <2>3. FateOf(q)'
    <3>1. FateOf(q) /\ kind'[q] = kind[q] /\ head'[q] = head[q]
          /\ stage'[q] = stage[q] /\ route'[q] = route[q] /\ Sent(q)' = Sent(q)
      BY <1>2, <1>3 DEF PublishInv, Sending
    <3>2. stage[q] = "new" => FateOf(q)'
      BY <3>1, <1>3 DEF PublishInv, StageOf, FateOf, NoKind
    <3> DEFINE ms == kind[q].body.messages
    <3>3. stage[q] # "new" /\ kind[q].body.command = "incomingMessages" /\ AllSent(q, ms)
            => AllSent(q, ms)'
      <4>1. stage[q] # "new" /\ kind[q].body.command = "incomingMessages"
              => ms \in Seq(Seq(Receiver))
        BY DEF PublishInv, StageOf, Parsed, Decoded
      <4>2. ms \in Seq(Seq(Receiver)) => Len(ms) \in Nat /\ DOMAIN ms = 1..Len(ms)
        OBVIOUS
      <4>3. PICK messages : messages = ms
        OBVIOUS
      <4>4. ms' = messages
        BY <3>1, <4>3
      <4> HIDE DEF ms
      <4>5. ASSUME stage[q] # "new", kind[q].body.command = "incomingMessages", AllSent(q, ms)
            PROVE  AllSent(q, ms)'
        <5>1. Len(messages) \in Nat /\ DOMAIN messages = 1..Len(messages)
          BY <4>1, <4>2, <4>3, <4>5
        <5>2. AllSent(q, messages)
          BY <4>3, <4>5
        <5>3. AllSent(q, messages)'
          BY <2>2, <5>1, <5>2
        <5> QED BY <4>4, <5>3 DEF AllSent
      <4> QED BY <4>5
    <3>4. ms' = ms
      BY <3>1
    <3> QED BY <3>1, <3>2, <3>3, <3>4 DEF FateOf
  <2> QED BY <2>1, <2>3
<1>4. PublishedIsAllowed'
  <2> SUFFICES ASSUME NEW i \in DOMAIN submitted' PROVE Allowed(submitted[i])'
    BY DEF PublishedIsAllowed, ToSet
  <2>0. PICK m : m = submitted'[i]
    OBVIOUS
  <2>1. CASE i \in DOMAIN submitted
    <3>1. m = submitted[i] /\ Allowed(m) /\ m.from \in Req
      BY <1>1, <2>0, <2>1 DEF PublishInv, PublishedIsAllowed, ToSet, Mail
    <3>2. kind'[m.from] = kind[m.from] /\ license'[m.from] = license[m.from]
      <4>1. CASE m.from = r
        <5>1. i \in Sent(r)
          BY <2>1, <3>1, <4>1 DEF Sent
        <5> QED BY <4>1, <5>1
      <4>2. CASE m.from # r
        BY <3>1, <4>2 DEF Sending
      <4> QED BY <4>1, <4>2
    <3>3. Allowed(m)'
      BY <3>1, <3>2 DEF Allowed, SignatureIsValid, Sending
    <3> QED BY <2>0, <3>3 DEF Allowed
  <2>2. CASE i \notin DOMAIN submitted
    <3>1. i - Len(submitted) \in 1..Len(sent) /\ i = Len(submitted) + (i - Len(submitted))
      BY <1>1, <2>2
    <3>2. m = sent[i - Len(submitted)]
      BY <1>1, <2>0, <3>1
    <3>3. m.from = r /\ MayPublish(kind'[r], license'[r], m)
      BY <1>1, <3>1, <3>2
    <3>4. Allowed(m)'
      BY <3>3 DEF Allowed, MayPublish, Sending
    <3> QED BY <2>0, <3>4 DEF Allowed
  <2> QED BY <2>1, <2>2
<1> QED BY <1>2, <1>3, <1>4 DEF PublishInv, Sending

-----------------------------------------------------------------------------
(* What a handler sends, and the stage and the answer it leaves. *)
LEMMA HandleSends ==
  ASSUME Shape, Mail, NEW r \in Req, NEW lic, head[r] = 0, Parsed(r), Handle(r, lic)
  PROVE  \E sent :
           /\ submitted' = submitted \o sent /\ Sends(r, lic, sent)
           /\ stage'[r] \in {"reply", "failed", "poll"} => sent = <<>>
           /\ stage'[r] = "websocket" => kind[r].via = "upgrade"
           /\ stage'[r] = "reply" /\ route[r] \in {"publish", "rest"} =>
                kind[r].body.command # "incomingMessages"
           /\ kind[r].via = "http" /\ head'[r] # 0 => Tells(r, head'[r], sent)
<1> DEFINE Goal(sent) ==
           /\ submitted' = submitted \o sent /\ Sends(r, lic, sent)
           /\ stage'[r] \in {"reply", "failed", "poll"} => sent = <<>>
           /\ stage'[r] = "websocket" => kind[r].via = "upgrade"
           /\ stage'[r] = "reply" /\ route[r] \in {"publish", "rest"} =>
                kind[r].body.command # "incomingMessages"
           /\ kind[r].via = "http" /\ head'[r] # 0 => Tells(r, head'[r], sent)
<1>1. submitted \o <<>> = submitted
  BY DEF Mail
<1>2. Sends(r, lic, <<>>)
  BY NothingSent
<1>3. CASE kind[r].via = "upgrade"
  <2>1. submitted' = submitted
    BY <1>3 DEF Handle, HandleUpgrade, Upgrade
  <2>2. stage'[r] \in {"done", "websocket"}
    BY <1>3 DEF Handle, HandleUpgrade, Upgrade, Shape
  <2>3. Goal(<<>>)
    BY <1>1, <1>2, <1>3, <2>1, <2>2
  <2> QED BY <2>3
<1>4. CASE kind[r].via # "upgrade"
  <2>1. Subscribe(r) \/ Throw(r) \/ Do(r, Outcome(r, lic))
    BY <1>4 DEF Handle
  <2>2. CASE Subscribe(r) \/ Throw(r)
    <3>1. submitted' = submitted /\ head' = head /\ stage'[r] \in {"poll", "failed"}
      BY <2>2 DEF Subscribe, Throw, Shape
    <3>2. Goal(<<>>)
      BY <1>1, <1>2, <3>1
    <3> QED BY <3>2
  <2>3. CASE Do(r, Outcome(r, lic))
    <3>1. PICK o : o = Outcome(r, lic)
      OBVIOUS
    <3>2. Fair(r, lic, o) /\ Do(r, o)
      BY <2>3, <3>1, OutcomeIsFair
    <3>3. /\ submitted' = submitted \o o.publish
          /\ stage'[r] = IF o.reply THEN "reply" ELSE "done"
          /\ head'[r] = IF o.code = 0 THEN 0 ELSE HttpStatus(o.code)
      BY <3>2 DEF Do, WriteHead, Shape
    <3>4. Sends(r, lic, o.publish)
      BY <3>2 DEF Fair
    <3>5. stage'[r] \in {"reply", "failed", "poll"} => o.publish = <<>>
      BY <3>2, <3>3 DEF Fair
    <3>6. stage'[r] = "reply" /\ route[r] \in {"publish", "rest"} =>
            kind[r].body.command # "incomingMessages"
      BY <3>2, <3>3 DEF Fair
    <3>7. kind[r].via = "http" /\ head'[r] # 0 => Tells(r, head'[r], o.publish)
      BY <3>2, <3>3 DEF Fair
    <3>8. Goal(o.publish)
      BY <3>3, <3>4, <3>5, <3>6, <3>7
    <3> QED BY <3>8
  <2> QED BY <2>1, <2>2, <2>3
<1> QED BY <1>3, <1>4

(* The status tells of what was sent, when nothing was before. *)
LEMMA FateKnown ==
  ASSUME Mail, NEW r \in Req, NEW sent, Sent(r) = {}, sent \in Seq(ToSet(sent)),
         submitted' = submitted \o sent, \A i \in DOMAIN sent : sent[i].from = r,
         Parsed(r), kind'[r] = kind[r], route'[r] = route[r],
         kind[r].via = "http" /\ head'[r] # 0 => Tells(r, head'[r], sent)
  PROVE  FateOf(r)'
<1> SUFFICES ASSUME kind[r].via = "http", head'[r] # 0
             PROVE  /\ head'[r] # 200 => Sent(r)' = {}
                    /\ head'[r] = 200 /\ route[r] \in {"publish", "rest"} =>
                         \/ route[r] = "publish" /\ ~kind[r].binary
                         \/ kind[r].body.command # "incomingMessages"
                         \/ AllSent(r, kind[r].body.messages)'
  BY DEF FateOf
<1>1. /\ Len(submitted) \in Nat /\ Len(sent) \in Nat
      /\ Len(submitted') = Len(submitted) + Len(sent)
      /\ \A i \in 1..Len(sent) : submitted'[Len(submitted) + i] = sent[i]
  BY Concat DEF Mail
<1>2. Sent(r)' = (Len(submitted) + 1)..(Len(submitted) + Len(sent))
  BY SentBy
<1>3. head'[r] # 200 => Sent(r)' = {}
  <2>1. sent = <<>> => Len(sent) = 0
    OBVIOUS
  <2> QED BY <1>1, <1>2, <2>1 DEF Tells
<1>4. ASSUME head'[r] = 200, route[r] \in {"publish", "rest"},
             ~(route[r] = "publish" /\ ~kind[r].binary),
             kind[r].body.command = "incomingMessages"
      PROVE  AllSent(r, kind[r].body.messages)'
  <2>1. PICK messages : messages = kind[r].body.messages
    OBVIOUS
  <2>2. /\ Len(sent) = Len(messages)
        /\ \A i \in DOMAIN messages : sent[i].receivers = messages[i]
    BY <1>4, <2>1 DEF Tells
  <2>3. messages \in Seq(Seq(Receiver))
    BY <1>4, <2>1 DEF Parsed, Decoded
  <2>4. /\ Len(submitted) \in 0..(Len(submitted') - Len(messages))
        /\ Sent(r)' = (Len(submitted) + 1)..(Len(submitted) + Len(messages))
        /\ \A i \in DOMAIN messages : submitted'[Len(submitted) + i].receivers = messages[i]
    BY <1>1, <1>2, <2>2, <2>3
  <2>5. AllSent(r, messages)'
    BY <2>4 DEF AllSent
  <2>6. (kind[r].body.messages)' = messages
    BY <2>1
  <2> QED BY <2>5, <2>6 DEF AllSent
<1> QED BY <1>3, <1>4

LEMMA HandlingInv ==
  ASSUME RequestsInv, PublishInv, NEW r \in Req, NEW lic, Handle(r, lic),
         head[r] = 0, Sent(r) = {}, Parsed(r),
         UNCHANGED <<cloudMode, kind, route>>,
         DOMAIN license' = Req, license'[r] = lic,
         \A q \in Req : q # r => license'[q] = license[q]
  PROVE  PublishInv'
<1>1. Shape /\ Mail
  BY DEF RequestsInv, PublishInv
<1>2. Handled(r)
  BY <1>1, HandleKeeps
<1>3. PICK sent :
        /\ submitted' = submitted \o sent /\ Sends(r, lic, sent)
        /\ stage'[r] \in {"reply", "failed", "poll"} => sent = <<>>
        /\ stage'[r] = "websocket" => kind[r].via = "upgrade"
        /\ stage'[r] = "reply" /\ route[r] \in {"publish", "rest"} =>
             kind[r].body.command # "incomingMessages"
        /\ kind[r].via = "http" /\ head'[r] # 0 => Tells(r, head'[r], sent)
  BY <1>1, HandleSends
<1>4. Sending(r, sent)
  BY <1>2, <1>3 DEF Sending, Handled
<1>5. /\ sent \in Seq(ToSet(sent))
      /\ \A i \in DOMAIN sent : sent[i].from = r /\ MayPublish(kind[r], lic, sent[i])
  BY <1>3 DEF Sends, MayPublishAll
<1>6. FateOf(r)'
  BY <1>1, <1>3, <1>5, FateKnown
<1>7. sent = <<>> => Sent(r)' = {}
  <2>4. \A i \in DOMAIN sent : sent[i].from = r
    BY <1>5
  <2>5. Sent(r)' = Sent(r) \cup ((Len(submitted) + 1)..(Len(submitted) + Len(sent)))
    BY <1>1, <1>3, <1>5, <2>4, SentBy
  <2>1. Sent(r)' = (Len(submitted) + 1)..(Len(submitted) + Len(sent))
    BY <2>5
  <2>2. Len(submitted) \in Nat
    BY <1>1 DEF Mail
  <2>3. sent = <<>> => Len(sent) = 0
    OBVIOUS
  <2> QED BY <2>1, <2>2, <2>3
<1>8. StageOf(r)'
  <2>1. stage'[r] \in {"done", "reply", "failed", "poll", "websocket"}
    BY <1>2 DEF Handled
  <2>2. Parsed(r)'
    BY DEF Parsed
  <2> QED BY <1>3, <1>7, <2>1, <2>2 DEF StageOf
<1>9. \A i \in DOMAIN sent :
        sent[i].from = r /\ MayPublish(kind'[r], license'[r], sent[i])
  BY <1>5
<1> QED BY <1>4, <1>5, <1>6, <1>8, <1>9, SendingInv

-----------------------------------------------------------------------------
(* The events of a request that send nothing. *)
LEMMA QuietInv ==
  ASSUME PublishInv, NEW r \in Req, UNCHANGED <<cloudMode, license, submitted>>,
         \A q \in Req : q # r =>
           /\ kind'[q] = kind[q] /\ route'[q] = route[q] /\ stage'[q] = stage[q]
           /\ head'[q] = head[q],
         Sent(r) = {} \/ kind'[r] = kind[r],
         StageOf(r)', FateOf(r)'
  PROVE  PublishInv'
<1>1. submitted \o <<>> = submitted /\ <<>> \in Seq(ToSet(<<>>)) /\ DOMAIN <<>> = {}
  BY DEF PublishInv, Mail
<1>2. Sending(r, <<>>)
  BY <1>1 DEF Sending, PublishInv
<1>3. \A i \in DOMAIN <<>> :
        <<>>[i].from = r /\ MayPublish(kind'[r], license'[r], <<>>[i])
  BY <1>1
<1> QED BY <1>1, <1>2, <1>3, SendingInv

LEMMA SentSame ==
  ASSUME submitted' = submitted, NEW r
  PROVE  Sent(r)' = Sent(r)
BY DEF Sent

LEMMA ArrivePublishes ==
  ASSUME RequestsInv, PublishInv, NEW r \in Req, Arrive(r)
  PROVE  PublishInv'
<1>1. /\ stage[r] = "new" /\ stage' = [stage EXCEPT ![r] = "arrived"]
      /\ UNCHANGED <<cloudMode, head, license, submitted>>
  BY DEF Arrive
<1>2. PICK k \in Kinds[r] :
        /\ kind' = [kind EXCEPT ![r] = k]
        /\ route' = [route EXCEPT ![r] =
             IF k.via = "upgrade" THEN "upgrade" ELSE Match(Routes.routes, k.method, k.path).fn]
  BY DEF Arrive
<1>3. kind'[r] = k /\ stage'[r] = "arrived"
      /\ \A q \in Req : q # r =>
           kind'[q] = kind[q] /\ route'[q] = route[q] /\ stage'[q] = stage[q]
  BY <1>1, <1>2 DEF RequestsInv, Shape
<1>4. route'[r] = "publish" => k.method = "POST" /\ IsPrefix(Server.pub, k.path)
  <2>1. CASE k.via = "upgrade"
    BY <1>2, <2>1 DEF RequestsInv, Shape
  <2>2. CASE k.via # "upgrade"
    <3>1. route'[r] = Match(Routes.routes, k.method, k.path).fn
      BY <1>2, <2>2 DEF RequestsInv, Shape
    <3> QED BY <3>1, PublishRoute
  <2> QED BY <2>1, <2>2
<1>5. Parsed(r)'
  BY <1>3, <1>4, RequestsAssumption DEF Parsed
<1>6. license[r] = "none" /\ Sent(r) = {}
  BY <1>1 DEF PublishInv, StageOf
<1>7. StageOf(r)'
  BY <1>1, <1>3, <1>5, <1>6, SentSame DEF StageOf
<1>8. FateOf(r)'
  BY <1>1 DEF FateOf, RequestsInv, OneHead, OverLimit
<1> QED BY <1>1, <1>3, <1>6, <1>7, <1>8, QuietInv

LEMMA BeginPublishes ==
  ASSUME RequestsInv, PublishInv, NEW r \in Req, Begin(r),
         stage[r] = "arrived" \/ (stage[r] = "body" /\ ~OverLimit(r)),
         UNCHANGED <<cloudMode, kind, route, license>>
  PROVE  PublishInv'
<1>1. head[r] = 0 /\ Sent(r) = {} /\ license[r] = "none" /\ Parsed(r)
  BY DEF RequestsInv, OneHead, OverLimit, PublishInv, StageOf
<1>2. CASE Reject(r) \/ AskLicense(r)
  <2>1. UNCHANGED <<head, submitted>>
    BY <1>2 DEF Reject, AskLicense
  <2>2. stage'[r] \in {"license", "rejected"} /\ \A q \in Req : q # r => stage'[q] = stage[q]
    BY <1>2 DEF Reject, AskLicense, RequestsInv, Shape
  <2>3. StageOf(r)'
    BY <1>1, <2>1, <2>2, SentSame DEF StageOf, Parsed
  <2>4. FateOf(r)'
    BY <1>1, <2>1 DEF FateOf
  <2> QED BY <2>1, <2>2, <2>3, <2>4, QuietInv
<1>3. CASE Handle(r, "none")
  BY <1>1, <1>3, HandlingInv DEF PublishInv
<1> QED BY <1>2, <1>3 DEF Begin

LEMMA ProcessPublishes ==
  ASSUME RequestsInv, PublishInv, NEW r \in Req, Process(r)
  PROVE  PublishInv'
<1>1. stage[r] = "arrived" /\ UNCHANGED <<cloudMode, kind, route, license>>
  BY DEF Process
<1>2. CASE Begin(r)
  BY <1>1, <1>2, BeginPublishes
<1>3. CASE ~Begin(r)
  <2>1. stage' = [stage EXCEPT ![r] = "body"] /\ UNCHANGED <<head, submitted>>
    BY <1>3 DEF Process
  <2>2. stage'[r] = "body" /\ \A q \in Req : q # r => stage'[q] = stage[q]
    BY <2>1 DEF RequestsInv, Shape
  <2>3. head[r] = 0
    BY <1>1 DEF RequestsInv, OneHead, OverLimit
  <2>4. StageOf(r)' /\ FateOf(r)'
    BY <1>1, <2>1, <2>2, <2>3, SentSame DEF StageOf, FateOf, Parsed, PublishInv
  <2> QED BY <1>1, <2>1, <2>2, <2>4, QuietInv
<1> QED BY <1>2, <1>3

LEMMA DataPublishes ==
  ASSUME RequestsInv, PublishInv, NEW r \in Req, Data(r)
  PROVE  PublishInv'
<1>1. /\ stage[r] = "body"
      /\ UNCHANGED <<cloudMode, kind, route, stage, license, submitted>>
  BY DEF Data
<1>2. /\ \A q \in Req : q # r => head'[q] = head[q]
      /\ head'[r] \in {head[r], 413}
  BY DEF Data, WriteHead, RequestsInv, Shape
<1>3. StageOf(r)' /\ FateOf(r)'
  BY <1>1, <1>2, SentSame DEF StageOf, FateOf, Parsed, PublishInv
<1> QED BY <1>1, <1>2, <1>3, QuietInv

LEMMA EndPublishes ==
  ASSUME RequestsInv, PublishInv, NEW r \in Req, End(r)
  PROVE  PublishInv'
<1>1. stage[r] = "body" /\ UNCHANGED <<cloudMode, kind, route, license>>
  BY DEF End
<1>2. CASE bytes[r] > Limit(r)
  <2>1. stage' = [stage EXCEPT ![r] = "done"] /\ UNCHANGED <<head, submitted>>
    BY <1>2 DEF End
  <2>2. stage'[r] = "done" /\ \A q \in Req : q # r => stage'[q] = stage[q]
    BY <2>1 DEF RequestsInv, Shape
  <2>3. StageOf(r)' /\ FateOf(r)'
    BY <1>1, <2>1, <2>2, SentSame DEF StageOf, FateOf, Parsed, PublishInv
  <2> QED BY <1>1, <2>1, <2>2, <2>3, QuietInv
<1>3. CASE ~(bytes[r] > Limit(r))
  <2>1. Begin(r) /\ ~OverLimit(r)
    BY <1>3 DEF End, OverLimit
  <2> QED BY <1>1, <2>1, BeginPublishes
<1> QED BY <1>2, <1>3

LEMMA LicenseFoundPublishes ==
  ASSUME RequestsInv, PublishInv, NEW r \in Req, LicenseFound(r)
  PROVE  PublishInv'
<1>1. stage[r] = "license" /\ UNCHANGED <<cloudMode, kind, route>>
  BY DEF LicenseFound
<1>2. PICK lic \in Licenses : Handle(r, lic) /\ license' = [license EXCEPT ![r] = lic]
  BY DEF LicenseFound
<1>3. head[r] = 0 /\ Sent(r) = {} /\ Parsed(r)
  BY <1>1 DEF RequestsInv, OneHead, OverLimit, PublishInv, StageOf
<1>4. /\ DOMAIN license' = Req /\ license'[r] = lic
      /\ \A q \in Req : q # r => license'[q] = license[q]
  BY <1>2 DEF PublishInv
<1> QED BY <1>1, <1>2, <1>3, <1>4, HandlingInv

LEMMA AnsweredPublishes ==
  ASSUME RequestsInv, PublishInv, NEW r \in Req, Answered(r)
  PROVE  PublishInv'
<1>1. /\ stage[r] = "reply" /\ stage' = [stage EXCEPT ![r] = "done"]
      /\ UNCHANGED <<cloudMode, kind, route, license, submitted>>
  BY DEF Answered
<1>2. head[r] = 0
  BY <1>1 DEF RequestsInv, OneHead, OverLimit
<1>3. head' = [head EXCEPT ![r] = 200]
  BY <1>2 DEF Answered, WriteHead
<1>4. /\ stage'[r] = "done" /\ head'[r] = 200
      /\ \A q \in Req : q # r => stage'[q] = stage[q] /\ head'[q] = head[q]
  BY <1>1, <1>3 DEF RequestsInv, Shape
<1>5. StageOf(r)' /\ FateOf(r)'
  BY <1>1, <1>4, SentSame DEF StageOf, FateOf, Parsed, PublishInv
<1> QED BY <1>1, <1>4, <1>5, QuietInv

LEMMA ClientLeavesPublishes ==
  ASSUME RequestsInv, PublishInv, NEW r \in Req, ClientLeaves(r)
  PROVE  PublishInv'
<1>1. /\ stage[r] # "new"
      /\ stage' = [stage EXCEPT ![r] =
           IF @ \in {"arrived", "body", "poll", "websocket"} THEN "done" ELSE @]
      /\ UNCHANGED <<cloudMode, kind, route, head, license, submitted>>
  BY DEF ClientLeaves
<1>2. /\ stage'[r] = IF stage[r] \in {"arrived", "body", "poll", "websocket"} THEN "done"
                     ELSE stage[r]
      /\ \A q \in Req : q # r => stage'[q] = stage[q]
  BY <1>1 DEF RequestsInv, Shape
<1>3. head[r] # 0 => stage[r] \in {"done", "body"}
  BY DEF RequestsInv, OneHead, OverLimit
<1>4. StageOf(r)'
  BY <1>1, <1>2, SentSame DEF StageOf, Parsed, PublishInv
<1>5. FateOf(r)'
  <2>1. CASE stage[r] = "body"
    <3>1. Sent(r)' = {} /\ head'[r] # 200
      BY <1>1, <2>1, SentSame DEF PublishInv, StageOf
    <3> QED BY <3>1 DEF FateOf
  <2>2. CASE stage[r] # "body"
    <3>1. head'[r] # 0 => stage[r] = "done"
      BY <1>1, <1>3, <2>2
    <3>2. FateOf(r) /\ Sent(r)' = Sent(r)
      BY <1>1, SentSame DEF PublishInv
    <3>3. AllSent(r, kind[r].body.messages)' = AllSent(r, kind[r].body.messages)
      BY <1>1 DEF AllSent, Sent
    <3> QED BY <1>1, <2>2, <3>1, <3>2, <3>3 DEF FateOf
  <2> QED BY <2>1, <2>2
<1> QED BY <1>1, <1>2, <1>4, <1>5, QuietInv

(* A frame is a batch of a client, whose license was looked up before. *)
LEMMA FramePublishes ==
  ASSUME RequestsInv, PublishInv, NEW r \in Req, Frame(r)
  PROVE  PublishInv'
<1>1. /\ stage[r] = "websocket"
      /\ UNCHANGED <<cloudMode, kind, route, stage, head, license>>
  BY DEF Frame
<1>2. PICK id : id = PubChannelId(ParseChannels(kind[r].channels, TRUE, license[r]))
  OBVIOUS
<1>3. PICK body \in Frames :
        submitted' = submitted \o ProcessClientRequest(r, body, id, FALSE, license[r]).publish
  BY <1>2 DEF Frame
<1>4. PICK o : o = ProcessClientRequest(r, body, id, FALSE, license[r])
  OBVIOUS
<1>5. Parsed(r) /\ kind[r].via = "upgrade"
  BY <1>1 DEF PublishInv, StageOf
<1>6. Decoded(body)
  BY RequestsAssumption
<1>7. Batch(o, r, body, FALSE, id, license[r])
  BY <1>4, <1>6, ClientForm
<1>8. IsEntitled(r, FALSE, id, license[r])
  BY <1>2, <1>5, ClientIsSigned DEF IsEntitled, Parsed
<1>9. Sends(r, license[r], o.publish)
  BY <1>6, <1>7, <1>8, BatchSends
<1>10. Sending(r, o.publish)
  BY <1>1, <1>3, <1>4 DEF Sending, PublishInv
<1>11. /\ o.publish \in Seq(ToSet(o.publish))
       /\ \A i \in DOMAIN o.publish :
            o.publish[i].from = r /\ MayPublish(kind'[r], license'[r], o.publish[i])
  BY <1>1, <1>9 DEF Sends, MayPublishAll
<1>12. StageOf(r)' /\ FateOf(r)'
  BY <1>1, <1>5 DEF StageOf, FateOf, Parsed
<1> QED BY <1>1, <1>10, <1>11, <1>12, SendingInv

LEMMA NextPublishes == RequestsInv /\ PublishInv /\ [Next]_vars => PublishInv'
<1> SUFFICES ASSUME RequestsInv, PublishInv, [Next]_vars PROVE PublishInv'
  OBVIOUS
<1>1. CASE UNCHANGED <<cloudMode, kind, route, stage, head, license, submitted>>
  <2>1. \A r : Sent(r)' = Sent(r) /\ \A ms : AllSent(r, ms)' <=> AllSent(r, ms)
    BY <1>1 DEF Sent, AllSent
  <2>2. ASSUME NEW r \in Req PROVE StageOf(r)'
    BY <1>1, <2>1 DEF PublishInv, StageOf, Parsed
  <2>3. ASSUME NEW r \in Req PROVE FateOf(r)'
    <3>1. FateOf(r) /\ Sent(r)' = Sent(r)
      BY <2>1 DEF PublishInv
    <3>2. AllSent(r, kind[r].body.messages)' = AllSent(r, kind[r].body.messages)
      BY <1>1 DEF AllSent, Sent
    <3> QED BY <1>1, <3>1, <3>2 DEF FateOf
  <2>4. Mail' /\ PublishedIsAllowed'
    BY <1>1 DEF PublishInv, Mail, PublishedIsAllowed, Allowed
  <2> QED BY <1>1, <2>2, <2>3, <2>4 DEF PublishInv
<1>2. ASSUME NEW r \in Req, Step(r) PROVE PublishInv'
  <2>1. CASE Timeout(r)
    BY <1>1, <2>1 DEF Timeout
  <2> QED BY <1>2, <2>1, ArrivePublishes, ProcessPublishes, DataPublishes, EndPublishes,
             LicenseFoundPublishes, AnsweredPublishes, FramePublishes, ClientLeavesPublishes
          DEF Step
<1>3. CASE Report \/ Midnight \/ Exit \/ UNCHANGED vars
  BY <1>1, <1>3 DEF Report, Midnight, Exit, vars, rvars
<1> QED BY <1>2, <1>3 DEF Next

LEMMA PublishInvariant == Spec => []PublishInv
<1>1. Init => PublishInv
  <2> SUFFICES ASSUME Init PROVE PublishInv
    OBVIOUS
  <2>1. submitted = <<>> /\ DOMAIN submitted = {} /\ submitted \in Seq(ToSet(submitted))
    <3>1. <<>> \in Seq(ToSet(<<>>)) /\ DOMAIN <<>> = {}
      OBVIOUS
    <3>2. submitted = <<>>
      BY DEF Init
    <3> QED BY <3>1, <3>2
  <2>2. Mail /\ PublishedIsAllowed /\ \A r \in Req : Sent(r) = {}
    BY <2>1 DEF Mail, PublishedIsAllowed, ToSet, Sent
  <2>3. \A r \in Req : StageOf(r) /\ FateOf(r)
    BY <2>2 DEF Init, StageOf, FateOf
  <2> QED BY <2>2, <2>3 DEF PublishInv, Init
<1> QED BY <1>1, NextPublishes, RequestsInvariant, PTL DEF Spec

-----------------------------------------------------------------------------
(***************************************************************************)
(* What reaches the storage was allowed to, whatever requests and frames   *)
(* carry: a message of the portal came by POST on the pub route, in the    *)
(* cloud with a license and a signature of its key; a message of a client  *)
(* names a public id that the key of the portal signed for a channel of    *)
(* the client, and goes to public channels signed with that key, within    *)
(* the limits.                                                             *)
(***************************************************************************)
THEOREM OnlyAllowedIsPublished == Spec => []PublishedIsAllowed
<1>1. PublishInv => PublishedIsAllowed
  BY DEF PublishInv
<1> QED BY <1>1, PublishInvariant, PTL

(***************************************************************************)
(* The answer of an HTTP request tells the fate of its messages: refused,  *)
(* none was given to the storage; accepted, all were, together and in      *)
(* their order - but for the text form, which is answered 200 before       *)
(* anything is known.                                                      *)
(***************************************************************************)
THEOREM AnswersTellTheFate == Spec => []AnswerTellsTheFate
<1>1. PublishInv => AnswerTellsTheFate
  BY DEF PublishInv, FateOf, AnswerTellsTheFate
<1> QED BY <1>1, PublishInvariant, PTL

-----------------------------------------------------------------------------
(***************************************************************************)
(* The types.  A message has one of the forms of Mails, and an outcome the *)
(* status of an answer; the routes are added once each when no two of a    *)
(* method have the same path.                                              *)
(***************************************************************************)
Target == [id : STRING, private : BOOLEAN]
Sender == [type : {"backend", "client"}, id : STRING \cup {NoId}]

LEMMA FlattenType ==
  ASSUME NEW R, NEW seqs \in Seq(Seq(R))
  PROVE  FlattenSeq(seqs) \in Seq(R)
<1> DEFINE n == Len(seqs)
           T == Seq(R)
           Round(x, i) == IF i = 1 THEN seqs[i] ELSE x \o seqs[i]
           G == [xi \in T \X (1..n) |-> Round(xi[1], xi[2])]
           Eq(g) == g = [i \in 1..n |-> IF i = 1 THEN seqs[i] ELSE g[i-1] \o seqs[i]]
           flatten == CHOOSE g : Eq(g)
<1>0. n \in Nat /\ \A i \in 1..n : seqs[i] \in T
  OBVIOUS
<1>1. CASE n = 0
  <2>1. seqs = <<>>
    BY <1>1
  <2> QED BY <1>1, <2>1 DEF FlattenSeq
<1>2. CASE n # 0
  <2>1. ASSUME NEW x \in T, NEW i \in 1..n PROVE Round(x, i) \in T
    BY <1>0
  <2>2. <<>> \in T
    OBVIOUS
  <2> HIDE DEF n, Round, T
  <2>3. G \in [T \X (1..n) -> T]
    BY <2>1
  <2>4. PICK f \in [0..n -> T] : IsRun(f, n, <<>>, G)
    <3> HIDE DEF G
    <3> QED BY <1>0, <2>2, <2>3, LoopExists, Zenon
  <2>5. ASSUME NEW i \in 1..n PROVE f[i] = Round(f[i-1], i)
    <3>1. f[i] = G[<<f[i-1], i>>]
      BY <2>4 DEF IsRun
    <3>2. i - 1 \in 0..n
      BY <1>0
    <3>3. f[i-1] \in T
      BY <3>2
    <3> QED BY <3>1, <3>3
  <2>6. \E g : Eq(g)
    <3> DEFINE g == [i \in 1..n |-> f[i]]
    <3>1. \A i \in 1..n : i # 1 => i - 1 \in 1..n
      BY <1>0
    <3>2. \A i \in 1..n : g[i] = IF i = 1 THEN seqs[i] ELSE g[i-1] \o seqs[i]
      BY <2>5, <3>1 DEF Round
    <3>3. Eq(g)
      BY <3>2
    <3> QED BY <3>3
  <2>7. Eq(flatten)
    BY <2>6
  <2> HIDE DEF flatten, G
  <2> DEFINE Good == {i \in 0..n : i = 0 \/ flatten[i] \in T}
  <2>8. 0 \in Good
    BY <1>0
  <2>9. ASSUME NEW k \in 1..n, k - 1 \in Good PROVE k \in Good
    <3>1. flatten[k] = IF k = 1 THEN seqs[k] ELSE flatten[k-1] \o seqs[k]
      BY <2>7
    <3>2. k # 1 => flatten[k-1] \in T
      BY <1>0, <2>9
    <3>3. flatten[k] \in T
      BY <1>0, <3>1, <3>2 DEF T
    <3> QED BY <1>0, <3>3
  <2> HIDE DEF Good
  <2>10. 0..n \subseteq Good
    BY <1>0, <2>8, <2>9, UpToInduction
  <2>11. flatten[n] \in T
    BY <1>0, <1>2, <2>10 DEF Good
  <2>12. FlattenSeq(seqs) = flatten[n]
    BY <1>2 DEF FlattenSeq, flatten, n
  <2> QED BY <2>11, <2>12 DEF T
<1> QED BY <1>1, <1>2


(* No two routes of a method have the same path, but for missing ones. *)
DistinctPaths ==
  \A i, j \in 1..Len(Constructed) :
    i # j /\ Constructed[i].path # <<>> /\ Constructed[i].method = Constructed[j].method =>
      Constructed[i].path # Constructed[j].path

LEMMA RoutesAreAdded ==
  ASSUME DistinctPaths
  PROVE  Routes.ok
<1> DEFINE n == Len(Constructed)
<1>1. PICK run \in [0..n -> Routers] :
        /\ run[0] = [routes |-> <<>>, ok |-> TRUE]
        /\ \A i \in 1..n : run[i] = AddGiven(run[i-1], Constructed[i])
        /\ Routes = run[n]
  BY RoutesByRounds
<1>2. n \in Nat
  BY DEF Constructed
<1> DEFINE Earlier(i, entry) ==
             \E j \in 1..i : entry = Constructed[j] /\ Constructed[j].path # <<>>
           Fine(i) == /\ run[i].ok
                      /\ \A k \in DOMAIN run[i].routes : Earlier(i, run[i].routes[k])
           Good == {i \in 0..n : Fine(i)}
<1> HIDE DEF n
<1>3. Fine(0)
  <2>1. DOMAIN <<>> = {} /\ run[0].routes = <<>> /\ run[0].ok
    BY <1>1
  <2> QED BY <2>1
<1>4. ASSUME NEW i \in 1..n, Fine(i-1) PROVE Fine(i)
  <2> DEFINE entry == Constructed[i]
             old == run[i-1]
  <2>1. old \in Routers /\ run[i] = AddGiven(old, entry) /\ i - 1 \in 0..n
    BY <1>1, <1>2
  <2>2. \A e : Earlier(i-1, e) => Earlier(i, e)
    BY <1>2
  <2>3. CASE ~IsGiven(entry)
    <3>1. run[i] = old
      BY <2>1, <2>3 DEF AddGiven
    <3> QED BY <1>4, <2>2, <3>1
  <2>4. CASE IsGiven(entry)
    <3>1. entry.path # <<>>
      BY <2>4 DEF IsGiven
    <3>2. ASSUME NEW k \in DOMAIN old.routes, old.routes[k].method = entry.method
          PROVE  old.routes[k].path # entry.path
      <4>1. PICK j \in 1..(i-1) : old.routes[k] = Constructed[j] /\ Constructed[j].path # <<>>
        BY <1>4
      <4>2. j \in 1..n /\ j # i
        BY <1>2
      <4> QED BY <3>2, <4>1, <4>2 DEF DistinctPaths, n
    <3>3. IsPathUnique(old.routes, entry)
      BY <3>2 DEF IsPathUnique
    <3>4. run[i] = [old EXCEPT !.routes = Append(@, entry)]
      <4> HIDE DEF old, entry
      <4> QED BY <2>1, <2>4, <3>3 DEF AddGiven, Add
    <3>5. run[i].ok /\ run[i].routes = Append(old.routes, entry)
      <4>1. old.ok
        BY <1>4
      <4> HIDE DEF old, entry
      <4> QED BY <2>1, <3>4, <4>1 DEF Routers
    <3>6. ASSUME NEW k \in DOMAIN run[i].routes PROVE Earlier(i, run[i].routes[k])
      <4>1. entry \in Entries /\ old.routes \in Seq(Entries)
        <5>1. entry \in Entries
          BY DEF Entries, n
        <5> HIDE DEF old, entry
        <5> QED BY <2>1, <5>1 DEF Routers
      <4>2. run[i].routes[k] = entry \/ (k \in DOMAIN old.routes /\ run[i].routes[k] = old.routes[k])
        <5> HIDE DEF old, entry
        <5> QED BY <3>5, <3>6, <4>1
      <4>3. Earlier(i, entry)
        BY <1>2, <3>1
      <4> QED BY <1>4, <2>2, <4>2, <4>3
    <3> QED BY <3>5, <3>6
  <2> QED BY <2>3, <2>4
<1> HIDE DEF Fine
<1>5. 0 \in Good /\ \A k \in 1..n : k - 1 \in Good => k \in Good
  BY <1>2, <1>3, <1>4
<1> HIDE DEF Good
<1>6. 0..n \subseteq Good
  BY <1>2, <1>5, UpToInduction
<1>7. Fine(n)
  BY <1>2, <1>6 DEF Good
<1> QED BY <1>1, <1>7 DEF Fine

-----------------------------------------------------------------------------
(* What a command sends and answers, by its types. *)
Statuses == {0, 200, 400, 404, 413}

Typed(o) ==
  /\ o.publish \in Seq(Mails)
  /\ o.code = 0 \/ HttpStatus(o.code) \in Statuses

LEMMA NothingIsTyped ==
  ASSUME NEW o, Refused(o) \/ RepliesLater(o)
  PROVE  Typed(o)
<1>1. <<>> \in Seq(Mails)
  OBVIOUS
<1>2. o.code \in Errors => HttpStatus(o.code) = 400
  BY ErrorStatus
<1>3. HttpStatus(404) = 404
  BY DEF HttpStatus
<1>4. o.publish = <<>> /\ (o.code \in Errors \/ o.code = 404 \/ o.code = 0)
  BY DEF Refused, RepliesLater
<1> QED BY <1>1, <1>2, <1>3, <1>4 DEF Typed, Statuses

LEMMA BatchIsTyped ==
  ASSUME NEW r \in Req, NEW o, NEW body, Decoded(body), NEW trusted \in BOOLEAN,
         NEW publicId \in STRING \cup {NoId}, NEW lic, Batch(o, r, body, trusted, publicId, lic)
  PROVE  Typed(o)
<1> DEFINE ms == body.messages
           sender == SenderOf(trusted, publicId)
<1>1. CASE Refused(o) \/ RepliesLater(o)
  BY <1>1, NothingIsTyped
<1>2. CASE body.command = "incomingMessages" /\ Published(o, r, ms, sender)
  <2>1. ms \in Seq(Seq(Receiver))
    BY <1>2 DEF Decoded
  <2>2. sender \in Sender
    BY DEF SenderOf, Backend, Sender
  <2> HIDE DEF ms, sender
  <2>3. /\ o.publish \in Seq(ToSet(o.publish)) /\ Len(o.publish) = Len(ms)
        /\ \A i \in DOMAIN ms : o.publish[i] = Message(r, ms[i], sender)
        /\ o.code = 0 \/ o.code = 200
    BY <1>2 DEF Published
  <2>4. ASSUME NEW i \in 1..Len(ms) PROVE o.publish[i] \in Mails
    <3>1. ms[i] \in Seq(Receiver) /\ i \in DOMAIN ms
      BY <2>1
    <3>2. Message(r, ms[i], sender) \in Mails
      BY <2>2, <3>1 DEF Message, Mails, Sender
    <3> QED BY <2>3, <3>1, <3>2
  <2>5. Len(ms) \in Nat /\ o.publish = [i \in 1..Len(ms) |-> o.publish[i]]
    BY <2>1, <2>3
  <2>6. o.publish \in Seq(Mails)
    BY <2>4, <2>5
  <2>7. HttpStatus(200) = 200
    BY DEF HttpStatus
  <2> QED BY <2>3, <2>6, <2>7 DEF Typed, Statuses
<1> QED BY <1>1, <1>2 DEF Batch

LEMMA ParsedChannels ==
  ASSUME NEW channels \in Seq(Channel), NEW verify, NEW lic
  PROVE  ParseChannels(channels, verify, lic) \in Seq(Channel)
<1>1. <<>> \in Seq(Channel)
  OBVIOUS
<1> QED BY <1>1 DEF ParseChannels

LEMMA PublicIdIsString ==
  ASSUME NEW channels \in Seq(Channel)
  PROVE  PubChannelId(channels) \in STRING \cup {NoId}
<1> DEFINE I == {i \in 1..Len(channels) : channels[i].public # NoId}
<1>1. CASE I = {}
  BY <1>1 DEF PubChannelId, SelectInSeq
<1>2. CASE I # {}
  <2>1. Len(channels) \in Nat /\ I \in SUBSET (1..Len(channels))
    OBVIOUS
  <2>2. Min(I) \in I
    <3> HIDE DEF I
    <3> QED BY <1>2, <2>1, LeastExists
  <2>3. channels[Min(I)] \in Channel /\ Min(I) # 0
    BY <2>2
  <2>4. PubChannelId(channels) = channels[Min(I)].public
    BY <1>2, <2>3 DEF PubChannelId, SelectInSeq
  <2> HIDE DEF I
  <2> QED BY <2>3, <2>4 DEF Channel
<1> QED BY <1>1, <1>2

(* The receivers of the text form. *)
LEMMA ReceiversAreTargets ==
  ASSUME NEW channels \in Seq(Channel)
  PROVE  ReceiversOf(channels) \in Seq(Target)
<1> DEFINE of(i) == <<[id |-> channels[i].id, private |-> TRUE]>> \o
                    (IF channels[i].public = NoId THEN <<>>
                     ELSE <<[id |-> channels[i].public, private |-> FALSE]>>)
           seqs == [i \in DOMAIN channels |-> of(i)]
<1>1. ASSUME NEW i \in DOMAIN channels PROVE of(i) \in Seq(Target)
  <2>0. channels[i] \in Channel
    OBVIOUS
  <2>1. channels[i].id \in STRING /\ channels[i].public \in STRING
    BY <2>0 DEF Channel
  <2>2. [id |-> channels[i].id, private |-> TRUE] \in Target
        /\ [id |-> channels[i].public, private |-> FALSE] \in Target
    BY <2>1 DEF Target
  <2> QED BY <2>2
<1>2. DOMAIN channels = 1..Len(channels) /\ Len(channels) \in Nat
  OBVIOUS
<1> HIDE DEF of
<1>3. seqs \in Seq(Seq(Target))
  BY <1>1, <1>2
<1>4. ReceiversOf(channels) = FlattenSeq(seqs)
  BY DEF ReceiversOf, of
<1> HIDE DEF seqs
<1> QED BY <1>3, <1>4, FlattenType

LEMMA TextIsTyped ==
  ASSUME NEW r \in Req, NEW lic, Parsed(r)
  PROVE  Typed(PublishText(r, lic))
<1> DEFINE receivers == ReceiversOf(ParseChannels(kind[r].channels, FALSE, lic))
           m == Message(r, receivers, Backend)
           o == PublishText(r, lic)
<1>1. receivers \in Seq(Target)
  BY ParsedChannels, ReceiversAreTargets DEF Parsed
<1>2. o.code = 200 /\ (o.publish = <<>> \/ o.publish = <<m>>)
  BY DEF PublishText, Publish
<1> HIDE DEF receivers, o
<1>3. m \in Mails
  BY <1>1 DEF Message, Mails, Backend, Target
<1> HIDE DEF m
<1>4. o.publish \in Seq(Mails)
  <2>1. <<>> \in Seq(Mails) /\ <<m>> \in Seq(Mails)
    BY <1>3
  <2> QED BY <1>2, <2>1, Zenon
<1>5. HttpStatus(o.code) = 200
  BY <1>2 DEF HttpStatus
<1>6. Typed(o)
  BY <1>4, <1>5 DEF Typed, Statuses
<1> QED BY <1>6 DEF o

LEMMA OutcomeIsTyped ==
  ASSUME NEW r \in Req, NEW lic, Parsed(r)
  PROVE  Typed(Outcome(r, lic))
<1> DEFINE error == RequestError(r, lic)
           publicId == PubChannelId(ParseChannels(kind[r].channels, TRUE, lic))
           batch == ProcessClientRequest(r, Body(r), NoId, TRUE, lic)
<1>0. Decoded(Body(r))
  BY DEF Body, Decoded, Parsed
<1>1. error # 0 => Typed(Refuse(error))
  <2>1. error \in {0, 4025, 4026}
    BY DEF RequestError
  <2>2. error # 0 => Refused(Refuse(error))
    BY <2>1 DEF Refused, Refuse, Errors
  <2> QED BY <2>2, NothingIsTyped
<1>2. Typed(batch)
  <2>1. Batch(batch, r, Body(r), TRUE, NoId, lic)
    BY <1>0, ClientForm
  <2> HIDE DEF batch
  <2> QED BY <1>0, <2>1, BatchIsTyped
<1>3. Typed(ProcessPublishRequest(r, lic))
  BY <1>1, <1>2, TextIsTyped DEF ProcessPublishRequest
<1>4. Typed(ProcessRestRequest(r, lic))
  <2>1. publicId \in STRING \cup {NoId}
    BY ParsedChannels, PublicIdIsString DEF Parsed
  <2>2. ProcessRestRequest(r, lic) = ProcessClientRequest(r, Body(r), publicId, FALSE, lic)
    BY DEF ProcessRestRequest
  <2> HIDE DEF publicId
  <2>3. Batch(ProcessRestRequest(r, lic), r, Body(r), FALSE, publicId, lic)
    BY <1>0, <2>2, ClientForm
  <2> QED BY <1>0, <2>1, <2>3, BatchIsTyped
<1>5. Typed(ProcessChannelStatsRequest(r, lic))
  <2> DEFINE channels == ParseChannels(kind[r].channels, FALSE, lic)
             targets == [i \in DOMAIN channels |-> [id |-> channels[i].id, private |-> TRUE]]
  <2>1. channels \in Seq(Channel)
    BY ParsedChannels DEF Parsed
  <2>2. targets \in Seq(Target)
    <3> HIDE DEF channels
    <3>1. DOMAIN channels = 1..Len(channels) /\ Len(channels) \in Nat
      BY <2>1
    <3>2. \A i \in 1..Len(channels) : targets[i] \in Target
      <4> TAKE i \in 1..Len(channels)
      <4>0. channels[i] \in Channel
        BY <2>1
      <4>1. channels[i].id \in STRING
        BY <4>0 DEF Channel
      <4> QED BY <3>1, <4>1 DEF Target
    <3>3. targets = [i \in 1..Len(channels) |-> targets[i]]
      BY <3>1
    <3> HIDE DEF targets
    <3> QED BY <3>1, <3>2, <3>3
  <2>3. ProcessChannelStatsRequest(r, lic) =
          IF error # 0 THEN Refuse(error) ELSE ChannelStats(targets, TRUE, lic)
    BY DEF ProcessChannelStatsRequest
  <2> HIDE DEF targets, error
  <2>4. Typed(ChannelStats(targets, TRUE, lic))
    BY <2>2, StatsForm, NothingIsTyped
  <2> QED BY <1>1, <2>3, <2>4
<1>6. Typed(ProcessRegisterRequest(r))
  <2>1. Refused(ProcessRegisterRequest(r)) \/ RepliesLater(ProcessRegisterRequest(r))
    BY DEF ProcessRegisterRequest, Refused, RepliesLater, Refuse, Reply, Errors
  <2> QED BY <2>1, NothingIsTyped
<1>7. Typed(ProcessSystemRequest(r))
  <2>1. Refused(ProcessSystemRequest(r)) \/ RepliesLater(ProcessSystemRequest(r))
    BY DEF ProcessSystemRequest, Refused, RepliesLater, Refuse, Reply, Errors
  <2> QED BY <2>1, NothingIsTyped
<1>8. Typed(Reply) /\ Typed(Refuse(404))
  <2>1. RepliesLater(Reply) /\ Refused(Refuse(404))
    BY DEF RepliesLater, Reply, Refused, Refuse
  <2> QED BY <2>1, NothingIsTyped
<1>9. Typed(Publish(200, <<>>, 0))
  <2>1. <<>> \in Seq(Mails) /\ HttpStatus(200) = 200
    BY DEF HttpStatus
  <2> QED BY <2>1 DEF Typed, Publish, Statuses
<1> QED BY <1>3, <1>4, <1>5, <1>6, <1>7, <1>8, <1>9 DEF Outcome

-----------------------------------------------------------------------------
(***************************************************************************)
(* The type invariant: the type of a request, and of all that a step of    *)
(* another request leaves alone.                                           *)
(***************************************************************************)
RequestType(r) ==
  /\ kind[r] \in Kinds[r] \cup {NoKind}
  /\ stage[r] \in {"new", "arrived", "body", "license", "reply", "failed",
                  "rejected", "poll", "websocket", "done"}
  /\ head[r] \in Statuses
  /\ socket[r] \in {"open", "closing", "gone"}
  /\ license[r] \in Licenses

TypesInv ==
  /\ cloudMode \in BOOLEAN
  /\ \A r \in Req : RequestType(r)
  /\ submitted \in Seq(Mails)
  /\ frames \in 0..MaxFrames /\ day \in 0..MaxDay

(* A step of request r: its type, and what is sent. *)
LEMMA OneTyped ==
  ASSUME TypesInv, NEW r \in Req, RequestType(r)',
         \A q \in Req : q # r =>
           /\ kind'[q] = kind[q] /\ stage'[q] = stage[q] /\ head'[q] = head[q]
           /\ socket'[q] = socket[q] /\ license'[q] = license[q],
         cloudMode' = cloudMode, day' = day,
         frames' \in 0..MaxFrames, submitted' \in Seq(Mails)
  PROVE  TypesInv'
BY DEF TypesInv, RequestType

LEMMA HandleTypes ==
  ASSUME TypesInv, Shape, Mail, NEW r \in Req, NEW lic, head[r] = 0, Parsed(r), Handle(r, lic)
  PROVE  /\ Handled(r) /\ submitted' \in Seq(Mails)
         /\ head'[r] \in Statuses /\ socket'[r] \in {"open", "closing", "gone"}
<1>1. Handled(r)
  BY HandleKeeps
<1>2. head[r] \in Statuses /\ socket[r] \in {"open", "closing", "gone"} /\ submitted \in Seq(Mails)
  BY DEF TypesInv, RequestType
<1>3. CASE kind[r].via = "upgrade"
  <2>1. submitted' = submitted
    BY <1>3 DEF Handle, HandleUpgrade, Upgrade
  <2>2. head' = head \/ head' = [head EXCEPT ![r] = 400]
    BY <1>3 DEF Handle, HandleUpgrade, Upgrade, WriteHead
  <2>3. socket'[r] \in {socket[r], "closing", "gone"}
    BY <1>3 DEF Handle, HandleUpgrade, Upgrade, Shape
  <2> QED BY <1>1, <1>2, <2>1, <2>2, <2>3 DEF Shape, Statuses
<1>4. CASE kind[r].via # "upgrade"
  <2>1. socket' = socket /\ (Subscribe(r) \/ Throw(r) \/ Do(r, Outcome(r, lic)))
    BY <1>4 DEF Handle
  <2>2. CASE Subscribe(r) \/ Throw(r)
    <3>1. submitted' = submitted /\ head' = head
      BY <2>2 DEF Subscribe, Throw
    <3> QED BY <1>1, <1>2, <2>1, <3>1
  <2>3. CASE Do(r, Outcome(r, lic))
    <3>1. PICK o : o = Outcome(r, lic)
      OBVIOUS
    <3>2. Typed(o) /\ Do(r, o)
      BY <2>3, <3>1, OutcomeIsTyped
    <3>3. submitted' = submitted \o o.publish /\ o.publish \in Seq(Mails)
      BY <3>2 DEF Do, Typed
    <3>4. head'[r] = IF o.code = 0 THEN 0 ELSE HttpStatus(o.code)
      BY <3>2 DEF Do, WriteHead, Shape
    <3>5. head'[r] \in Statuses
      BY <3>2, <3>4 DEF Typed, Statuses
    <3> QED BY <1>1, <1>2, <2>1, <3>3, <3>5
  <2> QED BY <2>1, <2>2, <2>3
<1> QED BY <1>3, <1>4

LEMMA BeginTypes ==
  ASSUME TypesInv, RequestsInv, PublishInv, NEW r \in Req, Begin(r),
         stage[r] = "arrived" \/ (stage[r] = "body" /\ ~OverLimit(r)),
         UNCHANGED <<cloudMode, kind, license, frames, day>>
  PROVE  TypesInv'
<1>1. head[r] = 0 /\ Parsed(r) /\ Shape /\ Mail
  BY DEF RequestsInv, OneHead, OverLimit, PublishInv, StageOf
<1>2. CASE Reject(r) \/ AskLicense(r)
  <2>1. UNCHANGED <<head, socket, submitted>>
    BY <1>2 DEF Reject, AskLicense
  <2>2. stage'[r] \in {"license", "rejected"} /\ \A q \in Req : q # r => stage'[q] = stage[q]
    BY <1>1, <1>2 DEF Reject, AskLicense, Shape
  <2> QED BY <2>1, <2>2, OneTyped DEF TypesInv, RequestType
<1>3. CASE Handle(r, "none")
  <2>1. /\ Handled(r) /\ submitted' \in Seq(Mails)
        /\ head'[r] \in Statuses /\ socket'[r] \in {"open", "closing", "gone"}
    BY <1>1, <1>3, HandleTypes
  <2>2. RequestType(r)'
    BY <2>1 DEF Handled, TypesInv, RequestType
  <2> QED BY <2>1, <2>2, OneTyped DEF Handled, TypesInv
<1> QED BY <1>2, <1>3 DEF Begin

LEMMA EventTypes ==
  ASSUME TypesInv, RequestsInv, NEW r \in Req,
         Arrive(r) \/ Data(r) \/ Answered(r) \/ Timeout(r) \/ ClientLeaves(r)
  PROVE  TypesInv'
<1>0. /\ RequestType(r) /\ submitted \in Seq(Mails) /\ frames \in 0..MaxFrames
      /\ Shape
  BY DEF TypesInv, RequestsInv
<1>1. CASE Arrive(r)
  <2>1. PICK k \in Kinds[r] : kind' = [kind EXCEPT ![r] = k]
    BY <1>1 DEF Arrive
  <2>2. /\ stage' = [stage EXCEPT ![r] = "arrived"]
        /\ UNCHANGED <<cloudMode, head, socket, license, submitted, frames, svars>>
    BY <1>1 DEF Arrive
  <2>3. RequestType(r)'
    BY <1>0, <2>1, <2>2 DEF RequestType, Shape
  <2> QED BY <1>0, <2>1, <2>2, <2>3, OneTyped DEF Shape, svars
<1>2. CASE Data(r)
  <2>1. UNCHANGED <<cloudMode, kind, stage, license, submitted, frames, svars>>
    BY <1>2 DEF Data
  <2>2. /\ head' = head \/ head' = [head EXCEPT ![r] = 413]
        /\ socket' = socket \/ socket' = [socket EXCEPT ![r] = "gone"]
    BY <1>2 DEF Data, WriteHead
  <2>3. RequestType(r)'
    BY <1>0, <2>1, <2>2 DEF RequestType, Shape, Statuses
  <2> QED BY <1>0, <2>1, <2>2, <2>3, OneTyped DEF Shape, svars
<1>3. CASE Answered(r)
  <2>1. /\ stage' = [stage EXCEPT ![r] = "done"]
        /\ head' = head \/ head' = [head EXCEPT ![r] = 200]
        /\ UNCHANGED <<cloudMode, kind, socket, license, submitted, frames, svars>>
    BY <1>3 DEF Answered, WriteHead
  <2>2. RequestType(r)'
    BY <1>0, <2>1 DEF RequestType, Shape, Statuses
  <2> QED BY <1>0, <2>1, <2>2, OneTyped DEF Shape, svars
<1>4. CASE Timeout(r)
  <2>1. /\ socket' = [socket EXCEPT ![r] = "gone"]
        /\ UNCHANGED <<cloudMode, kind, stage, head, license, submitted, frames, svars>>
    BY <1>4 DEF Timeout
  <2>2. RequestType(r)'
    BY <1>0, <2>1 DEF RequestType, Shape
  <2> QED BY <1>0, <2>1, <2>2, OneTyped DEF Shape, svars
<1>5. CASE ClientLeaves(r)
  <2>1. /\ socket' = [socket EXCEPT ![r] = "gone"]
        /\ stage' = [stage EXCEPT ![r] =
             IF @ \in {"arrived", "body", "poll", "websocket"} THEN "done" ELSE @]
        /\ UNCHANGED <<cloudMode, kind, head, license, submitted, frames, svars>>
    BY <1>5 DEF ClientLeaves
  <2>2. RequestType(r)'
    BY <1>0, <2>1 DEF RequestType, Shape
  <2> QED BY <1>0, <2>1, <2>2, OneTyped DEF Shape, svars
<1> QED BY <1>1, <1>2, <1>3, <1>4, <1>5

LEMMA NextTypes ==
  RequestsInv /\ PublishInv /\ TypesInv /\ [Next]_vars => TypesInv'
<1> SUFFICES ASSUME RequestsInv, PublishInv, TypesInv, [Next]_vars PROVE TypesInv'
  OBVIOUS
<1>1. ASSUME NEW r \in Req, Process(r) PROVE TypesInv'
  <2>1. /\ stage[r] = "arrived"
        /\ UNCHANGED <<cloudMode, kind, license, frames, day>>
    BY <1>1 DEF Process
  <2>2. CASE Begin(r)
    BY <2>1, <2>2, BeginTypes
  <2>3. CASE ~Begin(r)
    <3>1. stage' = [stage EXCEPT ![r] = "body"] /\ UNCHANGED <<head, socket, submitted>>
      BY <1>1, <2>3 DEF Process
    <3>2. stage'[r] = "body" /\ \A q \in Req : q # r => stage'[q] = stage[q]
      BY <3>1 DEF RequestsInv, Shape
    <3> QED BY <2>1, <3>1, <3>2, OneTyped DEF TypesInv, RequestType
  <2> QED BY <2>2, <2>3
<1>2. ASSUME NEW r \in Req, End(r) PROVE TypesInv'
  <2>1. /\ stage[r] = "body"
        /\ UNCHANGED <<cloudMode, kind, license, frames, day>>
    BY <1>2 DEF End
  <2>2. CASE bytes[r] > Limit(r)
    <3>1. stage' = [stage EXCEPT ![r] = "done"] /\ UNCHANGED <<head, socket, submitted>>
      BY <1>2, <2>2 DEF End
    <3>2. stage'[r] = "done" /\ \A q \in Req : q # r => stage'[q] = stage[q]
      BY <3>1 DEF RequestsInv, Shape
    <3> QED BY <2>1, <3>1, <3>2, OneTyped DEF TypesInv, RequestType
  <2>3. CASE ~(bytes[r] > Limit(r))
    <3>1. Begin(r) /\ ~OverLimit(r)
      BY <1>2, <2>3 DEF End, OverLimit
    <3> QED BY <2>1, <3>1, BeginTypes
  <2> QED BY <2>2, <2>3
<1>3. ASSUME NEW r \in Req, LicenseFound(r) PROVE TypesInv'
  <2>1. stage[r] = "license" /\ UNCHANGED <<cloudMode, kind, frames, day>>
    BY <1>3 DEF LicenseFound
  <2>2. PICK lic \in Licenses : Handle(r, lic) /\ license' = [license EXCEPT ![r] = lic]
    BY <1>3 DEF LicenseFound
  <2>3. head[r] = 0 /\ Parsed(r) /\ Shape /\ Mail /\ DOMAIN license = Req
    BY <2>1 DEF RequestsInv, OneHead, OverLimit, PublishInv, StageOf
  <2>4. /\ Handled(r) /\ submitted' \in Seq(Mails)
        /\ head'[r] \in Statuses /\ socket'[r] \in {"open", "closing", "gone"}
    BY <2>2, <2>3, HandleTypes
  <2>5. license'[r] = lic /\ \A q \in Req : q # r => license'[q] = license[q]
    BY <2>2, <2>3
  <2>6. RequestType(r)'
    BY <2>1, <2>4, <2>5 DEF Handled, TypesInv, RequestType
  <2> QED BY <2>1, <2>4, <2>5, <2>6, OneTyped DEF Handled, TypesInv
<1>4. ASSUME NEW r \in Req, Frame(r) PROVE TypesInv'
  <2>1. /\ stage[r] = "websocket" /\ frames < MaxFrames /\ frames' = frames + 1
        /\ UNCHANGED <<cloudMode, kind, stage, head, license, day>>
    BY <1>4 DEF Frame
  <2>2. PICK id : id = PubChannelId(ParseChannels(kind[r].channels, TRUE, license[r]))
    OBVIOUS
  <2>3. PICK body \in Frames :
          submitted' = submitted \o ProcessClientRequest(r, body, id, FALSE, license[r]).publish
    BY <1>4, <2>2 DEF Frame
  <2>4. socket'[r] \in {socket[r], "closing"} /\ \A q \in Req : q # r => socket'[q] = socket[q]
    BY <1>4 DEF Frame, RequestsInv, Shape
  <2>5. PICK o : o = ProcessClientRequest(r, body, id, FALSE, license[r])
    OBVIOUS
  <2>6. id \in STRING \cup {NoId}
    <3>1. kind[r].channels \in Seq(Channel)
      BY <2>1 DEF PublishInv, StageOf, Parsed
    <3> QED BY <2>2, <3>1, ParsedChannels, PublicIdIsString
  <2>7. Typed(o)
    <3>1. Decoded(body)
      BY RequestsAssumption
    <3>2. Batch(o, r, body, FALSE, id, license[r])
      BY <2>5, <3>1, ClientForm
    <3> QED BY <2>6, <3>1, <3>2, BatchIsTyped
  <2>8. submitted' \in Seq(Mails)
    <3>1. submitted' = submitted \o o.publish
      BY <2>3, <2>5
    <3>2. submitted \in Seq(Mails) /\ o.publish \in Seq(Mails)
      BY <2>7 DEF Typed, TypesInv
    <3> QED BY <3>1, <3>2
  <2>9. frames' \in 0..MaxFrames
    BY <2>1, RequestsAssumption DEF TypesInv
  <2>10. RequestType(r)'
    BY <2>1, <2>4 DEF TypesInv, RequestType
  <2> QED BY <2>1, <2>4, <2>8, <2>9, <2>10, OneTyped
<1>5. CASE Midnight
  <2>1. day < MaxDay /\ day' = day + 1 /\ UNCHANGED <<cloudMode, rvars, submitted, frames>>
    BY <1>5 DEF Midnight
  <2> QED BY <2>1, RequestsAssumption DEF TypesInv, RequestType, rvars
<1>6. CASE Report \/ Exit \/ UNCHANGED vars
  BY <1>6 DEF Report, Exit, vars, svars, rvars, TypesInv, RequestType
<1> QED BY <1>1, <1>2, <1>3, <1>4, <1>5, <1>6, EventTypes DEF Next, Step

(***************************************************************************)
(* Every variable has its type, whatever requests and frames carry: an     *)
(* answer has one of the four statuses of the service, a message for the   *)
(* storage the form the storage expects, and the routes of the server are  *)
(* all added - if no two of a method have the same path, without which     *)
(* the server does not start.                                              *)
(***************************************************************************)
THEOREM RequestsTypes ==
  ASSUME DistinctPaths
  PROVE  Spec => []TypeOK
<1>1. Init => TypesInv /\ CountsOfToday
  <2> SUFFICES ASSUME Init PROVE TypesInv /\ CountsOfToday
    OBVIOUS
  <2>1. cloudMode \in BOOLEAN
    BY DEF Init, CloudMode
  <2>2. submitted \in Seq(Mails)
    <3>1. submitted = <<>>
      BY DEF Init
    <3>2. <<>> \in Seq(Mails)
      OBVIOUS
    <3> QED BY <3>1, <3>2
  <2>3. \A r \in Req : RequestType(r)
    BY DEF Init, RequestType, Statuses, Licenses
  <2>4. frames \in 0..MaxFrames /\ day \in 0..MaxDay
    <3>1. frames = 0 /\ day = 0
      BY DEF Init
    <3> QED BY <3>1, RequestsAssumption
  <2>5. /\ counts = [day |-> 0, requests |-> 0, messages |-> 0] /\ day = 0
        /\ today = [requests |-> 0, messages |-> 0]
    BY DEF Init
  <2>6. DOMAIN counts = {"day", "requests", "messages"}
    BY <2>5
  <2>7. CountsOfToday
    BY <2>5, <2>6 DEF CountsOfToday
  <2> QED BY <2>1, <2>2, <2>3, <2>4, <2>7 DEF TypesInv
<1>2. RequestsInv /\ TypesInv /\ CountsOfToday => TypeOK
  <2> SUFFICES ASSUME RequestsInv, TypesInv, CountsOfToday PROVE TypeOK
    OBVIOUS
  <2>1. Routes.ok
    BY RoutesAreAdded
  <2>2. \A r \in Req : bytes[r] \in Nat
    BY DEF RequestsInv, Shape
  <2>3. process \in {"running", "exiting", "exited"}
    BY DEF RequestsInv, Shape
  <2>4. counts.day \in 0..day
    BY DEF CountsOfToday
  <2> QED BY <2>1, <2>2, <2>3, <2>4 DEF TypeOK, TypesInv, RequestType, Statuses
<1> QED BY <1>1, <1>2, NextTypes, CountsStep, RequestsInvariant, PublishInvariant, PTL DEF Spec
=============================================================================
