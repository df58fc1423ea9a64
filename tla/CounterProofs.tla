--------------------------- MODULE CounterProofs ---------------------------
(***************************************************************************)
(* A counter that is only incremented with compare-and-set counts every    *)
(* increment once, for every number of clients, nodes, proxies and         *)
(* attempts.                                                               *)
(*                                                                         *)
(* The value of the counter is its version.  A write carries one more than *)
(* the version it is guarded by, or 1 if it is guarded by absence, and     *)
(* takes effect only where that guard holds; so the next value is again    *)
(* the next version.  It does not matter on which side of a crash the      *)
(* version was read.                                                       *)
(*                                                                         *)
(* So the counter is as long as its log, and each client's part of the log *)
(* is accounted for: what was acknowledged is in it (Done), and what is in *)
(* it, or may still come, was acknowledged or left open (Possible).  The   *)
(* last section adds this up over the clients.                             *)
(***************************************************************************)
EXTENDS Counter, ClusterProofs

\* A request of the loop: a read, or a write of the version it makes.
Increment(r) ==
    /\ r.key = counter
    /\ \/ r.method = "GET"
       \/ /\ r.method = "PUT"
          /\ \/ r.ifVersion = <<>> /\ r.ifAbsent = <<TRUE>> /\ r.body = 1
             \/ \E v \in Nat : r.ifVersion = <<v>> /\ r.ifAbsent = <<>> /\ r.body = v + 1

\* An answer with a value has the version as its value.
Tally(ans) == ans.status = 200 /\ ans.whole => ans.version \in Nat /\ ans.value = ans.version

\* The value of the counter is its version.
Counting ==
    /\ \A n \in NodeID : db[n][counter] # Absent => db[n][counter].value = db[n][counter].version
    /\ \A m \in msgs : Increment(m.req) /\ (m.at = "back" => Tally(m.ans))
    /\ \A c \in Client : Tally(got[c])

KInv == CInv /\ plan \in Plans /\ Counting
-----------------------------------------------------------------------------
\* The requests of the loop are requests a client can make.
LEMMA LoopRequests ==
    ASSUME Nat \subseteq Value
    PROVE  /\ Request("GET", 0, <<>>, <<>>) \in Requests
           /\ Increment(Request("GET", 0, <<>>, <<>>))
           /\ Request("PUT", 1, <<>>, <<TRUE>>) \in Requests
           /\ Increment(Request("PUT", 1, <<>>, <<TRUE>>))
           /\ \A v \in Nat : /\ Request("PUT", v + 1, <<v>>, <<>>) \in Requests
                             /\ Increment(Request("PUT", v + 1, <<v>>, <<>>))
<1>1. PICK B, V, W : /\ B = Value \cup TooLarge \cup NotJSON /\ V = Seq(Nat \cup {Bad})
                     /\ W = Seq(BOOLEAN \cup {Bad})
  OBVIOUS
<1>2. Requests = [method : STRING, key : Key, body : B, ifVersion : V, ifAbsent : W]
  BY <1>1 DEF Requests
<1>3. counter \in Key /\ \A v \in Nat : v \in B
  BY <1>1, CounterAssumption
<1>4. <<>> \in V /\ <<>> \in W
  BY <1>1
<1>5. <<TRUE>> \in W
  <2>1. TRUE \in BOOLEAN \cup {Bad}
    OBVIOUS
  <2> QED BY <1>1, <2>1, ShortLists, Zenon
<1>6. \A v \in Nat : <<v>> \in V
  <2>1. \A v \in Nat : v \in Nat \cup {Bad}
    OBVIOUS
  <2> QED BY <1>1, <2>1, ShortLists, Zenon
<1>7. PICK w \in W : w = <<TRUE>>
  BY <1>5, Zenon
<1>8. ASSUME NEW b \in Nat, NEW v \in V, NEW u \in W
      PROVE  Request("GET", b, v, u) \in Requests /\ Request("PUT", b, v, u) \in Requests
  <2>1. b \in B /\ counter \in Key
    BY <1>3
  <2>2. \A t \in STRING : Request(t, b, v, u) \in Requests
    BY <1>2, <2>1 DEF Request
  <2>3. "GET" \in STRING /\ "PUT" \in STRING
    BY CounterAssumption DEF Methods
  <2> QED BY <2>2, <2>3, Zenon
<1>9. /\ Request("GET", 0, <<>>, <<>>) \in Requests /\ Increment(Request("GET", 0, <<>>, <<>>))
  <2>1. 0 \in Nat
    OBVIOUS
  <2>2. Increment(Request("GET", 0, <<>>, <<>>))
    BY DEF Request, Increment
  <2> QED BY <1>4, <1>8, <2>1, <2>2, Zenon
<1>10. /\ Request("PUT", 1, <<>>, <<TRUE>>) \in Requests
       /\ Increment(Request("PUT", 1, <<>>, <<TRUE>>))
  <2>1. 1 \in Nat
    OBVIOUS
  <2>2. /\ Request("PUT", 1, <<>>, w).key = counter
        /\ Request("PUT", 1, <<>>, w).method = "PUT" /\ Request("PUT", 1, <<>>, w).body = 1
        /\ Request("PUT", 1, <<>>, w).ifVersion = <<>> /\ Request("PUT", 1, <<>>, w).ifAbsent = w
    BY DEF Request
  <2> QED BY <1>4, <1>7, <1>8, <2>1, <2>2, Zenon DEF Increment
<1>11. ASSUME NEW v \in Nat
       PROVE  /\ Request("PUT", v + 1, <<v>>, <<>>) \in Requests
              /\ Increment(Request("PUT", v + 1, <<v>>, <<>>))
  <2>1. v + 1 \in Nat
    OBVIOUS
  <2>2. Increment(Request("PUT", v + 1, <<v>>, <<>>))
    BY DEF Request, Increment
  <2> QED BY <1>4, <1>6, <1>8, <2>1, <2>2, Zenon
<1> QED BY <1>9, <1>10, <1>11

\* A write of the loop is one more than the version it meets.
LEMMA GuardedBody ==
    ASSUME NEW x \in Entries, NEW r \in Requests, Increment(r), r.method # "GET",
           ~GuardFails(x, Call(r))
    PROVE  r.body = x.version + 1 /\ Call(r).mode = "replace" /\ Call(r).body = r.body
<1>0. x.version \in Nat /\ (x.version = 0 <=> x = Absent) /\ Nil \notin Nat
  BY AfterIsEntry, ClusterAssumption
<1>1. /\ Call(r).ifAbsent = IfAbsent(r) /\ Call(r).ifVersion = IfVersion(r)
      /\ Call(r).mode = "replace" /\ Call(r).body = r.body
  BY DEF Call, Mode, Increment
<1>2. CASE r.ifVersion = <<>> /\ r.ifAbsent = <<TRUE>> /\ r.body = 1
  <2>1. IfAbsent(r)
    BY <1>2 DEF IfAbsent
  <2> QED BY <1>0, <1>1, <1>2, <2>1 DEF GuardFails
<1>3. ASSUME NEW v \in Nat, r.ifVersion = <<v>>, r.body = v + 1 PROVE r.body = x.version + 1
  <2>1. IfVersion(r) = v
    BY <1>3 DEF IfVersion
  <2> QED BY <1>0, <1>1, <1>3, <2>1 DEF GuardFails
<1> QED BY <1>1, <1>2, <1>3 DEF Increment

\* Where the value is the version, a node that handles a request of the loop adds one or
\* nothing, and what it answers is as it should be.
LEMMA HandledIncrement ==
    ASSUME NEW nd, NEW count, NEW x \in Entries, NEW r \in Requests, Increment(r),
           x # Absent => x.value = x.version,
           NEW y, y = After(nd, x, r, count), NEW ans, ans = Respond(nd, x, r, count)
    PROVE  /\ y # x => y # Absent /\ y.value = y.version /\ Num(y) = Num(x) + 1
           /\ y # Absent => y.value = y.version
           /\ Tally(ans)
<1>0. /\ x.version \in Nat /\ (x.version = 0 <=> x = Absent) /\ y \in Entries
      /\ y # x => /\ Accepts(nd, r, count) /\ r.method # "GET" /\ ~GuardFails(x, Call(r))
                  /\ y.version = x.version + 1
      /\ ans.status = 200 => Accepts(nd, r, count)
      /\ ans.status = 200 => IF r.method = "GET" THEN x # Absent ELSE y # x
  BY AfterIsEntry, RespondCases
<1>1. CASE y = x /\ r.method # "GET"
  BY <1>0, <1>1 DEF Tally
<1>2. CASE r.method = "GET"
  <2>1. ASSUME ans.status = 200 PROVE ans = Answer(200, x.value, x.version)
    <3>1. Call(r).kind = "get"
      BY <1>2 DEF Call
    <3> QED BY <1>0, <1>2, <2>1, <3>1 DEF Respond, Outcome, Result
  <2> QED BY <1>0, <1>2, <2>1 DEF Tally, Answer
<1>3. CASE y # x
  <2>1. /\ r.body = x.version + 1 /\ Call(r).mode = "replace" /\ Call(r).body = r.body
        /\ Call(r).kind = "write" /\ ~ConflictingGuards(Call(r))
    BY <1>0, <1>3, GuardedBody, AcceptedWrite
  <2>2. y = Written(x, Call(r)) /\ ans = Answer(200, Written(x, Call(r)).value, Written(x, Call(r)).version)
    BY <1>0, <1>3, <2>1 DEF After, Effect, Respond, Outcome, Result
  <2>3. Written(x, Call(r)).value = x.version + 1 /\ Written(x, Call(r)).version = x.version + 1
    BY <1>0, <2>1 DEF Written, Compute, FirstVersion
  <2>4. y.value = x.version + 1 /\ y.version = x.version + 1 /\ y # Absent
    BY <1>0, <2>2, <2>3 DEF Absent
  <2>5. Num(y) = x.version + 1 /\ Num(x) = x.version
    BY <1>0, <2>4 DEF Num
  <2> QED BY <1>0, <2>2, <2>3, <2>4, <2>5 DEF Tally, Answer
<1> QED BY <1>1, <1>2, <1>3

\* Every answer that nobody computed, or that was cut, has no value.
LEMMA NoTally ==
    /\ Tally(NoAnswer) /\ Tally(Unavailable) /\ Tally(Waiting) /\ Tally(Bare(405))
    /\ \A a \in Replies : Tally([Bare(a.status) EXCEPT !.whole = FALSE])
<1>1. Tally(NoAnswer) /\ Tally(Unavailable) /\ Tally(Waiting) /\ Tally(Bare(405))
  BY DEF Tally, NoAnswer, Unavailable, Waiting, Bare, Answer
<1>2. \A a \in Replies : Tally([Bare(a.status) EXCEPT !.whole = FALSE])
  BY CutReply DEF Tally
<1> QED BY <1>1, <1>2

\* A client that asks something of the loop keeps the invariant.
LEMMA AskKeeps ==
    ASSUME KInv, NEW c \in Client, NEW r \in Requests, Increment(r),
           Submit(c, plan.entrance[c], r), UNCHANGED plan
    PROVE  KInv'
<1>1. plan.entrance[c] \in NodeID \cup ProxyID
  BY CounterAssumption DEF KInv
<1>2. CInv'
  BY <1>1, SubmitKeeps DEF KInv
<1>3. got \in [Client -> Replies \cup {Waiting}]
  BY DEF KInv, CInv, Types
<1>4. UNCHANGED db /\ \A d \in Client : got'[d] = got[d] \/ got'[d] \in {Waiting, NoAnswer}
  BY <1>3 DEF Submit
<1>5. \A x \in msgs' : x \in msgs \/ (x.req = r /\ x.at # "back")
  BY DEF Submit
<1>6. Counting'
  <2>1. \A x \in msgs' : Increment(x.req) /\ (x.at = "back" => Tally(x.ans))
    BY <1>5 DEF KInv, Counting
  <2>2. \A d \in Client : Tally(got'[d])
    BY <1>4, NoTally DEF KInv, Counting
  <2> QED BY <1>4, <2>1, <2>2 DEF KInv, Counting, Increment, Tally
<1> QED BY <1>2, <1>6 DEF KInv

\* What happens to requests under way, and to nodes, keeps the counter's value its
\* version.
LEMMA ClusterCounts ==
    ASSUME KInv, NEW S \in SUBSET NodeID, Progress \/ Failures \/ Crashes(S) PROVE Counting'
<1>0. CInv /\ Counting /\ Types /\ counter \in Key /\ msgs \subseteq Messages
  BY CounterAssumption DEF KInv, CInv, Types
<1>1. ASSUME UNCHANGED db,
             \A x \in msgs' : \E m \in msgs : /\ x.req = m.req
                                              /\ x.at = "back" => (m.at = "back" /\ x.ans = m.ans) \/ Tally(x.ans),
             \A c \in Client : got'[c] = got[c] \/ Tally(got'[c])
      PROVE  Counting'
  <2>1. \A x \in msgs' : Increment(x.req) /\ (x.at = "back" => Tally(x.ans))
    BY <1>0, <1>1 DEF Counting
  <2>2. \A c \in Client : Tally(got'[c])
    BY <1>0, <1>1 DEF Counting
  <2> QED BY <1>0, <1>1, <2>1, <2>2 DEF Counting, Increment, Tally
<1>2. ASSUME NEW x \in Messages, NEW a \in {NoAnswer, Unavailable, Bare(405)}
      PROVE  Back(x, a).req = x.req /\ Back(x, a).ans = a /\ Tally(a)
  <2>1. a \in Replies
    BY BareReplies
  <2> QED BY <2>1, SentBack, NoTally
<1>3. ASSUME NEW m \in msgs, Forward(m) PROVE Counting'
  <2>1. PICK new : /\ Becomes(m, new)
                   /\ \/ new = Back(m, Bare(405)) \/ new = Back(m, Unavailable)
                      \/ new = At(m, "node", Target(m))
    BY <1>3 DEF Forward, MethodNotAllowed
  <2>2. At(m, "node", Target(m)).at = "node" /\ At(m, "node", Target(m)).req = m.req
    BY <1>0 DEF At, Messages
  <2>3. new.req = m.req /\ (new.at = "back" => Tally(new.ans))
    BY <1>0, <1>2, <2>1, <2>2
  <2>4. \A x \in msgs' : x \in msgs \/ x = new
    BY <2>1 DEF Becomes
  <2> QED BY <1>1, <1>3, <2>3, <2>4 DEF Forward
<1>4. ASSUME NEW m \in msgs, TimeOut(m) PROVE Counting'
  <2>1. \A x \in msgs' : x \in msgs \/ x = Back(m, Unavailable)
                         \/ (x = [m EXCEPT !.open = FALSE] /\ x.at = "node")
    BY <1>4 DEF TimeOut
  <2>2. [m EXCEPT !.open = FALSE].req = m.req
    BY <1>0, Closed
  <2>3. Back(m, Unavailable).req = m.req /\ Tally(Back(m, Unavailable).ans)
    BY <1>0, <1>2
  <2> QED BY <1>1, <1>4, <2>1, <2>2, <2>3 DEF TimeOut
<1>5. ASSUME NEW m \in msgs, NEW c \in Client, NEW ans, Tally(ans), Receive(c, m, ans)
      PROVE  Counting'
  <2>1. UNCHANGED db /\ msgs' \subseteq msgs /\ \A d \in Client : got'[d] = got[d] \/ got'[d] = ans
    BY <1>0, <1>5 DEF Receive, Types
  <2> QED BY <1>1, <1>5, <2>1
<1>6. ASSUME NEW m \in msgs, NEW c \in Client, Deliver(c, m) PROVE Counting'
  <2>1. Tally(m.ans)
    BY <1>0, <1>6 DEF Counting, Deliver, Receive
  <2> QED BY <1>5, <1>6, <2>1 DEF Deliver
<1>7. ASSUME NEW m \in msgs, NEW c \in Client, DeliverCut(c, m) PROVE Counting'
  <2>1. m.ans \in Replies
    BY <1>0, <1>7 DEF DeliverCut, Receive, CInv, MessagesSound, Underway
  <2>2. Tally([Bare(m.ans.status) EXCEPT !.whole = FALSE])
    BY <2>1, NoTally
  <2> QED BY <1>5, <1>7, <2>2 DEF DeliverCut
<1>8. ASSUME NEW c \in Client, GiveUp(c) PROVE Counting'
  <2>1. \A x \in msgs' : \E m \in msgs : x = m \/ (x = [m EXCEPT !.open = FALSE] /\ m.at # "back")
    BY <1>8 DEF GiveUp
  <2>2. \A m \in msgs : [m EXCEPT !.open = FALSE].req = m.req /\ [m EXCEPT !.open = FALSE].at = m.at
    BY <1>0, Closed
  <2>3. \A d \in Client : got'[d] = got[d] \/ got'[d] = NoAnswer
    BY <1>0, <1>8 DEF GiveUp, Types
  <2>4. UNCHANGED db /\ \A d \in Client : got'[d] = got[d] \/ Tally(got'[d])
    BY <1>8, <2>3, NoTally DEF GiveUp
  <2>5. \A x \in msgs' : \E m \in msgs : x.req = m.req /\ (x.at = "back" => m.at = "back" /\ x.ans = m.ans)
    BY <2>1, <2>2
  <2> QED BY <1>1, <2>4, <2>5
<1>9. ASSUME NEW n \in NodeID, Shutdown(n) \/ Restart(n) PROVE Counting'
  BY <1>1, <1>9 DEF Shutdown, Restart
<1>10. ASSUME NEW n \in NodeID, Crash(n) PROVE Counting'
  <2>1. \A x \in msgs' : x \in msgs \/ \E m \in msgs : x = Back(m, Failure(m))
    BY <1>10 DEF Crash
  <2>2. \A m \in msgs : Back(m, Failure(m)).req = m.req /\ Tally(Back(m, Failure(m)).ans)
    BY <1>0, <1>2 DEF Failure
  <2>3. \A l \in NodeID : db'[l][counter] = db[l][counter] \/ db'[l][counter] = Absent
    BY <1>0, <1>10 DEF Crash, Types, EmptyStore
  <2>4. \A x \in msgs' : Increment(x.req) /\ (x.at = "back" => Tally(x.ans))
    BY <1>0, <2>1, <2>2 DEF Counting
  <2> QED BY <1>0, <1>10, <2>3, <2>4 DEF Counting, Increment, Tally, Crash
<1>11. ASSUME NEW m \in msgs, Handle(m) PROVE Counting'
  <2>1. Increment(m.req) /\ m \in Messages /\ m.req \in Requests /\ Underway(m) /\ m.at = "node"
    BY <1>0, <1>11 DEF Counting, Messages, CInv, MessagesSound, Handle
  <2>2. PICK n, x, y, ans :
          /\ n \in NodeID /\ x \in Entries
          /\ n = m.node /\ m.req.key = counter /\ x = db[n][counter]
          /\ y = After(NodeConf[n], x, m.req, CountHeader(m))
          /\ ans = Respond(NodeConf[n], x, m.req, CountHeader(m))
    BY <1>0, <2>1 DEF Underway, Types, Increment
  <2>3. /\ db' = [db EXCEPT ![n][counter] = y] /\ Becomes(m, Back(m, ans)) /\ UNCHANGED got
    BY <1>11, <2>2 DEF Handle
  <2>4. (y # Absent => y.value = y.version) /\ Tally(ans)
    BY <1>0, <2>1, <2>2, HandledIncrement DEF Counting
  <2>5. ans \in Replies
    BY <2>1, <2>2, RespondCases, BareReplies
  <2>6. Back(m, ans).req = m.req /\ Back(m, ans).ans = ans
    BY <2>1, <2>5, SentBack
  <2>7. \A z \in msgs' : z \in msgs \/ z = Back(m, ans)
    BY <2>3 DEF Becomes
  <2>8. \A z \in msgs' : Increment(z.req) /\ (z.at = "back" => Tally(z.ans))
    BY <1>0, <2>1, <2>4, <2>6, <2>7 DEF Counting
  <2>9. \A l \in NodeID : db'[l][counter] = db[l][counter] \/ (db'[l][counter] = y)
    BY <1>0, <2>3 DEF Types
  <2> QED BY <1>0, <2>3, <2>4, <2>8, <2>9 DEF Counting, Increment, Tally
<1> QED BY <1>3, <1>4, <1>6, <1>7, <1>8, <1>9, <1>10, <1>11 DEF Progress, Failures, Crashes

\* Every step keeps the invariant.
LEMMA NextKInv ==
    ASSUME Nat \subseteq Value PROVE KInv /\ [CounterNext]_allVars => KInv'
<1> SUFFICES ASSUME KInv, [CounterNext]_allVars PROVE KInv'
  OBVIOUS
<1>1. CASE UNCHANGED <<vars, plan>>
  <2>1. UNCHANGED <<db, up, msgs, sent, req, got, log, since, plan>>
    BY <1>1 DEF vars
  <2>2. Types' /\ MessagesSound' /\ OneEach' /\ Heard'
    BY <2>1 DEF KInv, CInv, Types, MessagesSound, Underway, Current, OneEach, Same, MayApply,
                Heard, Id
  <2>3. LogSound' /\ NotYet' /\ Distinct' /\ Counted'
    BY <2>1 DEF KInv, CInv, LogSound, NotYet, InLog, MayApply, Distinct, Counted
  <2>4. Counting'
    BY <2>1 DEF KInv, Counting, Increment, Tally
  <2> QED BY <2>1, <2>2, <2>3, <2>4 DEF KInv, CInv
<1>2. CASE (Progress \/ Failures \/ Crashes(plan.crashes)) /\ UNCHANGED plan
  <2>1. plan.crashes \in SUBSET NodeID
    BY CounterAssumption DEF KInv
  <2>2. CInv' /\ Counting'
    BY <1>2, <2>1, ClusterKeeps, ClusterCounts DEF KInv
  <2> QED BY <1>2, <2>2 DEF KInv
<1>3. ASSUME NEW c \in Client, Get(c) \/ PutIfAbsent(c), UNCHANGED plan PROVE KInv'
  BY <1>3, LoopRequests, AskKeeps DEF Get, PutIfAbsent, Do
<1>4. ASSUME NEW c \in Client, got[c].status = 200, got[c].whole, UNCHANGED plan,
             PutIfVersion(c, got[c].value + 1, got[c].version)
      PROVE  KInv'
  <2>1. PICK v \in Nat : v = got[c].version /\ v = got[c].value
    BY <1>4 DEF KInv, Counting, Tally
  <2>2. Submit(c, plan.entrance[c], Request("PUT", v + 1, <<v>>, <<>>))
    BY <1>4, <2>1 DEF PutIfVersion, Do
  <2> QED BY <1>4, <2>2, LoopRequests, AskKeeps
<1>5. ASSUME NEW c \in Client, Begin(c) \/ AfterGet(c) \/ AfterPut(c), UNCHANGED plan
      PROVE  KInv'
  <2>1. CASE Begin(c)
    BY <1>3, <1>5, <2>1 DEF Begin
  <2>2. CASE AfterGet(c)
    BY <1>1, <1>3, <1>4, <1>5, <2>2 DEF AfterGet, Finish
  <2>3. CASE AfterPut(c)
    BY <1>1, <1>3, <1>5, <2>3 DEF AfterPut, Finish
  <2> QED BY <1>5, <2>1, <2>2, <2>3
<1>6. CASE UNCHANGED allVars
  BY <1>1, <1>6 DEF allVars
<1> QED BY <1>2, <1>5, <1>6 DEF CounterNext

LEMMA InitKInv == CounterInit => KInv
<1> SUFFICES ASSUME CounterInit PROVE KInv
  OBVIOUS
<1>1. CInv
  BY InitCInv DEF CounterInit
<1>2. Counting
  BY CounterAssumption, NoTally DEF CounterInit, Init, EmptyStore, Counting
<1> QED BY <1>1, <1>2 DEF KInv, CounterInit

\* The value of the counter is its version, in every reachable state.
LEMMA CounterInvariance == ASSUME Nat \subseteq Value PROVE CounterSpec => []KInv
<1>1. KInv /\ [CounterNext]_allVars => KInv'
  BY NextKInv
<1> QED BY <1>1, InitKInv, PTL DEF CounterSpec

\* Only a handler writes, and only a crash takes away.
LEMMA WhoWrites ==
    ASSUME KInv, [CounterNext]_allVars, NEW n \in NodeID, db'[n][counter] # db[n][counter]
    PROVE  (\E m \in msgs : Handle(m)) \/ Crash(n)
<1>0. counter \in Key /\ Types
  BY CounterAssumption DEF KInv, CInv
<1>1. ASSUME NEW l \in NodeID, Crash(l) PROVE l = n
  BY <1>0, <1>1 DEF Crash, Types
<1>2. ASSUME NEW l \in NodeID, Shutdown(l) \/ Restart(l) PROVE UNCHANGED db
  BY <1>2 DEF Shutdown, Restart
<1>3. ASSUME Failures PROVE UNCHANGED db
  BY <1>3 DEF Failures, TimeOut, DeliverCut, Receive, GiveUp
<1>4. ASSUME NEW m \in msgs, Forward(m) PROVE UNCHANGED db
  BY <1>4 DEF Forward
<1>5. ASSUME NEW m \in msgs, NEW c \in Client, Deliver(c, m) PROVE UNCHANGED db
  BY <1>5 DEF Deliver, Receive
<1>6. ASSUME NEW c \in Client, Begin(c) \/ AfterGet(c) \/ AfterPut(c) PROVE UNCHANGED db
  BY <1>6 DEF Begin, AfterGet, AfterPut, Get, PutIfAbsent, PutIfVersion, Do, Submit, Finish, vars
<1>7. CASE UNCHANGED allVars
  BY <1>7 DEF allVars, vars
<1>8. plan.crashes \subseteq NodeID
  BY CounterAssumption DEF KInv
<1> QED BY <1>1, <1>2, <1>3, <1>4, <1>5, <1>6, <1>7, <1>8 DEF CounterNext, Progress, Crashes

\* Every write of the counter adds one to what it finds, whoever makes it and however
\* late it arrives, and only the crash of a node takes anything away.  Every number is
\* a value that can be stored.
THEOREM EveryWriteAddsOne == ASSUME Nat \subseteq Value PROVE CounterSpec => AddsOne
<1>1. ASSUME KInv, [CounterNext]_allVars, NEW n \in NodeID, db'[n][counter] # db[n][counter]
      PROVE  IF up'[n] # "down" THEN Num(db'[n][counter]) = Num(db[n][counter]) + 1
             ELSE db'[n][counter] = Absent
  <2>0. CInv /\ Counting /\ Types /\ counter \in Key
    BY <1>1, CounterAssumption DEF KInv, CInv
  <2>1. CASE Crash(n)
    BY <2>0, <2>1 DEF Crash, Types, EmptyStore
  <2>2. ASSUME NEW m \in msgs, Handle(m)
        PROVE  up'[n] # "down" /\ Num(db'[n][counter]) = Num(db[n][counter]) + 1
    <3>1. Increment(m.req) /\ m \in Messages /\ m.req \in Requests /\ Underway(m) /\ m.at = "node"
      BY <2>0, <2>2 DEF Counting, Types, Messages, CInv, MessagesSound, Handle
    <3>2. PICK l, x, y :
            /\ l \in NodeID /\ x \in Entries
            /\ l = m.node /\ m.req.key = counter /\ x = db[l][counter]
            /\ y = After(NodeConf[l], x, m.req, CountHeader(m))
      BY <2>0, <3>1 DEF Underway, Types, Increment
    <3>3. db' = [db EXCEPT ![l][counter] = y] /\ UNCHANGED up /\ up[l] # "down"
      BY <2>2, <3>2 DEF Handle
    <3>4. l = n /\ db'[n][counter] = y
      BY <1>1, <2>0, <3>3 DEF Types
    <3>5. y # x => Num(y) = Num(x) + 1
      BY <2>0, <3>1, <3>2, HandledIncrement DEF Counting
    <3> QED BY <1>1, <3>2, <3>3, <3>4, <3>5
  <2> QED BY <1>1, <2>1, <2>2, WhoWrites
<1>2. KInv /\ [CounterNext]_allVars =>
        [\A n \in NodeID : db'[n][counter] # db[n][counter] =>
           IF up'[n] # "down" THEN Num(db'[n][counter]) = Num(db[n][counter]) + 1
           ELSE db'[n][counter] = Absent]_allVars
  BY <1>1
<1> QED BY <1>2, CounterInvariance, PTL DEF CounterSpec, AddsOne
-----------------------------------------------------------------------------
(* Sums over the clients, as Sum computes them: client by client.          *)

Pick(s) == CHOOSE c \in s : TRUE
Adds(f, g) == g = [s \in SUBSET Client |->
                     IF s = {} THEN 0 ELSE f[Pick(s)] + g[s \ {Pick(s)}]]

\* The sets of at most n clients, and sums over these.
Small(n) == {s \in SUBSET Client : Cardinality(s) <= n}
AddsTo(f, g, n) ==
    /\ g \in [Small(n) -> Nat] /\ g[{}] = 0
    /\ \A s \in Small(n) : s # {} => g[s] = f[Pick(s)] + g[s \ {Pick(s)}]

\* A set of clients is finite, and one client fewer is one fewer.
LEMMA FewerClients ==
    ASSUME NEW s \in SUBSET Client
    PROVE  /\ IsFiniteSet(s) /\ Cardinality(s) \in Nat /\ Cardinality(s) <= Cardinality(Client)
           /\ s = {} <=> Cardinality(s) = 0
           /\ s # {} => /\ Pick(s) \in s /\ s \ {Pick(s)} \in SUBSET Client
                        /\ Cardinality(s \ {Pick(s)}) = Cardinality(s) - 1
<1>1. IsFiniteSet(s) /\ Cardinality(s) <= Cardinality(Client)
  BY CounterAssumption, FS_Subset
<1>2. Cardinality(s) \in Nat /\ (s = {} <=> Cardinality(s) = 0)
  BY <1>1, FS_CardinalityType, FS_EmptySet
<1>3. ASSUME s # {} PROVE Pick(s) \in s
  BY <1>3 DEF Pick
<1>4. ASSUME s # {} PROVE Cardinality(s \ {Pick(s)}) = Cardinality(s) - 1
  BY <1>1, <1>3, <1>4, FS_RemoveElement
<1> QED BY <1>1, <1>2, <1>3, <1>4

\* The sum over one client more.
LEMMA OneMore ==
    ASSUME NEW f \in [Client -> Nat], NEW n \in Nat, NEW g, AddsTo(f, g, n)
    PROVE  \E h : AddsTo(f, h, n + 1)
<1>1. PICK h : h = [s \in Small(n + 1) |-> IF s \in Small(n) THEN g[s]
                                          ELSE f[Pick(s)] + g[s \ {Pick(s)}]]
  OBVIOUS
<1>2. {} \in Small(n) /\ Small(n) \subseteq Small(n + 1)
  <2>1. {} \in SUBSET Client /\ Cardinality({}) <= n
    BY FS_EmptySet
  <2>2. ASSUME NEW s \in SUBSET Client, Cardinality(s) <= n PROVE Cardinality(s) <= n + 1
    <3>1. Cardinality(s) \in Nat
      BY FewerClients
    <3> QED BY <2>2, <3>1
  <2> QED BY <2>1, <2>2 DEF Small
<1>3. ASSUME NEW s \in Small(n + 1), s # {}
      PROVE  s \ {Pick(s)} \in Small(n) /\ Pick(s) \in Client
  <2>1. s \in SUBSET Client /\ Cardinality(s) <= n + 1
    BY DEF Small
  <2>2. /\ Cardinality(s) \in Nat /\ Pick(s) \in s /\ s \ {Pick(s)} \in SUBSET Client
        /\ Cardinality(s \ {Pick(s)}) = Cardinality(s) - 1
    BY <1>3, <2>1, FewerClients
  <2>3. Cardinality(s \ {Pick(s)}) <= n
    BY <2>1, <2>2
  <2> QED BY <2>1, <2>2, <2>3 DEF Small
<1>4. \A s \in Small(n) : g[s] \in Nat /\ h[s] = g[s]
  BY <1>1, <1>2 DEF AddsTo
<1>5. ASSUME NEW s \in Small(n + 1), s # {}
      PROVE  h[s] = f[Pick(s)] + h[s \ {Pick(s)}] /\ h[s] \in Nat
  <2>1. PICK t : t = s \ {Pick(s)}
    OBVIOUS
  <2>2. t \in Small(n) /\ h[t] = g[t] /\ g[t] \in Nat /\ f[Pick(s)] \in Nat
    BY <1>3, <1>4, <1>5, <2>1
  <2>3. h[s] = f[Pick(s)] + g[t]
    <3>1. CASE s \in Small(n)
      BY <1>4, <1>5, <2>1, <3>1 DEF AddsTo
    <3>2. CASE s \notin Small(n)
      BY <1>1, <2>1, <3>2
    <3> QED BY <3>1, <3>2
  <2> QED BY <2>1, <2>2, <2>3
<1>6. h[{}] = 0
  BY <1>2, <1>4 DEF AddsTo
<1>7. h \in [Small(n + 1) -> Nat]
  <2>1. ASSUME NEW s \in Small(n + 1) PROVE h[s] \in Nat
    <3>1. CASE s = {}
      BY <1>6, <3>1
    <3> QED BY <1>5, <3>1
  <2>2. DOMAIN h = Small(n + 1) /\ h = [s \in DOMAIN h |-> h[s]]
    BY <1>1
  <2> QED BY <2>1, <2>2
<1> QED BY <1>5, <1>6, <1>7 DEF AddsTo

\* So there is a sum over sets of any size.
LEMMA SumsExist == ASSUME NEW f \in [Client -> Nat], NEW n \in Nat PROVE \E g : AddsTo(f, g, n)
<1> DEFINE S == {i \in Nat : ~\E g : AddsTo(f, g, i)}
<1>1. ASSUME S # {} PROVE FALSE
  <2>1. PICK i \in S : \A j \in S : i <= j
    BY <1>1, Least
  <2>2. CASE i = 0
    <3>1. Small(0) = {{}}
      <4>1. ASSUME NEW s \in SUBSET Client PROVE Cardinality(s) <= 0 <=> s = {}
        <5>1. Cardinality(s) \in Nat /\ (s = {} <=> Cardinality(s) = 0)
          BY FewerClients
        <5> QED BY <5>1
      <4> QED BY <4>1 DEF Small
    <3>2. AddsTo(f, [s \in {{}} |-> 0], 0)
      BY <3>1 DEF AddsTo
    <3> QED BY <2>1, <2>2, <3>2
  <2>3. CASE i # 0
    <3>1. PICK j \in Nat : i = j + 1
      <4>1. i - 1 \in Nat /\ i = (i - 1) + 1
        BY <2>1, <2>3
      <4> QED BY <4>1
    <3>2. j \notin S
      BY <2>1, <3>1
    <3>3. PICK g : AddsTo(f, g, j)
      BY <3>2
    <3> QED BY <2>1, <3>1, <3>3, OneMore
  <2> QED BY <2>2, <2>3
<1> QED BY <1>1

\* Sum adds up the clients one by one.
LEMMA SumIs ==
    ASSUME NEW f \in [Client -> Nat]
    PROVE  \E g : /\ g \in [SUBSET Client -> Nat] /\ Sum(f) = g[Client] /\ g[{}] = 0
                  /\ \A s \in SUBSET Client : s # {} => g[s] = f[Pick(s)] + g[s \ {Pick(s)}]
<1>1. Cardinality(Client) \in Nat /\ Small(Cardinality(Client)) = SUBSET Client
  BY FewerClients DEF Small
<1>2. PICK a : AddsTo(f, a, Cardinality(Client))
  BY <1>1, SumsExist
<1>3. Adds(f, a)
  <2>1. /\ a \in [SUBSET Client -> Nat] /\ a[{}] = 0
        /\ \A s \in SUBSET Client : s # {} => a[s] = f[Pick(s)] + a[s \ {Pick(s)}]
    BY <1>1, <1>2 DEF AddsTo
  <2>2. PICK b : b = [s \in SUBSET Client |-> IF s = {} THEN 0 ELSE f[Pick(s)] + a[s \ {Pick(s)}]]
    OBVIOUS
  <2>3. a = b
    BY <2>1, <2>2
  <2> QED BY <2>2, <2>3 DEF Adds
<1> DEFINE g == CHOOSE b : Adds(f, b)
<1>4. Adds(f, g)
  BY <1>3, Zenon
<1>5. Sum(f) = g[Client]
  BY DEF Sum, MapThenSumSet, MapThenFoldSet, Adds, Pick
<1> HIDE DEF g
<1>6. /\ g[{}] = 0
      /\ \A s \in SUBSET Client : s # {} => g[s] = f[Pick(s)] + g[s \ {Pick(s)}]
  BY <1>4 DEF Adds
<1>7. g = a
  <2> DEFINE S == {i \in Nat : \E s \in SUBSET Client : Cardinality(s) = i /\ g[s] # a[s]}
  <2>1. ASSUME S # {} PROVE FALSE
    <3>1. PICK i \in S : \A j \in S : i <= j
      BY <2>1, Least
    <3>2. PICK s \in SUBSET Client : Cardinality(s) = i /\ g[s] # a[s]
      BY <3>1
    <3>3. s # {}
      BY <1>2, <1>6, <3>2 DEF AddsTo
    <3>4. PICK t : t = s \ {Pick(s)}
      OBVIOUS
    <3>5. t \in SUBSET Client /\ Cardinality(t) = i - 1 /\ i - 1 \in Nat /\ ~(i <= i - 1)
      BY <3>2, <3>3, <3>4, FewerClients
    <3>6. g[t] = a[t]
      BY <3>1, <3>5
    <3>7. g[s] = f[Pick(s)] + g[t] /\ a[s] = f[Pick(s)] + a[t]
      BY <1>1, <1>2, <1>6, <3>3, <3>4 DEF AddsTo
    <3> QED BY <3>2, <3>6, <3>7
  <2>2. \A s \in SUBSET Client : g[s] = a[s]
    BY <2>1, FewerClients
  <2>3. g = [s \in SUBSET Client |-> g[s]] /\ a = [s \in SUBSET Client |-> a[s]]
    BY <1>3, <1>4 DEF Adds
  <2> QED BY <2>2, <2>3
<1> QED BY <1>1, <1>2, <1>5, <1>6, <1>7 DEF AddsTo
-----------------------------------------------------------------------------
(* The increments of each client.                                          *)

\* The writes of the counter; the increments of c that are among them, and those that
\* may still be; and the one that c waits for.
CounterLog   == log[Home(counter)][counter]
Done(c)      == {i \in 0..sent[c] : \E x \in DOMAIN CounterLog : CounterLog[x] = <<c, i>>}
Unsettled(c) == {i \in 0..sent[c] : \E m \in msgs : /\ MayApply(m) /\ m.req.method = "PUT"
                                                    /\ m.id = <<c, i>>}
Possible(c)  == Done(c) \cup Unsettled(c)
Putting(c)   == IF phase[c] = "put" THEN {sent[c]} ELSE {}

\* Apart from the one it waits for, c was told of at most the increments that are done,
\* and every increment that is done or may be was reported or left open.
Accounted(c) ==
    /\ acked[c] <= Cardinality(Done(c) \ Putting(c))
    /\ Cardinality(Possible(c) \ Putting(c)) <= acked[c] + unsure[c]

Books ==
    /\ phase \in [Client -> {"idle", "get", "put"}]
    /\ acked \in [Client -> Nat] /\ unsure \in [Client -> Nat]
    /\ \A c \in Client : /\ req[c] # Nil => req[c].key = counter
                         /\ phase[c] = "put" => req[c] # Nil /\ req[c].method = "PUT"
    /\ Home(counter) \notin plan.crashes =>
          \A c \in Client : (req[c] # Nil => since[c] # Lost) /\ Accounted(c)

AInv == KInv /\ Told /\ Known /\ Books

\* The increments of c are finitely many.
LEMMA FiniteBooks ==
    ASSUME NEW c \in Client, NEW s, s = sent[c], s \in Nat
    PROVE  \A E : /\ IsFiniteSet(Done(c) \ E) /\ Cardinality(Done(c) \ E) \in Nat
                  /\ IsFiniteSet(Possible(c) \ E) /\ Cardinality(Possible(c) \ E) \in Nat
<1>1. IsFiniteSet(0..s)
  BY FS_Interval
<1> SUFFICES ASSUME NEW E
             PROVE  /\ IsFiniteSet(Done(c) \ E) /\ Cardinality(Done(c) \ E) \in Nat
                    /\ IsFiniteSet(Possible(c) \ E) /\ Cardinality(Possible(c) \ E) \in Nat
  OBVIOUS
<1>2. Done(c) \ E \in SUBSET (0..s) /\ Possible(c) \ E \in SUBSET (0..s)
  BY DEF Done, Unsettled, Possible
<1>3. IsFiniteSet(Done(c) \ E) /\ IsFiniteSet(Possible(c) \ E)
  BY <1>1, <1>2, FS_Subset
<1> QED BY <1>3, FS_CardinalityType

\* Where c is told nothing new, no increment of c is undone and none becomes possible
\* again, what was accounted for still is.
Steady(c) ==
    /\ acked'[c] = acked[c] /\ unsure'[c] = unsure[c]
    /\ Done(c) \ Putting(c) \subseteq (Done(c) \ Putting(c))'
    /\ (Possible(c) \ Putting(c))' \subseteq Possible(c) \ Putting(c)

LEMMA SteadyAccounted ==
    ASSUME CInv, CInv', acked \in [Client -> Nat], unsure \in [Client -> Nat],
           NEW c \in Client, Accounted(c), Steady(c)
    PROVE  Accounted(c)'
<1>1. PICK D, E, P, Q : /\ D = Done(c) \ Putting(c) /\ E = (Done(c) \ Putting(c))'
                        /\ P = Possible(c) \ Putting(c) /\ Q = (Possible(c) \ Putting(c))'
  OBVIOUS
<1>2. /\ IsFiniteSet(D) /\ Cardinality(D) \in Nat /\ IsFiniteSet(P) /\ Cardinality(P) \in Nat
  <2>1. sent[c] \in Nat
    BY DEF CInv, Types
  <2> QED BY <1>1, <2>1, FiniteBooks
<1>3. /\ IsFiniteSet(E) /\ Cardinality(E) \in Nat /\ IsFiniteSet(Q) /\ Cardinality(Q) \in Nat
  <2>1. PICK s \in Nat : s = sent'[c]
    BY DEF CInv, Types
  <2>2. IsFiniteSet(0..s)
    BY FS_Interval
  <2>3. E \in SUBSET (0..s) /\ Q \in SUBSET (0..s)
    BY <1>1, <2>1 DEF Done, Unsettled, Possible
  <2> QED BY <2>2, <2>3, FS_Subset, FS_CardinalityType
<1>4. D \in SUBSET E /\ Q \in SUBSET P
  BY <1>1 DEF Steady
<1>5. Cardinality(D) <= Cardinality(E) /\ Cardinality(Q) <= Cardinality(P)
  BY <1>2, <1>3, <1>4, FS_Subset
<1>6. acked[c] <= Cardinality(D) /\ Cardinality(P) <= acked[c] + unsure[c]
  BY <1>1 DEF Accounted
<1>7. acked'[c] <= Cardinality(E) /\ Cardinality(Q) <= acked'[c] + unsure'[c]
  <2>1. acked[c] \in Nat /\ unsure[c] \in Nat /\ acked'[c] = acked[c] /\ unsure'[c] = unsure[c]
    BY DEF Steady
  <2> QED BY <1>2, <1>3, <1>5, <1>6, <2>1
<1> QED BY <1>1, <1>7 DEF Accounted

\* A step that moves requests on: no write of the counter is undone, and the new ones
\* were under way.
Moves ==
    /\ UNCHANGED <<sent, req>>
    /\ \A x \in DOMAIN CounterLog : x \in DOMAIN CounterLog' /\ CounterLog'[x] = CounterLog[x]
    /\ \A x \in DOMAIN CounterLog' :
          \/ x \in DOMAIN CounterLog
          \/ \E m \in msgs : MayApply(m) /\ m.req.method = "PUT" /\ CounterLog'[x] = m.id
    /\ \A z \in msgs' : MayApply(z) => \E m \in msgs : MayApply(m) /\ m.id = z.id /\ m.req = z.req

\* Such a step leaves the accounts as they are.
LEMMA MovesSteady ==
    ASSUME Moves, UNCHANGED locals, NEW c \in Client
    PROVE  Steady(c)
<1>1. UNCHANGED <<phase, acked, unsure, sent>>
  BY DEF locals, Moves
<1>2. Putting(c)' = Putting(c)
  BY <1>1 DEF Putting
<1>3. Done(c) \subseteq Done(c)'
  BY DEF Moves, Done
<1>4. Possible(c)' \subseteq Possible(c)
  <2>1. ASSUME NEW i \in Done(c)' PROVE i \in Possible(c)
    <3>1. i \in 0..sent[c]
      BY <1>1 DEF Done
    <3>2. PICK x \in DOMAIN CounterLog' : CounterLog'[x] = <<c, i>>
      BY DEF Done
    <3>3. CASE x \in DOMAIN CounterLog
      BY <3>1, <3>2, <3>3 DEF Moves, Done, Possible
    <3>4. CASE x \notin DOMAIN CounterLog
      BY <3>1, <3>2, <3>4 DEF Moves, Unsettled, Possible
    <3> QED BY <3>3, <3>4
  <2>2. ASSUME NEW i \in Unsettled(c)' PROVE i \in Possible(c)
    <3>1. i \in 0..sent[c]
      BY <1>1 DEF Unsettled
    <3>2. PICK z \in msgs' : MayApply(z) /\ z.req.method = "PUT" /\ z.id = <<c, i>>
      BY DEF Unsettled, MayApply
    <3>3. PICK m \in msgs : MayApply(m) /\ m.id = z.id /\ m.req = z.req
      BY <3>2 DEF Moves
    <3> QED BY <3>1, <3>2, <3>3 DEF Unsettled, Possible
  <2> QED BY <2>1, <2>2 DEF Possible
<1> QED BY <1>1, <1>2, <1>3, <1>4 DEF Steady

\* Where the log of the counter stays as it is, only the messages matter.
LEMMA QuietMoves ==
    ASSUME UNCHANGED <<sent, req>>, CounterLog' = CounterLog,
           \A z \in msgs' : MayApply(z) => \E m \in msgs : MayApply(m) /\ m.id = z.id /\ m.req = z.req
    PROVE  Moves
  BY DEF Moves

\* What happens to requests under way, and to other nodes, moves requests on.
LEMMA ClusterMoves ==
    ASSUME KInv, NEW S \in SUBSET NodeID, Home(counter) \notin S,
           Progress \/ Failures \/ Crashes(S)
    PROVE  Moves
<1>0. /\ CInv /\ Types /\ counter \in Key /\ Home(counter) \in NodeID /\ msgs \subseteq Messages
  BY CounterAssumption, HomeIs DEF KInv, CInv, Types
<1>1. ASSUME NEW m \in msgs, Forward(m) PROVE Moves
  <2>1. PICK new : /\ Becomes(m, new) /\ m.at = "proxy"
                   /\ \/ new = Back(m, Bare(405)) \/ new = Back(m, Unavailable)
                      \/ new = At(m, "node", Target(m))
    BY <1>1 DEF Forward, MethodNotAllowed
  <2>2. Back(m, Bare(405)).at = "back" /\ Back(m, Unavailable).at = "back"
    BY <1>0, SentBack, BareReplies
  <2>3. At(m, "node", Target(m)).id = m.id /\ At(m, "node", Target(m)).req = m.req
    BY <1>0 DEF At, Messages
  <2>4. \A z \in msgs' : z \in msgs \/ z = new
    BY <2>1 DEF Becomes
  <2>5. \A z \in msgs' : MayApply(z) => z \in msgs \/ (MayApply(m) /\ m.id = z.id /\ m.req = z.req)
    BY <2>1, <2>2, <2>3, <2>4 DEF MayApply
  <2> QED BY <1>1, <2>5, QuietMoves DEF Forward, CounterLog
<1>2. ASSUME NEW m \in msgs, TimeOut(m) PROVE Moves
  <2>1. Back(m, Unavailable).at = "back"
    BY <1>0, SentBack, BareReplies
  <2>2. /\ [m EXCEPT !.open = FALSE].id = m.id /\ [m EXCEPT !.open = FALSE].req = m.req
        /\ [m EXCEPT !.open = FALSE].at = m.at
    BY <1>0, Closed
  <2>3. \A z \in msgs' : z \in msgs \/ z = Back(m, Unavailable) \/ z = [m EXCEPT !.open = FALSE]
    BY <1>2 DEF TimeOut
  <2>4. \A z \in msgs' : MayApply(z) => z \in msgs \/ (MayApply(m) /\ m.id = z.id /\ m.req = z.req)
    BY <2>1, <2>2, <2>3 DEF MayApply
  <2> QED BY <1>2, <2>4, QuietMoves DEF TimeOut, CounterLog
<1>3. ASSUME NEW m \in msgs, NEW c \in Client, Deliver(c, m) \/ DeliverCut(c, m) PROVE Moves
  <2>1. msgs' \subseteq msgs /\ UNCHANGED <<sent, req, log>>
    BY <1>3 DEF Deliver, DeliverCut, Receive
  <2> QED BY <2>1, QuietMoves DEF CounterLog
<1>4. ASSUME NEW c \in Client, GiveUp(c) PROVE Moves
  <2>1. \A z \in msgs' : \E m \in msgs : z = m \/ z = [m EXCEPT !.open = FALSE]
    BY <1>4 DEF GiveUp
  <2>2. \A m \in msgs : /\ [m EXCEPT !.open = FALSE].id = m.id /\ [m EXCEPT !.open = FALSE].req = m.req
                        /\ [m EXCEPT !.open = FALSE].at = m.at
    BY <1>0, Closed
  <2>3. \A z \in msgs' : MayApply(z) => \E m \in msgs : MayApply(m) /\ m.id = z.id /\ m.req = z.req
    BY <2>1, <2>2 DEF MayApply
  <2> QED BY <1>4, <2>3, QuietMoves DEF GiveUp, CounterLog
<1>5. ASSUME NEW n \in S, Shutdown(n) \/ Restart(n) PROVE Moves
  BY <1>5, QuietMoves DEF Shutdown, Restart, CounterLog
<1>6. ASSUME NEW n \in S, Crash(n) PROVE Moves
  <2>1. n # Home(counter) /\ CounterLog' = CounterLog
    BY <1>0, <1>6 DEF Crash, CounterLog, Types
  <2>2. \A m \in msgs : Back(m, Failure(m)).at = "back"
    <3>1. \A m \in msgs : Failure(m) \in Replies
      BY BareReplies DEF Failure
    <3> QED BY <1>0, <3>1, SentBack
  <2>3. \A z \in msgs' : z \in msgs \/ \E m \in msgs : z = Back(m, Failure(m))
    BY <1>6 DEF Crash
  <2>4. \A z \in msgs' : MayApply(z) => z \in msgs
    BY <2>2, <2>3 DEF MayApply
  <2> QED BY <1>6, <2>1, <2>4, QuietMoves DEF Crash
<1>7. ASSUME NEW m \in msgs, Handle(m) PROVE Moves
  <2>0. Increment(m.req) /\ m.req \in Requests /\ MayApply(m) /\ UNCHANGED <<sent, req>>
    BY <1>0, <1>7 DEF KInv, Counting, Messages, Handle, MayApply
  <2>1. PICK n, k, x, y : /\ n = m.node /\ k = m.req.key /\ x = db[n][k]
                          /\ y = After(NodeConf[n], x, m.req, CountHeader(m))
    OBVIOUS
  <2>2. /\ n \in NodeID /\ k \in Key /\ x \in Entries /\ m.id \in Client \X Nat
        /\ log[n][k] \in Seq(Client \X Nat)
        /\ log'[n][k] = IF y = x THEN log[n][k] ELSE Append(log[n][k], m.id)
    BY <1>0, <1>7, <2>1, HandleStep
  <2>3. \A a \in NodeID, b \in Key : a # n \/ b # k => log'[a][b] = log[a][b]
    BY <1>0, <1>7, <2>1, HandleStep, ZenonT(60)
  <2>4. \A z \in msgs' : MayApply(z) => z \in msgs
    BY <1>0, <1>7, HandleStep
  <2>5. CASE CounterLog' = CounterLog
    BY <2>0, <2>4, <2>5, QuietMoves
  <2>6. CASE CounterLog' # CounterLog
    <3>1. n = Home(counter) /\ k = counter /\ y # x
      BY <1>0, <2>2, <2>3, <2>6 DEF CounterLog
    <3>2. m.req.method = "PUT"
      <4>1. m.req.method # "GET"
        BY <2>0, <2>1, <2>2, <3>1, AfterIsEntry
      <4> QED BY <2>0, <4>1 DEF Increment
    <3>3. PICK L \in Seq(Client \X Nat), id \in Client \X Nat : L = CounterLog /\ id = m.id
      BY <2>2, <3>1 DEF CounterLog
    <3>4. CounterLog' = Append(L, id)
      BY <2>2, <3>1, <3>3 DEF CounterLog
    <3>5. /\ DOMAIN L = 1..Len(L) /\ DOMAIN Append(L, id) = 1..(Len(L) + 1) /\ Len(L) \in Nat
          /\ \A j \in 1..Len(L) : Append(L, id)[j] = L[j]
          /\ Append(L, id)[Len(L) + 1] = id
      OBVIOUS
    <3>6. \A j \in 1..(Len(L) + 1) : j \in 1..Len(L) \/ j = Len(L) + 1
      BY <3>5
    <3>7. \A j \in DOMAIN CounterLog : j \in DOMAIN CounterLog' /\ CounterLog'[j] = CounterLog[j]
      BY <3>3, <3>4, <3>5
    <3>8. \A j \in DOMAIN CounterLog' : j \in DOMAIN CounterLog \/ CounterLog'[j] = m.id
      BY <3>3, <3>4, <3>5, <3>6
    <3> QED BY <2>0, <2>4, <3>2, <3>7, <3>8 DEF Moves
  <2> QED BY <2>5, <2>6
<1> QED BY <1>1, <1>2, <1>3, <1>4, <1>5, <1>6, <1>7 DEF Progress, Failures, Crashes

\* A client that has the answer to its PUT knows, unless there was none, whether the
\* increment is done.
LEMMA PutFate ==
    ASSUME AInv, Home(counter) \notin plan.crashes, NEW c \in Client,
           phase[c] = "put", got[c] # Waiting
    PROVE  /\ got[c].status = 200 => sent[c] \in Done(c)
           /\ got[c].status # 200 /\ got[c] \notin {NoAnswer, Unavailable} => sent[c] \notin Possible(c)
<1>1. /\ IsWrite(c) /\ CounterLog = Writes(c) /\ since[c] # Lost /\ sent[c] \in Nat
      /\ Id(c) = <<c, sent[c]>>
  BY DEF AInv, Books, IsWrite, Writes, CounterLog, KInv, CInv, Types, Id
<1>2. Definite(got[c]) => Fate(c, got[c])
  BY <1>1 DEF AInv, Known, KnownTo, AnswerOk
<1>3. ASSUME got[c].status = 200 PROVE sent[c] \in Done(c)
  <2>1. Definite(got[c])
    BY <1>3 DEF Definite, Waiting, NoAnswer, Unavailable, Bare, Answer
  <2>2. \E i \in DOMAIN Writes(c) : AppliedAt(c, i)
    BY <1>2, <1>3, <2>1 DEF Fate, AppliedAt
  <2>3. sent[c] \in 0..sent[c]
    BY <1>1
  <2> QED BY <1>1, <2>2, <2>3 DEF AppliedAt, Done
<1>4. ASSUME got[c].status # 200, got[c] \notin {NoAnswer, Unavailable} PROVE sent[c] \notin Possible(c)
  <2>1. /\ \A i \in DOMAIN Writes(c) : ~AppliedAt(c, i)
        /\ \A m \in msgs : MayApply(m) => m.id # Id(c)
    BY <1>2, <1>4 DEF Definite, Fate
  <2> QED BY <1>1, <2>1 DEF AppliedAt, Possible, Done, Unsettled
<1> QED BY <1>3, <1>4

\* What a client asks is new: its other increments, and those of the others, stay as
\* they are.
LEMMA Asked ==
    ASSUME KInv, NEW c \in Client, NEW v, NEW r, Submit(c, v, r), NEW d \in Client
    PROVE  /\ Done(d)' = Done(d)
           /\ d # c => Possible(d)' \subseteq Possible(d)
           /\ Possible(c)' \subseteq Possible(c) \cup (IF r.method = "PUT" THEN {sent[c] + 1} ELSE {})
           /\ sent[c] + 1 \notin Possible(c) /\ sent'[c] = sent[c] + 1 /\ (d # c => sent'[d] = sent[d])
<1>0. /\ CInv /\ Types /\ counter \in Key /\ Home(counter) \in NodeID /\ sent \in [Client -> Nat]
  BY CounterAssumption, HomeIs DEF KInv, CInv, Types
<1>1. sent' = [sent EXCEPT ![c] = @ + 1] /\ CounterLog' = CounterLog
  BY DEF Submit, CounterLog
<1>2. \A z \in msgs' : z \in msgs \/ (z.id = <<c, sent[c] + 1>> /\ z.req = r)
  BY DEF Submit
<1>3. \A e \in Client : sent[e] \in Nat /\ sent'[e] \in Nat /\ sent'[e] = IF e = c THEN sent[e] + 1 ELSE sent[e]
  BY <1>0, <1>1
<1>4. ASSUME NEW e \in Client, NEW i \in 0..sent'[e], NEW x \in DOMAIN CounterLog, CounterLog[x] = <<e, i>>
      PROVE  i \in 0..sent[e]
  <2>1. CounterLog[x][2] <= sent[CounterLog[x][1]]
    BY <1>0 DEF CInv, LogSound, CounterLog
  <2>2. i <= sent[e]
    BY <1>4, <2>1
  <2> QED BY <1>3, <2>2
<1>5. ASSUME NEW e \in Client, NEW i \in 0..sent'[e], NEW m \in msgs, m.id = <<e, i>>
      PROVE  i \in 0..sent[e]
  <2>1. m.id[2] <= sent[m.id[1]]
    BY <1>0 DEF CInv, MessagesSound, Underway, Types, Messages
  <2>2. i <= sent[e]
    BY <1>5, <2>1
  <2> QED BY <1>3, <2>2
<1>6. \A e \in Client : \A i \in 0..sent[e] : i \in 0..sent'[e]
  BY <1>3
<1>7. ASSUME NEW e \in Client PROVE Done(e)' = Done(e)
  BY <1>1, <1>4, <1>6 DEF Done
<1>8. ASSUME NEW e \in Client, NEW i \in Unsettled(e)'
      PROVE  i \in Unsettled(e) \/ (e = c /\ i = sent[c] + 1 /\ r.method = "PUT")
  <2>1. PICK z \in msgs' : MayApply(z) /\ z.req.method = "PUT" /\ z.id = <<e, i>>
    BY DEF Unsettled, MayApply
  <2>2. i \in 0..sent'[e]
    BY DEF Unsettled
  <2>3. CASE z \in msgs
    BY <1>5, <2>1, <2>2, <2>3 DEF Unsettled
  <2>4. CASE z.id = <<c, sent[c] + 1>> /\ z.req = r
    BY <2>1, <2>4
  <2> QED BY <1>2, <2>3, <2>4
<1>9. sent[c] + 1 \notin Possible(c)
  <2>1. sent[c] + 1 \notin 0..sent[c]
    BY <1>3
  <2> QED BY <2>1 DEF Possible, Done, Unsettled
<1>10. d # c => Possible(d)' \subseteq Possible(d)
  BY <1>7, <1>8 DEF Possible
<1>11. Possible(c)' \subseteq Possible(c) \cup (IF r.method = "PUT" THEN {sent[c] + 1} ELSE {})
  BY <1>7, <1>8 DEF Possible
<1> QED BY <1>3, <1>7, <1>9, <1>10, <1>11

\* The client asks something new, when nothing is open about what it asked before.
LEMMA DoBooks ==
    ASSUME AInv, CInv', NEW c \in Client, NEW r \in Requests, r.key = counter, NEW p,
           \/ r.method = "GET" /\ p = "get"
           \/ r.method = "PUT" /\ p = "put",
           Do(c, r, p), UNCHANGED <<acked, unsure, plan>>,
           Home(counter) \notin plan.crashes /\ phase[c] = "put" => sent[c] \notin Possible(c)
    PROVE  Books'
<1>0. /\ KInv /\ CInv /\ Types /\ Books /\ counter \in Key /\ Home(counter) \in NodeID
      /\ Submit(c, plan.entrance[c], r) /\ phase' = [phase EXCEPT ![c] = p]
  BY CounterAssumption, HomeIs DEF AInv, KInv, CInv, Do
<1>1. req' = [req EXCEPT ![c] = r] /\ since' = [since EXCEPT ![c] = db[Home(counter)][counter].version]
  BY <1>0 DEF Submit
<1>2. \A d \in Client : /\ req'[d] = IF d = c THEN r ELSE req[d]
                        /\ phase'[d] = IF d = c THEN p ELSE phase[d]
                        /\ d # c => since'[d] = since[d]
  BY <1>0, <1>1 DEF Types, Books
<1>3. /\ phase' \in [Client -> {"idle", "get", "put"}]
      /\ acked' \in [Client -> Nat] /\ unsure' \in [Client -> Nat]
  BY <1>0 DEF Books
<1>4. \A d \in Client : /\ req'[d] # Nil => req'[d].key = counter
                        /\ phase'[d] = "put" => req'[d] # Nil /\ req'[d].method = "PUT"
  BY <1>0, <1>2, ClusterAssumption DEF Books
<1>5. ASSUME Home(counter) \notin plan.crashes, NEW d \in Client
      PROVE  (req'[d] # Nil => since'[d] # Lost) /\ Accounted(d)'
  <2>1. since'[c] \in Nat
    <3>1. db[Home(counter)][counter] \in Entries
      BY <1>0 DEF Types
    <3>2. db[Home(counter)][counter].version \in Nat
      BY <3>1 DEF Entries, Absent
    <3> QED BY <1>0, <1>1, <3>2 DEF Types
  <2>2. req'[d] # Nil => since'[d] # Lost
    BY <1>0, <1>2, <1>5, <2>1, ClusterAssumption DEF Books, Lost
  <2>3. /\ Done(d)' = Done(d) /\ Done(c)' = Done(c) /\ (d # c => Possible(d)' \subseteq Possible(d))
        /\ Possible(c)' \subseteq Possible(c) \cup (IF r.method = "PUT" THEN {sent[c] + 1} ELSE {})
        /\ sent[c] + 1 \notin Possible(c) /\ sent'[c] = sent[c] + 1 /\ (d # c => sent'[d] = sent[d])
    BY <1>0, Asked
  <2>4. Done(c) \subseteq Possible(c)
    BY DEF Possible
  <2>5. Steady(d)
    <3>1. CASE d = c
      <4>1. Done(c) \ Putting(c) = Done(c) /\ Possible(c) \ Putting(c) = Possible(c)
        BY <1>5, <2>4 DEF Putting
      <4>2. Putting(c)' = IF r.method = "PUT" THEN {sent[c] + 1} ELSE {}
        BY <1>2, <2>3 DEF Putting
      <4>3. (Done(c) \ Putting(c))' = Done(c) /\ (Possible(c) \ Putting(c))' \subseteq Possible(c)
        BY <2>3, <2>4, <4>2
      <4> QED BY <3>1, <4>1, <4>3 DEF Steady
    <3>2. CASE d # c
      <4>1. Putting(d)' = Putting(d)
        BY <1>2, <2>3, <3>2 DEF Putting
      <4> QED BY <2>3, <3>2, <4>1 DEF Steady
    <3> QED BY <3>1, <3>2
  <2>6. Accounted(d)'
    BY <1>0, <1>5, <2>5, SteadyAccounted DEF Books
  <2> QED BY <2>2, <2>6
<1> QED BY <1>3, <1>4, <1>5 DEF Books

\* The increment of c is over.
LEMMA FinishBooks ==
    ASSUME AInv, CInv', NEW c \in Client, Finish(c), UNCHANGED plan,
           acked' \in [Client -> Nat], unsure' \in [Client -> Nat],
           \A d \in Client : d # c => acked'[d] = acked[d] /\ unsure'[d] = unsure[d],
           Home(counter) \notin plan.crashes => Accounted(c)'
    PROVE  Books'
<1>0. /\ CInv /\ Books /\ UNCHANGED <<msgs, sent, req, since, log>>
      /\ phase' = [phase EXCEPT ![c] = "idle"]
  BY DEF AInv, KInv, Finish, vars
<1>1. phase' \in [Client -> {"idle", "get", "put"}] /\ phase'[c] = "idle"
      /\ \A d \in Client : d # c => phase'[d] = phase[d]
  BY <1>0 DEF Books
<1>2. \A d \in Client : /\ req'[d] # Nil => req'[d].key = counter
                        /\ phase'[d] = "put" => req'[d] # Nil /\ req'[d].method = "PUT"
  BY <1>0, <1>1 DEF Books
<1>3. ASSUME Home(counter) \notin plan.crashes, NEW d \in Client, d # c PROVE Accounted(d)'
  <2>1. CounterLog' = CounterLog /\ Putting(d)' = Putting(d)
    BY <1>0, <1>1, <1>3 DEF CounterLog, Putting
  <2>2. Done(d)' = Done(d) /\ Possible(d)' = Possible(d)
    BY <1>0, <2>1 DEF Done, Possible, Unsettled, MayApply
  <2>3. Steady(d)
    BY <1>3, <2>1, <2>2 DEF Steady
  <2> QED BY <1>0, <1>3, <2>3, SteadyAccounted DEF Books
<1>4. Home(counter) \notin plan.crashes => \A d \in Client : req'[d] # Nil => since'[d] # Lost
  BY <1>0 DEF Books, Lost
<1> QED BY <1>1, <1>2, <1>3, <1>4 DEF Books

\* What c is told of the increment it waited for agrees with its books.
LEMMA Settled ==
    ASSUME AInv, NEW c \in Client, Home(counter) \notin plan.crashes, Finish(c),
           phase[c] = "put" =>
             \/ acked'[c] = acked[c] /\ unsure'[c] = unsure[c] /\ sent[c] \notin Possible(c)
             \/ acked'[c] = acked[c] + 1 /\ unsure'[c] = unsure[c] /\ sent[c] \in Done(c)
             \/ acked'[c] = acked[c] /\ unsure'[c] = unsure[c] + 1,
           phase[c] # "put" => acked'[c] = acked[c] /\ unsure'[c] = unsure[c]
    PROVE  Accounted(c)'
<1>0. /\ CInv /\ Books /\ UNCHANGED <<msgs, sent, log>> /\ phase'[c] = "idle" /\ Accounted(c)
      /\ sent[c] \in Nat
  BY DEF AInv, KInv, CInv, Types, Books, Finish, vars
<1>1. CounterLog' = CounterLog /\ Putting(c)' = {}
  BY <1>0 DEF CounterLog, Putting
<1>2. Done(c)' = Done(c) /\ Possible(c)' = Possible(c)
  BY <1>0, <1>1 DEF Done, Possible, Unsettled, MayApply
<1>3. PICK D, P, E : D = Done(c) /\ P = Possible(c) /\ E = Putting(c)
  OBVIOUS
<1>4. /\ IsFiniteSet(D) /\ Cardinality(D) \in Nat /\ IsFiniteSet(P) /\ Cardinality(P) \in Nat
  <2>1. D \ {} = D /\ P \ {} = P
    OBVIOUS
  <2> QED BY <1>0, <1>3, <2>1, FiniteBooks
<1>5. acked[c] <= Cardinality(D \ E) /\ Cardinality(P \ E) <= acked[c] + unsure[c]
  BY <1>0, <1>3 DEF Accounted
<1>6. acked[c] \in Nat /\ unsure[c] \in Nat /\ D \subseteq P
  BY <1>0, <1>3 DEF Books, Possible
<1>7. Accounted(c)' <=> acked'[c] <= Cardinality(D) /\ Cardinality(P) <= acked'[c] + unsure'[c]
  <2>1. (Done(c) \ Putting(c))' = D /\ (Possible(c) \ Putting(c))' = P
    BY <1>1, <1>2, <1>3
  <2> QED BY <2>1 DEF Accounted
<1>8. CASE phase[c] # "put"
  <2>1. D \ E = D /\ P \ E = P
    BY <1>3, <1>8 DEF Putting
  <2> QED BY <1>5, <1>7, <1>8, <2>1
<1>9. CASE phase[c] = "put"
  <2>0. PICK s : s = sent[c]
    OBVIOUS
  <2>1. E = {s}
    BY <1>3, <1>9, <2>0 DEF Putting
  <2>2. /\ Cardinality(D \ E) = IF s \in D THEN Cardinality(D) - 1 ELSE Cardinality(D)
        /\ Cardinality(P \ E) = IF s \in P THEN Cardinality(P) - 1 ELSE Cardinality(P)
    BY <1>4, <2>1, FS_RemoveElement
  <2>3. CASE acked'[c] = acked[c] /\ unsure'[c] = unsure[c] /\ s \notin P
    BY <1>4, <1>5, <1>6, <1>7, <2>2, <2>3
  <2>4. CASE acked'[c] = acked[c] + 1 /\ unsure'[c] = unsure[c] /\ s \in D
    <3>1. s \in P
      BY <1>6, <2>4
    <3> QED BY <1>4, <1>5, <1>6, <1>7, <2>2, <2>4, <3>1
  <2>5. CASE acked'[c] = acked[c] /\ unsure'[c] = unsure[c] + 1
    BY <1>4, <1>5, <1>6, <1>7, <2>2, <2>5
  <2> QED BY <1>3, <1>9, <2>0, <2>3, <2>4, <2>5
<1> QED BY <1>8, <1>9

\* The loop of a client keeps its books.
LEMMA ClientBooks ==
    ASSUME Nat \subseteq Value, AInv, CInv', NEW c \in Client,
           Begin(c) \/ AfterGet(c) \/ AfterPut(c), UNCHANGED plan
    PROVE  Books'
<1>0. KInv /\ Books /\ acked \in [Client -> Nat] /\ unsure \in [Client -> Nat]
  BY DEF AInv, Books
<1>1. ASSUME Get(c), UNCHANGED <<acked, unsure>>,
             Home(counter) \notin plan.crashes /\ phase[c] = "put" => sent[c] \notin Possible(c)
      PROVE  Books'
  <2>1. PICK r \in Requests : r = Request("GET", 0, <<>>, <<>>)
    BY LoopRequests, Zenon
  <2>2. r.key = counter /\ r.method = "GET"
    BY <2>1 DEF Request
  <2>3. Do(c, r, "get")
    BY <1>1, <2>1 DEF Get
  <2> QED BY <1>1, <2>2, <2>3, DoBooks
<1>2. ASSUME NEW r \in Requests, NEW n, NEW v, NEW a, r = Request("PUT", n, v, a), Do(c, r, "put"),
             UNCHANGED <<acked, unsure>>, phase[c] # "put"
      PROVE  Books'
  <2>1. r.key = counter /\ r.method = "PUT"
    BY <1>2 DEF Request
  <2> QED BY <1>2, <2>1, DoBooks
<1>3. ASSUME Finish(c), UNCHANGED <<acked, unsure>>,
             Home(counter) \notin plan.crashes /\ phase[c] = "put" => sent[c] \notin Possible(c)
      PROVE  Books'
  <2>1. Home(counter) \notin plan.crashes => Accounted(c)'
    BY <1>3, Settled
  <2> QED BY <1>0, <1>3, <2>1, FinishBooks
<1>4. CASE Begin(c)
  BY <1>1, <1>4 DEF Begin
<1>5. CASE AfterGet(c)
  <2>0. phase[c] = "get" /\ UNCHANGED <<acked, unsure>>
    BY <1>5 DEF AfterGet
  <2>1. CASE PutIfAbsent(c)
    <3>1. PICK r \in Requests : r = Request("PUT", 1, <<>>, <<TRUE>>)
      BY LoopRequests, Zenon
    <3>2. Do(c, r, "put")
      BY <2>1, <3>1, Zenon DEF PutIfAbsent
    <3> QED BY <1>2, <2>0, <3>1, <3>2
  <2>2. CASE got[c].status = 200 /\ got[c].whole /\ PutIfVersion(c, got[c].value + 1, got[c].version)
    <3>1. PICK v \in Nat : v = got[c].version /\ v = got[c].value
      BY <1>0, <2>2 DEF KInv, Counting, Tally
    <3>2. PICK r \in Requests : r = Request("PUT", v + 1, <<v>>, <<>>)
      BY LoopRequests, Zenon
    <3>3. Do(c, r, "put")
      BY <2>2, <3>1, <3>2, Zenon DEF PutIfVersion
    <3> QED BY <1>2, <2>0, <3>2, <3>3
  <2>3. CASE Finish(c)
    BY <1>3, <2>0, <2>3
  <2> QED BY <1>5, <2>1, <2>2, <2>3 DEF AfterGet
<1>6. CASE AfterPut(c)
  <2>0. phase[c] = "put" /\ got[c] # Waiting
    BY <1>6 DEF AfterPut
  <2>1. Home(counter) \notin plan.crashes =>
          /\ got[c].status = 200 => sent[c] \in Done(c)
          /\ got[c].status # 200 /\ got[c] \notin {NoAnswer, Unavailable} => sent[c] \notin Possible(c)
    BY <2>0, PutFate
  <2>2. got[c] \in {NoAnswer, Unavailable} => got[c].status # 200 /\ got[c].status # 409
    BY DEF NoAnswer, Unavailable, Bare, Answer
  <2>3. CASE Retries(got[c])
    <3>1. Home(counter) \notin plan.crashes => sent[c] \notin Possible(c)
      BY <2>1, <2>2, <2>3 DEF Retries
    <3> QED BY <1>1, <1>3, <1>6, <2>3, <3>1 DEF AfterPut
  <2>4. CASE ~Retries(got[c])
    <3>1. /\ acked'  = [acked EXCEPT ![c] = IF got[c].status = 200 THEN @ + 1 ELSE @]
          /\ unsure' = [unsure EXCEPT ![c] =
                           IF got[c] \in {NoAnswer, Unavailable} THEN @ + 1 ELSE @]
          /\ Finish(c)
      BY <1>6, <2>4 DEF AfterPut
    <3>2. /\ acked' \in [Client -> Nat] /\ unsure' \in [Client -> Nat]
          /\ acked'[c] = IF got[c].status = 200 THEN acked[c] + 1 ELSE acked[c]
          /\ unsure'[c] = IF got[c] \in {NoAnswer, Unavailable} THEN unsure[c] + 1 ELSE unsure[c]
          /\ \A d \in Client : d # c => acked'[d] = acked[d] /\ unsure'[d] = unsure[d]
      BY <1>0, <3>1
    <3>3. ASSUME Home(counter) \notin plan.crashes PROVE Accounted(c)'
      <4>1. CASE got[c].status = 200
        BY <2>0, <2>1, <2>2, <3>1, <3>2, <3>3, <4>1, Settled
      <4>2. CASE got[c].status # 200 /\ got[c] \notin {NoAnswer, Unavailable}
        BY <2>0, <2>1, <3>1, <3>2, <3>3, <4>2, Settled
      <4>3. CASE got[c] \in {NoAnswer, Unavailable}
        BY <2>0, <2>2, <3>1, <3>2, <3>3, <4>3, Settled
      <4> QED BY <4>1, <4>2, <4>3
    <3> QED BY <3>1, <3>2, <3>3, FinishBooks
  <2> QED BY <2>3, <2>4
<1> QED BY <1>4, <1>5, <1>6

\* No step of the cluster makes a client forget since when it waits, unless the node of
\* the counter crashes.
LEMMA SinceKept ==
    ASSUME AInv, NEW S \in SUBSET NodeID, Home(counter) \notin S,
           Progress \/ Failures \/ Crashes(S), NEW c \in Client, req[c] # Nil
    PROVE  since'[c] = since[c]
<1>0. Home(req[c].key) = Home(counter)
  BY DEF AInv, Books
<1>1. ASSUME NEW n \in S, Crash(n) PROVE since'[c] = since[c]
  BY <1>0, <1>1 DEF Crash
<1>2. ASSUME NEW n \in S, Shutdown(n) \/ Restart(n) PROVE since'[c] = since[c]
  BY <1>2 DEF Shutdown, Restart
<1>3. ASSUME Failures PROVE since'[c] = since[c]
  BY <1>3 DEF Failures, TimeOut, DeliverCut, Receive, GiveUp
<1>4. ASSUME Progress PROVE since'[c] = since[c]
  BY <1>4 DEF Progress, Forward, Handle, Deliver, Receive
<1> QED BY <1>1, <1>2, <1>3, <1>4 DEF Crashes

\* Nothing that happens to requests changes what a client has asked.
LEMMA RequestsKept ==
    ASSUME NEW S, Progress \/ Failures \/ Crashes(S) PROVE UNCHANGED req
<1>1. ASSUME Failures PROVE UNCHANGED req
  BY <1>1 DEF Failures, TimeOut, DeliverCut, Receive, GiveUp
<1>2. ASSUME Progress PROVE UNCHANGED req
  BY <1>2 DEF Progress, Forward, Handle, Deliver, Receive
<1> QED BY <1>1, <1>2 DEF Crashes, Crash, Shutdown, Restart

\* What happens to requests under way keeps the books of their clients.
LEMMA ClusterBooks ==
    ASSUME AInv, CInv', Progress \/ Failures \/ Crashes(plan.crashes), UNCHANGED <<locals, plan>>
    PROVE  Books'
<1>0. /\ KInv /\ CInv /\ Books /\ UNCHANGED <<phase, acked, unsure, plan>>
      /\ plan.crashes \in SUBSET NodeID
  BY CounterAssumption DEF AInv, KInv, locals
<1>1. UNCHANGED req
  BY RequestsKept
<1>2. ASSUME Home(counter) \notin plan.crashes, NEW c \in Client
      PROVE  (req'[c] # Nil => since'[c] # Lost) /\ Accounted(c)'
  <2>1. req'[c] # Nil => since'[c] # Lost
    BY <1>0, <1>1, <1>2, SinceKept DEF Books, Lost
  <2>2. Steady(c)
    BY <1>0, <1>2, ClusterMoves, MovesSteady
  <2>3. Accounted(c)'
    BY <1>0, <1>2, <2>2, SteadyAccounted DEF Books
  <2> QED BY <2>1, <2>3
<1> QED BY <1>0, <1>1, <1>2 DEF Books

\* Every step keeps the books.
LEMMA NextAInv == ASSUME Nat \subseteq Value PROVE AInv /\ [CounterNext]_allVars => AInv'
<1> SUFFICES ASSUME AInv, [CounterNext]_allVars PROVE AInv'
  OBVIOUS
<1>0. KInv' /\ CInv' /\ KInv /\ CInv /\ Told /\ Known /\ plan.crashes \in SUBSET NodeID
  BY NextKInv, CounterAssumption DEF AInv, KInv
<1>1. ASSUME UNCHANGED vars PROVE Told' /\ Known'
  BY <1>0, <1>1, NothingHappens
<1>2. CASE UNCHANGED allVars
  <2>1. UNCHANGED <<vars, locals, plan>> /\ UNCHANGED <<msgs, sent, req, since, log, phase, acked, unsure>>
    BY <1>2 DEF allVars, vars, locals
  <2>2. Moves
    BY <2>1, QuietMoves DEF CounterLog
  <2>3. ASSUME Home(counter) \notin plan.crashes, NEW c \in Client PROVE Accounted(c)'
    <3>1. Steady(c)
      BY <2>1, <2>2, MovesSteady
    <3> QED BY <1>0, <2>3, <3>1, SteadyAccounted DEF AInv, Books
  <2>4. Books'
    BY <2>1, <2>3 DEF AInv, Books, Lost
  <2> QED BY <1>0, <1>1, <2>1, <2>4 DEF AInv
<1>3. CASE (Progress \/ Failures \/ Crashes(plan.crashes)) /\ UNCHANGED <<locals, plan>>
  <2>1. Told' /\ Known'
    BY <1>0, <1>3, ClusterKnown
  <2>2. Books'
    BY <1>0, <1>3, ClusterBooks
  <2> QED BY <1>0, <2>1, <2>2 DEF AInv
<1>4. ASSUME NEW c \in Client, Begin(c) \/ AfterGet(c) \/ AfterPut(c), UNCHANGED plan PROVE AInv'
  <2>1. Books'
    BY <1>0, <1>4, ClientBooks
  <2>2. ASSUME NEW r \in Requests, Submit(c, plan.entrance[c], r) PROVE Told' /\ Known'
    <3>1. plan.entrance[c] \in NodeID \cup ProxyID
      BY <1>0, CounterAssumption DEF KInv
    <3> QED BY <1>0, <2>2, <3>1, SubmitKnown
  <2>3. ASSUME Get(c) \/ PutIfAbsent(c) PROVE Told' /\ Known'
    BY <2>2, <2>3, LoopRequests DEF Get, PutIfAbsent, Do
  <2>4. ASSUME got[c].status = 200, got[c].whole, PutIfVersion(c, got[c].value + 1, got[c].version)
        PROVE  Told' /\ Known'
    <3>1. PICK v \in Nat : v = got[c].version /\ v = got[c].value
      BY <1>0, <2>4 DEF KInv, Counting, Tally
    <3>2. Submit(c, plan.entrance[c], Request("PUT", v + 1, <<v>>, <<>>))
      BY <2>4, <3>1 DEF PutIfVersion, Do
    <3> QED BY <2>2, <3>2, LoopRequests
  <2>5. Told' /\ Known'
    <3>1. CASE Begin(c)
      BY <2>3, <3>1 DEF Begin
    <3>2. CASE AfterGet(c)
      BY <1>1, <2>3, <2>4, <3>2 DEF AfterGet, Finish
    <3>3. CASE AfterPut(c)
      BY <1>1, <2>3, <3>3 DEF AfterPut, Finish
    <3> QED BY <1>4, <3>1, <3>2, <3>3
  <2> QED BY <1>0, <2>1, <2>5 DEF AInv
<1> QED BY <1>2, <1>3, <1>4 DEF CounterNext

\* Nobody has begun.
LEMMA InitAInv == CounterInit => AInv
<1> SUFFICES ASSUME CounterInit PROVE AInv
  OBVIOUS
<1>1. KInv
  BY InitKInv
<1>2. Told /\ Known
  BY DEF CounterInit, Init, Told, Known
<1>3. ASSUME NEW c \in Client PROVE Accounted(c) /\ req[c] = Nil /\ phase[c] # "put"
  <2>1. CounterLog = <<>> /\ msgs = {} /\ phase[c] # "put" /\ acked[c] = 0 /\ unsure[c] = 0 /\ req[c] = Nil
    BY CounterAssumption, HomeIs DEF CounterInit, Init, CounterLog
  <2>2. Done(c) \ Putting(c) = {} /\ Possible(c) \ Putting(c) = {}
    BY <2>1 DEF Done, Unsettled, Possible
  <2>3. Cardinality(Done(c) \ Putting(c)) = 0 /\ Cardinality(Possible(c) \ Putting(c)) = 0
    BY <2>2, FS_EmptySet, Zenon
  <2>4. acked[c] <= 0 /\ 0 <= acked[c] + unsure[c]
    BY <2>1
  <2> QED BY <2>1, <2>3, <2>4 DEF Accounted
<1>4. /\ phase \in [Client -> {"idle", "get", "put"}]
      /\ acked \in [Client -> Nat] /\ unsure \in [Client -> Nat]
  BY DEF CounterInit
<1> QED BY <1>1, <1>2, <1>3, <1>4 DEF AInv, Books

\* The books are right in every reachable state.
LEMMA BooksInvariance == ASSUME Nat \subseteq Value PROVE CounterSpec => []AInv
<1>1. AInv /\ [CounterNext]_allVars => AInv'
  BY NextAInv
<1> QED BY <1>1, InitAInv, PTL DEF CounterSpec
-----------------------------------------------------------------------------
(* The total.                                                              *)

\* The number of ids is that of every client added up: what bounds each client's ids
\* from below and above, by a, and by a, u and one for those of P, bounds all.
Between(I, s, A, U, P) ==
    LET n == Cardinality({id \in I : id[1] \in s})
    IN  A[s] <= n /\ n <= A[s] + U[s] + Cardinality(P \cap s)

LEMMA AllTogether ==
    ASSUME NEW I \in SUBSET (Client \X Nat), IsFiniteSet(I), NEW P \in SUBSET Client,
           NEW a \in [Client -> Nat], NEW u \in [Client -> Nat],
           NEW A \in [SUBSET Client -> Nat], NEW U \in [SUBSET Client -> Nat],
           A[{}] = 0, U[{}] = 0,
           \A s \in SUBSET Client : s # {} => /\ A[s] = a[Pick(s)] + A[s \ {Pick(s)}]
                                             /\ U[s] = u[Pick(s)] + U[s \ {Pick(s)}],
           \A c \in Client : LET n == Cardinality({id \in I : id[1] = c})
                             IN  a[c] <= n /\ n <= a[c] + u[c] + (IF c \in P THEN 1 ELSE 0)
    PROVE  Between(I, Client, A, U, P)
<1> DEFINE S == {i \in Nat : \E s \in SUBSET Client : Cardinality(s) = i /\ ~Between(I, s, A, U, P)}
<1>1. ASSUME S # {} PROVE FALSE
  <2>1. PICK i \in S : \A j \in S : i <= j
    BY <1>1, Least
  <2>2. PICK s \in SUBSET Client : Cardinality(s) = i /\ ~Between(I, s, A, U, P)
    BY <2>1
  <2>3. CASE s = {}
    <3>1. {id \in I : id[1] \in s} = {} /\ P \cap s = {}
      BY <2>3
    <3>2. Cardinality({id \in I : id[1] \in s}) = 0 /\ Cardinality(P \cap s) = 0
      BY <3>1, FS_EmptySet
    <3>3. Between(I, s, A, U, P)
      BY <2>3, <3>2 DEF Between
    <3> QED BY <2>2, <3>3
  <2>4. CASE s # {}
    <3>1. PICK c, r : c = Pick(s) /\ r = s \ {c}
      OBVIOUS
    <3>2. c \in s /\ r \in SUBSET Client /\ Cardinality(r) = i - 1 /\ i - 1 \in Nat /\ ~(i <= i - 1)
      BY <2>2, <2>4, <3>1, FewerClients
    <3>3. Between(I, r, A, U, P)
      BY <2>1, <3>2
    <3>4. PICK X, Y, Z : /\ X = {id \in I : id[1] \in s} /\ Y = {id \in I : id[1] \in r}
                         /\ Z = {id \in I : id[1] = c}
      OBVIOUS
    <3>5. X = Y \cup Z /\ Y \cap Z = {}
      BY <3>1, <3>2, <3>4
    <3>6. IsFiniteSet(Y) /\ IsFiniteSet(Z)
      BY <3>4, FS_Subset
    <3>7. Cardinality(Y) \in Nat /\ Cardinality(Z) \in Nat
      BY <3>6, FS_CardinalityType
    <3>8. Cardinality(X) = Cardinality(Y) + Cardinality(Z)
      <4>1. Cardinality(X) = Cardinality(Y) + Cardinality(Z) - Cardinality(Y \cap Z)
        BY <3>5, <3>6, FS_Union
      <4>2. Cardinality(Y \cap Z) = 0
        BY <3>5, FS_EmptySet
      <4> QED BY <3>7, <4>1, <4>2
    <3>9. PICK one : one = IF c \in P THEN 1 ELSE 0
      OBVIOUS
    <3>10. /\ Cardinality(P \cap r) \in Nat /\ one \in Nat
           /\ Cardinality(P \cap s) = Cardinality(P \cap r) + one
      <4>0. PICK V, W : V = P \cap r /\ W = P \cap s
        OBVIOUS
      <4>1. IsFiniteSet(V) /\ Cardinality(V) \in Nat
        <5>1. V \in SUBSET Client
          BY <3>2, <4>0
        <5> QED BY <5>1, FewerClients
      <4>2. CASE c \in P
        <5>1. W = V \cup {c} /\ c \notin V
          BY <3>1, <3>2, <4>0, <4>2
        <5>2. Cardinality(W) = Cardinality(V) + 1
          BY <4>1, <5>1, FS_AddElement
        <5> QED BY <3>9, <4>0, <4>1, <4>2, <5>2
      <4>3. CASE c \notin P
        <5>1. Cardinality(W) = Cardinality(V)
          <6>1. W = V
            BY <3>1, <4>0, <4>3
          <6> QED BY <6>1
        <5> QED BY <3>9, <4>0, <4>1, <4>3, <5>1
      <4> QED BY <4>2, <4>3
    <3>11. a[c] <= Cardinality(Z) /\ Cardinality(Z) <= a[c] + u[c] + one
      BY <2>2, <3>2, <3>4, <3>9
    <3>12. A[r] <= Cardinality(Y) /\ Cardinality(Y) <= A[r] + U[r] + Cardinality(P \cap r)
      BY <3>3, <3>4 DEF Between
    <3>13. A[s] = a[c] + A[r] /\ U[s] = u[c] + U[r]
      BY <2>4, <3>1
    <3>14. a[c] \in Nat /\ u[c] \in Nat /\ A[r] \in Nat /\ U[r] \in Nat
      BY <3>2
    <3>15. A[s] <= Cardinality(X) /\ Cardinality(X) <= A[s] + U[s] + Cardinality(P \cap s)
      BY <3>7, <3>8, <3>10, <3>11, <3>12, <3>13, <3>14
    <3>16. Between(I, s, A, U, P)
      BY <3>4, <3>15 DEF Between
    <3> QED BY <2>2, <3>16
  <2> QED BY <2>3, <2>4
<1>2. Client \in SUBSET Client /\ Cardinality(Client) \in Nat
  BY FewerClients
<1> QED BY <1>1, <1>2

\* The counter has as many writes as ids in its log, for no id is there twice.
LEMMA TotalIs ==
    ASSUME KInv
    PROVE  LET I == {CounterLog[x] : x \in DOMAIN CounterLog}
           IN  IsFiniteSet(I) /\ I \in SUBSET (Client \X Nat) /\ Total = Cardinality(I)
<1>0. /\ CInv /\ Types /\ Counting /\ counter \in Key /\ Home(counter) \in NodeID
  BY CounterAssumption, HomeIs DEF KInv, CInv
<1>1. PICK L \in Seq(Client \X Nat) : L = CounterLog
  BY <1>0 DEF CounterLog, Types
<1>2. PICK I : I = {L[x] : x \in DOMAIN L}
  OBVIOUS
<1>3. Len(L) \in Nat /\ DOMAIN L = 1..Len(L) /\ I \in SUBSET (Client \X Nat)
  BY <1>2
<1>4. \A x, y \in 1..Len(L) : L[x] = L[y] => x = y
  <2>1. \A x, y \in DOMAIN log[Home(counter)][counter] :
          log[Home(counter)][counter][x] = log[Home(counter)][counter][y] => x = y
    BY <1>0 DEF CInv, Distinct
  <2> QED BY <1>1, <1>3, <2>1 DEF CounterLog
<1>5. PICK f : f = [x \in 1..Len(L) |-> L[x]]
  OBVIOUS
<1>6. f \in [1..Len(L) -> I] /\ \A x \in 1..Len(L) : f[x] = L[x]
  BY <1>2, <1>3, <1>5
<1>7. f \in Surjection(1..Len(L), I)
  BY <1>2, <1>3, <1>6 DEF Surjection
<1>8. f \in Injection(1..Len(L), I)
  BY <1>4, <1>6 DEF Injection, IsInjective
<1>9. IsFiniteSet(1..Len(L)) /\ Cardinality(1..Len(L)) = Len(L)
  <2>1. PICK n \in Nat : n = Len(L)
    BY <1>3
  <2>2. IsFiniteSet(1..n) /\ Cardinality(1..n) = n
    BY FS_Interval
  <2> QED BY <2>1, <2>2
<1>10. IsFiniteSet(I) /\ Cardinality(I) = Len(L)
  BY <1>7, <1>8, <1>9, FS_Surjection
<1>11. PICK e \in Entries : e = db[Home(counter)][counter]
  BY <1>0 DEF Types
<1>12. e.version = Len(L) /\ (e # Absent => e.value = e.version)
  BY <1>0, <1>1, <1>11 DEF CInv, Counted, CounterLog, Counting
<1>13. Total = Len(L)
  BY <1>11, <1>12 DEF Total, Num, Absent
<1> QED BY <1>1, <1>2, <1>3, <1>10, <1>13

\* The ids of one client are its increments that are done.
LEMMA DoneIs ==
    ASSUME KInv, NEW c \in Client, NEW I, I = {CounterLog[x] : x \in DOMAIN CounterLog}
    PROVE  /\ IsFiniteSet(Done(c)) /\ Cardinality({id \in I : id[1] = c}) = Cardinality(Done(c))
<1>0. /\ CInv /\ Types /\ counter \in Key /\ Home(counter) \in NodeID /\ sent[c] \in Nat
  BY CounterAssumption, HomeIs DEF KInv, CInv, Types
<1>1. CounterLog \in Seq(Client \X Nat)
  BY <1>0 DEF CounterLog, Types
<1>2. PICK X, D : X = {id \in I : id[1] = c} /\ D = Done(c)
  OBVIOUS
<1>3. \A i \in D : <<c, i>> \in X
  BY <1>2 DEF Done
<1>4. ASSUME NEW id \in X PROVE \E i \in D : id = <<c, i>>
  <2>1. PICK x \in DOMAIN CounterLog : id = CounterLog[x]
    BY <1>2
  <2>2. CounterLog[x] \in Client \X Nat /\ CounterLog[x][2] <= sent[CounterLog[x][1]]
    BY <1>0, <1>1 DEF CInv, LogSound, CounterLog
  <2>3. id = <<c, id[2]>> /\ id[2] \in 0..sent[c]
    BY <1>0, <1>2, <2>1, <2>2
  <2> QED BY <1>2, <2>1, <2>3 DEF Done
<1>5. IsFiniteSet(D)
  <2>1. D \ {} = D
    OBVIOUS
  <2> QED BY <1>0, <1>2, <2>1, FiniteBooks
<1>6. PICK f : f = [i \in D |-> <<c, i>>]
  OBVIOUS
<1>7. f \in [D -> X] /\ \A i \in D : f[i] = <<c, i>>
  BY <1>3, <1>6
<1>8. f \in Surjection(D, X)
  BY <1>4, <1>7 DEF Surjection
<1>9. f \in Injection(D, X)
  BY <1>7 DEF Injection, IsInjective
<1>10. Cardinality(X) = Cardinality(D)
  BY <1>5, <1>8, <1>9, FS_Surjection
<1> QED BY <1>2, <1>5, <1>10

\* While the node of the counter lives, every increment that was reported done is in the
\* counter, once, and beyond these at most those that their clients are not sure of: for
\* any number of clients, increments and attempts, whatever is lost, late or cut.  Every
\* number is a value that can be stored.
THEOREM IncrementsAreExact == ASSUME Nat \subseteq Value PROVE CounterSpec => []CounterExact
<1>1. ASSUME AInv, Home(counter) \notin plan.crashes
      PROVE  /\ Sum(acked) <= Total
             /\ Total <= Sum(acked) + Sum(unsure) + Cardinality({c \in Client : phase[c] = "put"})
  <2>0. KInv /\ Books /\ CInv
    BY <1>1 DEF AInv, KInv
  <2>1. PICK I : I = {CounterLog[x] : x \in DOMAIN CounterLog}
    OBVIOUS
  <2>2. IsFiniteSet(I) /\ I \in SUBSET (Client \X Nat) /\ Total = Cardinality(I)
    BY <2>0, <2>1, TotalIs
  <2>3. PICK a \in [Client -> Nat], u \in [Client -> Nat] : a = acked /\ u = unsure
    BY <2>0 DEF Books
  <2>4. PICK A \in [SUBSET Client -> Nat] :
          /\ Sum(a) = A[Client] /\ A[{}] = 0
          /\ \A s \in SUBSET Client : s # {} => A[s] = a[Pick(s)] + A[s \ {Pick(s)}]
    BY SumIs
  <2>5. PICK U \in [SUBSET Client -> Nat] :
          /\ Sum(u) = U[Client] /\ U[{}] = 0
          /\ \A s \in SUBSET Client : s # {} => U[s] = u[Pick(s)] + U[s \ {Pick(s)}]
    BY SumIs
  <2>6. PICK P \in SUBSET Client : P = {c \in Client : phase[c] = "put"}
    OBVIOUS
  <2>7. ASSUME NEW c \in Client, NEW n, n = Cardinality({id \in I : id[1] = c})
        PROVE  a[c] <= n /\ n <= a[c] + u[c] + (IF c \in P THEN 1 ELSE 0)
    <3>1. PICK D, Q, E : D = Done(c) /\ Q = Possible(c) /\ E = Putting(c)
      OBVIOUS
    <3>2. n = Cardinality(D) /\ D \in SUBSET Q
      BY <2>0, <2>1, <2>7, <3>1, DoneIs DEF Possible
    <3>3. IsFiniteSet(D) /\ IsFiniteSet(Q) /\ Cardinality(D) \in Nat /\ Cardinality(Q) \in Nat
      <4>1. sent[c] \in Nat /\ D \ {} = D /\ Q \ {} = Q
        BY <2>0 DEF CInv, Types
      <4> QED BY <3>1, <4>1, FiniteBooks
    <3>4. a[c] <= Cardinality(D \ E) /\ Cardinality(Q \ E) <= a[c] + u[c]
      BY <1>1, <2>0, <2>3, <3>1 DEF Books, Accounted
    <3>5. Cardinality(D) <= Cardinality(Q)
      BY <3>2, <3>3, FS_Subset
    <3>6. /\ Cardinality(D \ E) \in Nat /\ Cardinality(D \ E) <= Cardinality(D)
      <4>1. D \ E \in SUBSET D
        OBVIOUS
      <4>2. IsFiniteSet(D \ E) /\ Cardinality(D \ E) <= Cardinality(D)
        BY <3>3, <4>1, FS_Subset
      <4> QED BY <4>2, FS_CardinalityType
    <3>7. Cardinality(Q \ E) \in Nat
      BY <2>0, <3>1, FiniteBooks DEF CInv, Types
    <3>8. PICK one \in Nat : one = IF c \in P THEN 1 ELSE 0
      OBVIOUS
    <3>9. Cardinality(Q) <= Cardinality(Q \ E) + one
      <4>1. CASE c \in P
        <5>1. PICK i : E = {i}
          BY <2>6, <3>1, <4>1 DEF Putting
        <5>2. Cardinality(Q \ E) = IF i \in Q THEN Cardinality(Q) - 1 ELSE Cardinality(Q)
          BY <3>3, <5>1, FS_RemoveElement
        <5> QED BY <3>3, <3>8, <4>1, <5>2
      <4>2. CASE c \notin P
        <5>1. Q \ E = Q
          BY <2>6, <3>1, <4>2 DEF Putting
        <5>2. Cardinality(Q \ E) = Cardinality(Q)
          BY <5>1
        <5> QED BY <3>3, <3>8, <4>2, <5>2
      <4> QED BY <4>1, <4>2
    <3>10. a[c] \in Nat /\ u[c] \in Nat
      OBVIOUS
    <3>11. a[c] <= n /\ n <= a[c] + u[c] + one
      BY <3>2, <3>3, <3>4, <3>5, <3>6, <3>7, <3>8, <3>9, <3>10
    <3> QED BY <3>8, <3>11
  <2>8. Between(I, Client, A, U, P)
    BY <2>2, <2>4, <2>5, <2>7, AllTogether
  <2>9. {id \in I : id[1] \in Client} = I /\ P \cap Client = P
    BY <2>2
  <2> QED BY <2>2, <2>3, <2>4, <2>5, <2>6, <2>8, <2>9 DEF Between
<1>2. AInv => CounterExact
  BY <1>1 DEF CounterExact
<1> QED BY <1>2, BooksInvariance, PTL
=============================================================================
