--------------------------- MODULE SessionsProofs ---------------------------
(***************************************************************************)
(* Theorems about Sessions, for every set of clients, nodes and proxies,   *)
(* every configuration of the proxies and every plan.                      *)
(*                                                                         *)
(* They rest on the invariant CInv of ClusterProofs and on Known: what an  *)
(* answer says, on its way or received, is so and stays so.  A refusal     *)
(* stays true because the request it answers has no message left that a    *)
(* node could still handle.                                                *)
(***************************************************************************)
EXTENDS Sessions, ClusterProofs

Within == plan \in Plans /\ \A c \in Client : sent[c] <= plan.requests[c]

SInv == CInv /\ Within /\ Told /\ Known

-----------------------------------------------------------------------------
\* Nobody has asked anything yet.
LEMMA InitSInv == SessionsInit => SInv
<1> SUFFICES ASSUME SessionsInit PROVE SInv
  OBVIOUS
<1>1. CInv
  BY InitCInv DEF SessionsInit
<1>2. Within
  BY SessionsAssumption DEF SessionsInit, Init, Within
<1>3. Told /\ Known
  BY DEF SessionsInit, Init, Told, Known
<1> QED BY <1>1, <1>2, <1>3 DEF SInv

\* Every step keeps the invariant.
LEMMA NextSInv == SInv /\ [Next]_allVars => SInv'
<1> SUFFICES ASSUME SInv, [Next]_allVars PROVE SInv'
  OBVIOUS
<1> USE DEF SInv
<1>1. CASE UNCHANGED allVars
  <2>1. UNCHANGED <<db, up, msgs, sent, req, got, log, since, plan>>
    BY <1>1 DEF allVars, vars
  <2>2. CInv' /\ Told' /\ Known'
    BY <2>1, NothingHappens DEF vars
  <2>3. Within'
    BY <2>1 DEF Within
  <2> QED BY <2>2, <2>3
<1>2. CASE (Progress \/ Failures \/ Crashes(plan.crashes)) /\ UNCHANGED plan
  <2>1. plan.crashes \in SUBSET NodeID
    BY SessionsAssumption DEF Within
  <2>2. CInv' /\ Told' /\ Known' /\ sent' = sent
    BY <1>2, <2>1, ClusterKeeps, ClusterKnown
  <2> QED BY <1>2, <2>2 DEF Within
<1>3. ASSUME NEW c \in Client, Ask(c), UNCHANGED plan PROVE SInv'
  <2>1. PICK v \in plan.entrance[c], r \in plan.workload[c] : Submit(c, v, r)
    BY <1>3 DEF Ask
  <2>2. v \in NodeID \cup ProxyID /\ r \in Requests
    BY <2>1, SessionsAssumption DEF Within
  <2>3. CInv' /\ Told' /\ Known'
    BY <2>1, <2>2, SubmitKeeps, SubmitKnown
  <2>4. Within'
    <3>1. \A d \in Client : sent[d] \in Nat /\ plan.requests[d] \in Nat
      BY SessionsAssumption DEF Within, CInv, Types
    <3>2. sent \in [Client -> Nat] /\ sent' = [sent EXCEPT ![c] = @ + 1] /\ sent[c] < plan.requests[c]
      BY <1>3, <2>1 DEF Ask, Submit, CInv, Types
    <3> QED BY <1>3, <3>1, <3>2 DEF Within
  <2> QED BY <2>3, <2>4
<1> QED BY <1>1, <1>2, <1>3 DEF Next

\* The invariant holds in every reachable state.
LEMMA SessionsInvariance == Spec => []SInv
  BY InitSInv, NextSInv, PTL DEF Spec

-----------------------------------------------------------------------------
\* No request is applied twice, by whatever nodes, whatever was forwarded, timed out or
\* asked again, and a key's version counts the writes applied since its node started.
THEOREM AppliedAtMostOnce == Spec => []AppliedOnce
<1>1. SInv => AppliedOnce
  BY DEF SInv, CInv, Distinct, Counted, AppliedOnce
<1> QED BY <1>1, SessionsInvariance, PTL

\* What the answer to a write says of it is so, and stays so however long the client
\* waits and whatever happens to the requests of others, unless the node dies.
THEOREM AnswersHold == Spec => []AnswersAreTrue
<1>1. ASSUME SInv PROVE AnswersAreTrue
  <2> SUFFICES ASSUME NEW c \in Client, IsWrite(c), Answered(c), since[c] # Lost
               PROVE  IF got[c].status = 200
                      THEN IF got[c].whole THEN AppliedAt(c, got[c].version)
                           ELSE \E i \in DOMAIN Writes(c) : AppliedAt(c, i)
                      ELSE \A i \in DOMAIN Writes(c) : ~AppliedAt(c, i)
    BY DEF AnswersAreTrue
  <2>1. KnownTo(c)
    BY <1>1 DEF SInv, Known
  <2>2. Fate(c, got[c])
    BY <2>1 DEF KnownTo, AnswerOk, Answered, Definite
  <2> QED BY <2>2 DEF Fate
<1> QED BY <1>1, SessionsInvariance, PTL

\* An answer knows of every write that was applied before its request was made.
THEOREM ReadsFresh == Spec => []ReadsAreFresh
<1>1. ASSUME SInv PROVE ReadsAreFresh
  <2>1. ASSUME NEW c \in Client, since[c] # Lost PROVE Fresh(c, got[c])
    BY <1>1, <2>1 DEF SInv, Known, KnownTo, AnswerOk
  <2> QED BY <2>1 DEF ReadsAreFresh, Fresh
<1> QED BY <1>1, SessionsInvariance, PTL

\* Every client waits for exactly one message, and what is under way is a request that
\* its client made, held by a node that runs or by someone its client still waits for.
THEOREM SessionTypes == Spec => []TypeOK
<1>1. ASSUME SInv PROVE TypeOK
  <2> USE <1>1
  <2>0. CInv /\ Types
    BY DEF SInv, CInv
  <2>1. Entries \subseteq [value : Value \cup {Nil}, version : Nat]
    BY DEF Entries, Absent
  <2>2. db \in [NodeID -> [Key -> [value : Value \cup {Nil}, version : Nat]]]
    BY <2>0, <2>1 DEF Types
  <2>3. plan \in Plans /\ \A c \in Client : sent[c] \in 0..plan.requests[c]
    <3>1. \A c \in Client : sent[c] \in Nat /\ plan.requests[c] \in Nat
      BY <2>0, SessionsAssumption DEF SInv, Within, Types
    <3> QED BY <3>1 DEF SInv, Within
  <2>4. got \in [Client -> Answers]
    <3>1. Replies \subseteq Answers
      BY DEF Replies, Answers, NodeStatuses
    <3>2. Waiting \in Answers
      BY DEF Waiting, Bare, Answer, Answers
    <3> QED BY <2>0, <3>1, <3>2 DEF Types
  <2>5. ASSUME NEW c \in Client
        PROVE  got[c] = Waiting <=> Cardinality({m \in msgs : m.open /\ m.id = Id(c)}) = 1
    <3>1. CASE got[c] = Waiting
      <4>1. PICK l \in msgs : l.open /\ l.id = Id(c)
        BY <2>0, <3>1 DEF CInv, Heard
      <4>2. {m \in msgs : m.open /\ m.id = Id(c)} = {l}
        BY <2>0, <4>1 DEF CInv, OneEach, Same
      <4> QED BY <3>1, <4>2, FS_Singleton
    <3>2. CASE got[c] # Waiting
      <4>1. \A m \in msgs : m.open => m.id = Id(m.id[1]) /\ got[m.id[1]] = Waiting
        BY <2>0 DEF CInv, MessagesSound, Underway, Current
      <4>2. Id(c)[1] = c
        BY DEF Id
      <4>3. {m \in msgs : m.open /\ m.id = Id(c)} = {}
        BY <3>2, <4>1, <4>2
      <4> QED BY <3>2, <4>3, FS_EmptySet
    <3> QED BY <3>1, <3>2
  <2>6. ASSUME NEW m \in msgs
        PROVE  /\ m.at \in {"proxy", "node", "back"} /\ m.id[2] \in 1..sent[m.id[1]]
               /\ m.at = "node" => up[m.node] # "down"
               /\ m.at = "back" => m.open
    BY <2>0 DEF CInv, Types, Messages, MessagesSound, Underway
  <2> QED BY <2>0, <2>2, <2>3, <2>4, <2>5, <2>6 DEF TypeOK, Types
<1> QED BY <1>1, SessionsInvariance, PTL

-----------------------------------------------------------------------------
\* A list whose end is known is not the list without it.
LEMMA AppendGrows ==
    \A L \in Seq(Client \X Nat), x, y \in Client \X Nat :
        /\ Append(L, x) # L /\ Append(L, x) # <<>>
        /\ Append(L, x) = Append(L, y) => x = y
<1> SUFFICES ASSUME NEW L \in Seq(Client \X Nat), NEW x \in Client \X Nat,
                    NEW y \in Client \X Nat
             PROVE  /\ Append(L, x) # L /\ Append(L, x) # <<>>
                    /\ Append(L, x) = Append(L, y) => x = y
  OBVIOUS
<1>1. Len(L) \in Nat /\ Len(Append(L, x)) = Len(L) + 1
      /\ Append(L, x)[Len(L) + 1] = x /\ Append(L, y)[Len(L) + 1] = y
  OBVIOUS
<1>2. Len(L) + 1 # Len(L) /\ Len(L) + 1 # Len(<<>>)
  BY <1>1
<1> QED BY <1>1, <1>2, Zenon

\* Every guard that r states holds of the entry x.
GuardsHold(r, x) ==
    /\ \A i \in DOMAIN r.ifVersion : r.ifVersion[i] = x.version
    /\ \A i \in DOMAIN r.ifAbsent :
          r.ifAbsent[i] = FALSE \/ (r.ifAbsent[i] = TRUE /\ x = Absent)

\* A write that a node applies is accepted, with every guard it states.
LEMMA AppliedAsGuarded ==
    ASSUME NEW nd, NEW x \in Entries, NEW r \in Requests, NEW count, After(nd, x, r, count) # x
    PROVE  GuardsHold(r, x)
<1>1. Accepts(nd, r, count) /\ r.method # "GET" /\ ~GuardFails(x, Call(r))
  BY AfterIsEntry
<1>2. GuardsParse(r) /\ Call(r).ifAbsent = IfAbsent(r) /\ Call(r).ifVersion = IfVersion(r)
  BY <1>1, Accepted, AcceptedWrite DEF WriteOk
<1>3. r.ifVersion \in Seq(Nat \cup {Bad}) /\ r.ifAbsent \in Seq(BOOLEAN \cup {Bad})
  BY DEF Requests
<1>4. ASSUME NEW i \in DOMAIN r.ifVersion PROVE r.ifVersion[i] = x.version
  <2>1. i = 1 /\ r.ifVersion # <<>> /\ r.ifVersion[1] \in Nat \cup {Bad}
    BY <1>2, <1>3, <1>4 DEF GuardsParse
  <2>2. IfVersion(r) = r.ifVersion[1]
    BY <2>1 DEF IfVersion
  <2>3. IfVersion(r) # Nil
    BY <1>2, <2>1, <2>2, ClusterAssumption DEF GuardsParse
  <2> QED BY <1>1, <1>2, <2>1, <2>2, <2>3 DEF GuardFails
<1>5. ASSUME NEW i \in DOMAIN r.ifAbsent
      PROVE  r.ifAbsent[i] = FALSE \/ (r.ifAbsent[i] = TRUE /\ x = Absent)
  <2>1. i = 1 /\ r.ifAbsent # <<>> /\ r.ifAbsent[1] \in BOOLEAN \cup {Bad}
    BY <1>2, <1>3, <1>5 DEF GuardsParse
  <2>2. r.ifAbsent[1] # Bad
    BY <1>2, <2>1, <1>5 DEF GuardsParse
  <2>3. r.ifAbsent[1] = TRUE => IfAbsent(r)
    BY <2>1 DEF IfAbsent
  <2> QED BY <1>1, <1>2, <2>1, <2>2, <2>3 DEF GuardFails
<1> QED BY <1>4, <1>5, Zenon DEF GuardsHold

\* Who appends to a log is the handler of the request that is appended.
LEMMA OnlyHandleAppends ==
    ASSUME SInv, [Next]_allVars, NEW m \in msgs, m.at = "node",
           log'[m.node][m.req.key] = Append(log[m.node][m.req.key], m.id)
    PROVE  Handle(m) /\ After(NodeConf[m.node], db[m.node][m.req.key], m.req, CountHeader(m))
                            # db[m.node][m.req.key]
<1>0. CInv /\ Types /\ m \in Messages /\ Underway(m)
  BY DEF SInv, CInv, Types, MessagesSound
<1>1. PICK n \in NodeID, k \in Key : n = m.node /\ k = m.req.key
  BY <1>0 DEF Underway, Messages, Requests
<1>2. PICK L \in Seq(Client \X Nat), id \in Client \X Nat : L = log[n][k] /\ id = m.id
  BY <1>0, ZenonT(60) DEF Types, Messages
<1>3. log'[n][k] # L /\ log'[n][k] # <<>> /\ log'[n][k] = Append(L, id)
  <2>1. log'[n][k] = Append(L, id)
    BY <1>1, <1>2
  <2> QED BY <1>2, <2>1, AppendGrows
<1>4. ASSUME NEW x \in msgs, Handle(x) PROVE x = m
  <2>1. PICK y, e : /\ e = db[x.node][x.req.key]
                    /\ y = After(NodeConf[x.node], e, x.req, CountHeader(x))
    OBVIOUS
  <2>2. /\ \A a \in NodeID, b \in Key : a # x.node \/ b # x.req.key => log'[a][b] = log[a][b]
        /\ log'[x.node][x.req.key] = IF y = e THEN log[x.node][x.req.key]
                                     ELSE Append(log[x.node][x.req.key], x.id)
        /\ x.id \in Client \X Nat
    BY <1>0, <1>4, <2>1, HandleStep
  <2>3. n = x.node /\ k = x.req.key
    BY <1>2, <1>3, <2>2
  <2>4. Append(L, x.id) = Append(L, id)
    BY <1>2, <1>3, <2>2, <2>3
  <2>5. PICK j \in Client \X Nat : j = x.id
    BY <2>2
  <2>6. x.id = m.id
    BY <1>2, <2>4, <2>5, AppendGrows
  <2> QED BY <1>0, <1>4, <2>6 DEF CInv, OneEach, Same, MayApply, Handle
<1>5. ASSUME NEW l \in NodeID, Crash(l) PROVE log'[n][k] = L \/ log'[n][k] = <<>>
  BY <1>0, <1>2, <1>5 DEF Crash, Types
<1>6. Handle(m)
  <2>1. CASE UNCHANGED allVars
    BY <2>1, <1>2, <1>3 DEF allVars, vars
  <2>2. ASSUME NEW c \in Client, Ask(c) PROVE UNCHANGED log
    BY <2>2 DEF Ask, Submit
  <2>3. ASSUME Failures PROVE UNCHANGED log
    BY <2>3 DEF Failures, TimeOut, DeliverCut, Receive, GiveUp
  <2>4. ASSUME NEW x \in msgs, Forward(x) PROVE UNCHANGED log
    BY <2>4 DEF Forward
  <2>5. ASSUME NEW x \in msgs, NEW c \in Client, Deliver(c, x) PROVE UNCHANGED log
    BY <2>5 DEF Deliver, Receive
  <2>6. ASSUME NEW l \in NodeID, Shutdown(l) \/ Restart(l) PROVE UNCHANGED log
    BY <2>6 DEF Shutdown, Restart
  <2>7. plan.crashes \subseteq NodeID
    BY SessionsAssumption DEF SInv, Within
  <2>8. log' # log
    BY <1>2, <1>3
  <2> QED BY <1>3, <1>4, <1>5, <2>1, <2>2, <2>3, <2>4, <2>5, <2>6, <2>7, <2>8
          DEF Next, Progress, Crashes
<1>7. PICK y, e : /\ e = db[m.node][m.req.key]
                  /\ y = After(NodeConf[m.node], e, m.req, CountHeader(m))
  OBVIOUS
<1>8. log'[m.node][m.req.key] = IF y = e THEN log[m.node][m.req.key]
                                ELSE Append(log[m.node][m.req.key], m.id)
  BY <1>0, <1>6, <1>7, HandleStep
<1>9. y # e
  BY <1>1, <1>2, <1>3, <1>8
<1> QED BY <1>6, <1>7, <1>9

\* A write is applied only when every guard of its URL holds, at the moment it is.
THEOREM GuardsHeld == Spec => EveryGuardHolds
<1>1. ASSUME SInv, [Next]_allVars
      PROVE  \A m \in {x \in msgs : x.at = "node"} :
               LET n == m.node k == m.req.key IN
               log'[n][k] = Append(log[n][k], m.id) =>
                   /\ \A i \in DOMAIN m.req.ifVersion : m.req.ifVersion[i] = db[n][k].version
                   /\ \A i \in DOMAIN m.req.ifAbsent :
                         \/ m.req.ifAbsent[i] = FALSE
                         \/ m.req.ifAbsent[i] = TRUE /\ db[n][k] = Absent
  <2> SUFFICES ASSUME NEW m \in msgs, m.at = "node",
                      log'[m.node][m.req.key] = Append(log[m.node][m.req.key], m.id)
               PROVE  /\ \A i \in DOMAIN m.req.ifVersion :
                            m.req.ifVersion[i] = db[m.node][m.req.key].version
                      /\ \A i \in DOMAIN m.req.ifAbsent :
                            \/ m.req.ifAbsent[i] = FALSE
                            \/ m.req.ifAbsent[i] = TRUE /\ db[m.node][m.req.key] = Absent
    OBVIOUS
  <2>1. After(NodeConf[m.node], db[m.node][m.req.key], m.req, CountHeader(m))
          # db[m.node][m.req.key]
    BY <1>1, OnlyHandleAppends
  <2>2. db[m.node][m.req.key] \in Entries /\ m.req \in Requests
    <3>1. Types /\ m \in Messages /\ Underway(m)
      BY <1>1 DEF SInv, CInv, Types, MessagesSound
    <3>2. m.node \in NodeID /\ m.req \in Requests /\ m.req.key \in Key
      BY <3>1 DEF Underway, Messages, Requests
    <3> QED BY <3>1, <3>2 DEF Types
  <2>3. GuardsHold(m.req, db[m.node][m.req.key])
    BY <2>1, <2>2, AppliedAsGuarded
  <2> QED BY <2>3, Zenon DEF GuardsHold
<1>2. SInv /\ [Next]_allVars =>
        [\A m \in {x \in msgs : x.at = "node"} :
           LET n == m.node k == m.req.key IN
           log'[n][k] = Append(log[n][k], m.id) =>
               /\ \A i \in DOMAIN m.req.ifVersion : m.req.ifVersion[i] = db[n][k].version
               /\ \A i \in DOMAIN m.req.ifAbsent :
                     m.req.ifAbsent[i] = FALSE \/ (m.req.ifAbsent[i] = TRUE /\ db[n][k] = Absent)
        ]_allVars
  BY <1>1
<1> QED BY <1>2, SessionsInvariance, PTL DEF Spec, EveryGuardHolds

-----------------------------------------------------------------------------
\* The values of the guards' parameters, in the order given.
VersionGuards == Seq(Nat \cup {Bad})
AbsentGuards  == Seq(BOOLEAN \cup {Bad})

WithGuards(r, v, w) == [r EXCEPT !.ifVersion = v, !.ifAbsent = w]

\* A request with other guards is a request, for the same key and with the same body.
LEMMA Reguarded ==
    ASSUME NEW r \in Requests, NEW v \in VersionGuards, NEW w \in AbsentGuards,
           NEW s, s = WithGuards(r, v, w)
    PROVE  /\ s \in Requests /\ s.method = r.method /\ s.key = r.key /\ s.body = r.body
           /\ s.ifVersion = v /\ s.ifAbsent = w
<1>1. PICK B : B = Value \cup TooLarge \cup NotJSON
  OBVIOUS
<1>2. Requests = [method : STRING, key : Key, body : B, ifVersion : VersionGuards,
                  ifAbsent : AbsentGuards]
  BY <1>1 DEF Requests, VersionGuards, AbsentGuards
<1> QED BY <1>2 DEF WithGuards

\* With the version that a 409 reports, or with ifAbsent if it reports none, the write
\* parses and passes its guards.
LEMMA RetryPasses ==
    ASSUME NEW r \in Requests, NEW x \in Entries, GuardsParse(r), NEW ans,
           ans.version = IF x.version = 0 THEN Nil ELSE x.version
    PROVE  /\ Retried(r, ans) \in Requests /\ Retried(r, ans).method = r.method
           /\ Retried(r, ans).key = r.key /\ Retried(r, ans).body = r.body
           /\ GuardsParse(Retried(r, ans)) /\ ~GuardFails(x, Call(Retried(r, ans)))
<1>0. x.version \in Nat /\ (x.version = 0 <=> x = Absent) /\ (ans.version = Nil <=> x = Absent)
  BY ClusterAssumption, AfterIsEntry DEF Entries, Absent
<1>1. Bad # Nil /\ Bad \notin Nat /\ Bad \notin BOOLEAN /\ Nil \notin Nat
  BY ClusterAssumption
<1>2. PICK s : s = Retried(r, ans)
  OBVIOUS
<1>3. Call(s).ifAbsent = IfAbsent(s) /\ Call(s).ifVersion = IfVersion(s)
  BY DEF Call
<1>4. CASE x = Absent
  <2>0. TRUE \in BOOLEAN \cup {Bad}
    OBVIOUS
  <2>1. PICK w \in AbsentGuards : w = <<TRUE>>
    BY <2>0, ShortLists, Zenon DEF VersionGuards, AbsentGuards
  <2>2. /\ s \in Requests /\ s.method = r.method /\ s.key = r.key /\ s.body = r.body
        /\ s.ifVersion = <<>> /\ s.ifAbsent = w
    <3>0. <<>> \in VersionGuards
      BY DEF VersionGuards
    <3>1. PICK v \in VersionGuards : v = <<>>
      BY <3>0, Zenon
    <3>2. s = WithGuards(r, v, w)
      BY <1>0, <1>2, <1>4, <2>1, <3>1 DEF Retried, WithGuards
    <3>3. /\ s \in Requests /\ s.method = r.method /\ s.key = r.key /\ s.body = r.body
          /\ s.ifVersion = v /\ s.ifAbsent = w
      BY <3>2, Reguarded
    <3> QED BY <3>1, <3>3, Zenon
  <2>3. IfVersion(s) = Nil
    BY <2>2 DEF IfVersion
  <2>4. Len(s.ifVersion) <= 1 /\ Len(s.ifAbsent) <= 1 /\ DOMAIN s.ifAbsent = {1}
    BY <2>1, <2>2
  <2>5. s.ifAbsent[1] # Bad
    <3>1. <<TRUE>>[1] \in BOOLEAN
      OBVIOUS
    <3> QED BY <3>1, <1>1, <2>1, <2>2, Zenon
  <2>6. GuardsParse(s)
    BY <1>1, <2>3, <2>4, <2>5 DEF GuardsParse
  <2>7. ~GuardFails(x, Call(s))
    BY <1>3, <1>4, <2>3 DEF GuardFails
  <2> QED BY <1>2, <2>2, <2>6, <2>7
<1>5. CASE x # Absent
  <2>0. x.version \in Nat \cup {Bad}
    BY <1>0
  <2>1. PICK v \in VersionGuards : v = <<x.version>>
    BY <2>0, ShortLists, Zenon DEF VersionGuards, AbsentGuards
  <2>2. /\ s \in Requests /\ s.method = r.method /\ s.key = r.key /\ s.body = r.body
        /\ s.ifVersion = v /\ s.ifAbsent = <<>>
    <3>0. <<>> \in AbsentGuards
      BY DEF AbsentGuards
    <3>1. PICK w \in AbsentGuards : w = <<>>
      BY <3>0, Zenon
    <3>2. s = WithGuards(r, v, w)
      BY <1>0, <1>2, <1>5, <2>1, <3>1 DEF Retried, WithGuards
    <3>3. /\ s \in Requests /\ s.method = r.method /\ s.key = r.key /\ s.body = r.body
          /\ s.ifVersion = v /\ s.ifAbsent = w
      BY <3>2, Reguarded
    <3> QED BY <3>1, <3>3, Zenon
  <2>3. IfVersion(s) = x.version /\ ~IfAbsent(s)
    BY <2>1, <2>2 DEF IfVersion, IfAbsent
  <2>4. Len(s.ifVersion) <= 1 /\ Len(s.ifAbsent) <= 1 /\ DOMAIN s.ifAbsent = {}
    BY <2>1, <2>2
  <2>5. GuardsParse(s)
    BY <1>0, <1>1, <2>3, <2>4 DEF GuardsParse
  <2>6. ~GuardFails(x, Call(s))
    BY <1>3, <1>5, <2>3 DEF GuardFails
  <2> QED BY <1>2, <2>2, <2>5, <2>6
<1> QED BY <1>4, <1>5

\* A write that is answered with 409 would have been accepted as the 409 tells.
LEMMA RetryAccepted ==
    ASSUME NEW nd, NEW x \in Entries, NEW r \in Requests, NEW count, NEW ans,
           ans = Respond(nd, x, r, count), ans.status = 409
    PROVE  Respond(nd, x, Retried(r, ans), count).status = 200
<1>1. /\ Accepts(nd, r, count) /\ r.method # "GET"
      /\ ans.version = IF x.version = 0 THEN Nil ELSE x.version
  BY RespondCases
<1>2. r.method \in Methods /\ CountOk(nd, count) /\ KeyOk(nd, r.key) /\ WriteOk(r)
  BY <1>1, Accepted
<1>3. PICK s : s = Retried(r, ans)
  OBVIOUS
<1>4. /\ s \in Requests /\ s.method = r.method /\ s.key = r.key /\ s.body = r.body
      /\ GuardsParse(s) /\ ~GuardFails(x, Call(s))
  BY <1>1, <1>2, <1>3, RetryPasses DEF WriteOk
<1>5. Accepts(nd, s, count)
  <2>1. WriteOk(s)
    BY <1>2, <1>4 DEF WriteOk
  <2> QED BY <1>2, <1>4, <2>1, Accepted
<1>6. Call(s).kind = "write" /\ ~ConflictingGuards(Call(s))
  BY <1>1, <1>4, <1>5, AcceptedWrite
<1>7. Respond(nd, x, s, count) = Answer(200, Written(x, Call(s)).value, Written(x, Call(s)).version)
  BY <1>4, <1>5, <1>6 DEF Respond, Outcome, Result
<1> QED BY <1>3, <1>7 DEF Answer

\* A 409 that was not there before is the answer of a handler.
LEMMA OnlyHandleConflicts ==
    ASSUME SInv, [Next]_allVars, NEW m \in msgs', m \notin msgs, m.at = "back", m.ans.status = 409
    PROVE  \E x \in msgs : Handle(x)
<1>0. CInv /\ Types /\ msgs \subseteq Messages
  BY DEF SInv, CInv, Types
<1>1. /\ Bare(405).status = 405 /\ Unavailable.status = 503 /\ NoAnswer.status = 1
      /\ Bare(405) \in Replies /\ Unavailable \in Replies /\ NoAnswer \in Replies
  BY BareReplies DEF Unavailable, NoAnswer, Bare, Answer
<1>2. ASSUME NEW x \in msgs, NEW a, a \in {Bare(405), Unavailable, NoAnswer} PROVE m # Back(x, a)
  <2>1. Back(x, a).ans = a
    BY <1>0, <1>1, <1>2, SentBack
  <2> QED BY <1>1, <1>2, <2>1
<1>3. ASSUME NEW x \in msgs, Forward(x) PROVE FALSE
  <2>1. PICK new : /\ Becomes(x, new)
                   /\ \/ new = Back(x, Bare(405)) \/ new = Back(x, Unavailable)
                      \/ new = At(x, "node", Target(x))
    BY <1>3 DEF Forward, MethodNotAllowed
  <2>2. m = new
    BY <2>1 DEF Becomes
  <2>3. At(x, "node", Target(x)).at = "node"
    BY <1>0 DEF At, Messages
  <2> QED BY <1>2, <2>1, <2>2, <2>3
<1>4. ASSUME NEW x \in msgs, TimeOut(x) PROVE FALSE
  <2>1. m = Back(x, Unavailable) \/ (m = [x EXCEPT !.open = FALSE] /\ m.at = "node")
    BY <1>4 DEF TimeOut
  <2> QED BY <1>2, <2>1
<1>5. ASSUME NEW x \in msgs, NEW c \in Client, Deliver(c, x) \/ DeliverCut(c, x) PROVE FALSE
  BY <1>5 DEF Deliver, DeliverCut, Receive
<1>6. ASSUME NEW c \in Client, GiveUp(c) PROVE FALSE
  <2>1. PICK x \in msgs : m = [x EXCEPT !.open = FALSE] /\ x.at # "back"
    BY <1>6 DEF GiveUp
  <2>2. x \in Messages
    BY <1>0
  <2> QED BY <2>1, <2>2, Closed
<1>7. ASSUME NEW n \in NodeID, Shutdown(n) \/ Restart(n) PROVE FALSE
  BY <1>7 DEF Shutdown, Restart
<1>8. ASSUME NEW n \in NodeID, Crash(n) PROVE FALSE
  <2>1. PICK x \in msgs : m = Back(x, Failure(x))
    BY <1>8 DEF Crash
  <2> QED BY <1>2, <2>1 DEF Failure
<1>9. ASSUME NEW c \in Client, Ask(c) PROVE FALSE
  BY <1>9 DEF Ask, Submit
<1>10. CASE UNCHANGED allVars
  BY <1>10 DEF allVars, vars
<1>11. plan.crashes \subseteq NodeID
  BY SessionsAssumption DEF SInv, Within
<1> QED BY <1>3, <1>4, <1>5, <1>6, <1>7, <1>8, <1>9, <1>10, <1>11
        DEF Next, Progress, Failures, Crashes

\* The version in a 409, or its absence, is a guard with which the same write would have
\* been accepted at that moment.
THEOREM ConflictsHelp == Spec => ConflictsTellHow
<1>1. ASSUME SInv, [Next]_allVars, NEW m \in msgs', m \notin msgs, m.at = "back",
             m.ans.status = 409
      PROVE  Respond(NodeConf[m.node], db[m.node][m.req.key], Retried(m.req, m.ans),
                     CountHeader(m)).status = 200
  <2>1. PICK x \in msgs : Handle(x)
    BY <1>1, OnlyHandleConflicts
  <2>2. PICK e, ans : /\ e = db[x.node][x.req.key]
                      /\ ans = Respond(NodeConf[x.node], e, x.req, CountHeader(x))
    OBVIOUS
  <2>3. /\ ans \in NodeReplies /\ e \in Entries /\ x.req \in Requests
        /\ \A z \in msgs' : (z \in msgs /\ z # x) \/ (z = Back(x, ans) /\ x.open)
    <3>1. CInv
      BY <1>1 DEF SInv
    <3> QED BY <2>1, <2>2, <3>1, HandleStep
  <2>4. m = Back(x, ans)
    BY <1>1, <2>3
  <2>5. x \in Messages /\ ans \in Replies
    BY <1>1, <2>3, BareReplies DEF SInv, CInv, Types
  <2>6. m.ans = ans /\ m.node = x.node /\ m.req = x.req /\ m.via = x.via
    BY <2>4, <2>5, SentBack
  <2>7. CountHeader(m) = CountHeader(x)
    BY <2>6 DEF CountHeader
  <2>8. Respond(NodeConf[x.node], e, Retried(x.req, ans), CountHeader(x)).status = 200
    BY <1>1, <2>2, <2>3, <2>6, RetryAccepted
  <2> QED BY <2>2, <2>6, <2>7, <2>8
<1>2. SInv /\ [Next]_allVars =>
        [\A m \in msgs' : m \notin msgs /\ m.at = "back" /\ m.ans.status = 409 =>
           LET n == m.node IN
           Respond(NodeConf[n], db[n][m.req.key], Retried(m.req, m.ans), CountHeader(m)).status
               = 200]_allVars
  BY <1>1
<1> QED BY <1>2, SessionsInvariance, PTL DEF Spec, ConflictsTellHow

=============================================================================
