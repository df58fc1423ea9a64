--------------------------- MODULE ClusterProofs ---------------------------
(***************************************************************************)
(* What a node makes of one request (Node), the invariants of requests     *)
(* under way (Cluster), whoever the clients are, and what answers mean.    *)
(***************************************************************************)
EXTENDS Cluster, FiniteSetTheorems, WellFoundedInduction, TLAPS

-----------------------------------------------------------------------------
(* Node.                                                                   *)

\* A set of numbers that is not empty has a least one.
LEMMA Least ==
    ASSUME NEW S \in SUBSET Nat, S # {}
    PROVE  \E n \in S : \A i \in S : n <= i
<1>1. OpToRel(<, Nat) = {ss \in Nat \X Nat : ss[1] < ss[2]}
  BY Zenon DEF OpToRel
<1>2. PICK n \in S : \A i \in S : ~(<<i, n>> \in {ss \in Nat \X Nat : ss[1] < ss[2]})
  <2>1. IsWellFoundedOn(OpToRel(<, Nat), Nat)
    BY NatLessThanWellFounded
  <2>2. \E n \in S : \A i \in S : ~(<<i, n>> \in OpToRel(<, Nat))
    BY <2>1, WFMin, Zenon
  <2> QED BY <1>1, <2>2, Zenon
<1>3. ASSUME NEW i \in S PROVE n <= i
  <2>1. <<i, n>> \in Nat \X Nat /\ <<i, n>>[1] = i /\ <<i, n>>[2] = n
    OBVIOUS
  <2>2. ~(i < n)
    BY <1>2, <2>1
  <2> QED BY <2>2
<1> QED BY <1>3

\* It is Min.
LEMMA MinOfNaturals == ASSUME NEW S, S \subseteq Nat, S # {} PROVE Min(S) \in S
  BY Least DEF Min

RefusalStatuses == {400, 405, 413, 414, 421}
AllChecks == [fails : BOOLEAN, status : RefusalStatuses]

\* The checks of a body in the service, and the first ones of the handler.
BodyChecks(r)  == <<Check(r.body \in TooLarge, 413), Check(r.body \in NotJSON, 400)>>
FirstChecks(r) == <<Check(~GuardsParse(r), 400), Check(r.body \in TooLarge, 413)>>

\* Short lists are lists.
LEMMA ShortLists == ASSUME NEW S, NEW x \in S, NEW y \in S PROVE <<x>> \in Seq(S) /\ <<x, y>> \in Seq(S)
  OBVIOUS

\* The checks of a request are a list of conditions with the status of a refusal.
LEMMA ChecksAreLists ==
    ASSUME NEW nd, NEW r, NEW count
    PROVE  /\ CheckPartitionCount(nd, count) \in Seq(AllChecks)
           /\ CheckKey(nd, r.key) \in Seq(AllChecks)
           /\ BodyChecks(r) \in Seq(AllChecks) /\ FirstChecks(r) \in Seq(AllChecks)
           /\ Checks(nd, r, count) \in Seq(AllChecks)
<1>3. CheckPartitionCount(nd, count) \in Seq(AllChecks)
  <2> DEFINE differs == count \notin {Unset, Bad} /\ PartitionCountDiffers(nd, count)
  <2>1. (count = Bad) \in BOOLEAN /\ differs \in BOOLEAN
    BY DEF PartitionCountDiffers
  <2>2. Check(count = Bad, 400) \in AllChecks /\ Check(differs, 421) \in AllChecks
    BY <2>1 DEF Check, AllChecks, RefusalStatuses
  <2> QED BY <2>2, ShortLists DEF CheckPartitionCount
<1>4. CheckKey(nd, r.key) \in Seq(AllChecks)
  <2> DEFINE foreign == ~Contains(nd.owned, Partition(Hash[r.key], nd.partitionCount))
  <2>1. (r.key \in TooLong) \in BOOLEAN /\ foreign \in BOOLEAN
    BY DEF Contains
  <2>2. Check(r.key \in TooLong, 414) \in AllChecks /\ Check(foreign, 421) \in AllChecks
    BY <2>1 DEF Check, AllChecks, RefusalStatuses
  <2> QED BY <2>2, ShortLists DEF CheckKey
<1>5. BodyChecks(r) \in Seq(AllChecks)
  <2>1. (r.body \in TooLarge) \in BOOLEAN /\ (r.body \in NotJSON) \in BOOLEAN
    OBVIOUS
  <2>2. Check(r.body \in TooLarge, 413) \in AllChecks /\ Check(r.body \in NotJSON, 400) \in AllChecks
    BY <2>1 DEF Check, AllChecks, RefusalStatuses
  <2> QED BY <2>2, ShortLists DEF BodyChecks
<1>6. FirstChecks(r) \in Seq(AllChecks)
  <2>1. (~GuardsParse(r)) \in BOOLEAN /\ (r.body \in TooLarge) \in BOOLEAN
    OBVIOUS
  <2>2. Check(~GuardsParse(r), 400) \in AllChecks /\ Check(r.body \in TooLarge, 413) \in AllChecks
    BY <2>1 DEF Check, AllChecks, RefusalStatuses
  <2> QED BY <2>2, ShortLists DEF FirstChecks
<1>7. <<Check(TRUE, 405)>> \in Seq(AllChecks)
  <2>1. Check(TRUE, 405) \in AllChecks
    BY DEF Check, AllChecks, RefusalStatuses
  <2> QED BY <2>1, ShortLists
<1>8. ServiceChecks(nd, r) \in Seq(AllChecks) /\ GetChecks(nd, r, count) \in Seq(AllChecks)
  BY <1>3, <1>4, <1>5 DEF ServiceChecks, GetChecks, BodyChecks
<1>9. WriteChecks(nd, r, count) \in Seq(AllChecks)
  BY <1>3, <1>6, <1>8 DEF WriteChecks, FirstChecks
<1> QED BY <1>3, <1>4, <1>5, <1>6, <1>7, <1>8, <1>9 DEF Checks

NoneFails(s) == \A i \in DOMAIN s : ~s[i].fails

\* Two lists one after the other pass when both do.
LEMMA BothPass ==
    ASSUME NEW s \in Seq(AllChecks), NEW t \in Seq(AllChecks)
    PROVE  NoneFails(s \o t) <=> NoneFails(s) /\ NoneFails(t)
<1>1. /\ DOMAIN s = 1..Len(s) /\ DOMAIN t = 1..Len(t) /\ Len(s) \in Nat /\ Len(t) \in Nat
      /\ DOMAIN (s \o t) = 1..(Len(s) + Len(t))
      /\ \A i \in DOMAIN s : (s \o t)[i] = s[i]
      /\ \A i \in DOMAIN t : (s \o t)[Len(s) + i] = t[i]
  OBVIOUS
<1>2. ASSUME NoneFails(s \o t) PROVE NoneFails(s) /\ NoneFails(t)
  <2>1. \A i \in DOMAIN s : i \in DOMAIN (s \o t)
    BY <1>1
  <2>2. \A i \in DOMAIN t : Len(s) + i \in DOMAIN (s \o t)
    BY <1>1
  <2> QED BY <1>1, <1>2, <2>1, <2>2 DEF NoneFails
<1>3. ASSUME NoneFails(s), NoneFails(t), NEW i \in DOMAIN (s \o t) PROVE ~(s \o t)[i].fails
  <2>1. i \in DOMAIN s \/ (i - Len(s) \in DOMAIN t /\ i = Len(s) + (i - Len(s)))
    BY <1>1
  <2> QED BY <1>1, <1>3, <2>1 DEF NoneFails
<1> QED BY <1>2, <1>3 DEF NoneFails

\* What the checks leave over.
CountOk(nd, count) == count # Bad /\ (count = Unset \/ ~PartitionCountDiffers(nd, count))
KeyOk(nd, k) == k \notin TooLong /\ Contains(nd.owned, Partition(Hash[k], nd.partitionCount))
WriteOk(r)   == GuardsParse(r) /\ r.body \notin TooLarge /\ r.body \notin NotJSON

\* A request is accepted when it passes every check its method calls for.
LEMMA Accepted ==
    ASSUME NEW nd, NEW r, NEW count
    PROVE  Accepts(nd, r, count) <=> /\ r.method \in Methods
                                     /\ CountOk(nd, count) /\ KeyOk(nd, r.key)
                                     /\ r.method # "GET" => WriteOk(r)
<1>1. Accepts(nd, r, count) <=> NoneFails(Checks(nd, r, count))
  BY DEF Accepts, Failed, NoneFails
<1>2. NoneFails(CheckPartitionCount(nd, count)) <=> CountOk(nd, count)
  <2>1. DOMAIN CheckPartitionCount(nd, count) = {1, 2}
    BY DEF CheckPartitionCount
  <2>2. CheckPartitionCount(nd, count)[1] = Check(count = Bad, 400)
    BY DEF CheckPartitionCount
  <2>3. CheckPartitionCount(nd, count)[2] = Check(count \notin {Unset, Bad} /\ PartitionCountDiffers(nd, count), 421)
    BY DEF CheckPartitionCount
  <2>4. Check(count = Bad, 400).fails <=> count = Bad
    BY DEF Check
  <2>5. Check(count \notin {Unset, Bad} /\ PartitionCountDiffers(nd, count), 421).fails
          <=> count \notin {Unset, Bad} /\ PartitionCountDiffers(nd, count)
    BY DEF Check
  <2> QED BY <2>1, <2>2, <2>3, <2>4, <2>5 DEF NoneFails, CountOk
<1>3. NoneFails(CheckKey(nd, r.key)) <=> KeyOk(nd, r.key)
  <2>1. DOMAIN CheckKey(nd, r.key) = {1, 2}
    BY DEF CheckKey
  <2>2. CheckKey(nd, r.key)[1] = Check(r.key \in TooLong, 414)
    BY DEF CheckKey
  <2>3. CheckKey(nd, r.key)[2] = Check(~Contains(nd.owned, Partition(Hash[r.key], nd.partitionCount)), 421)
    BY DEF CheckKey
  <2>4. Check(r.key \in TooLong, 414).fails <=> r.key \in TooLong
    BY DEF Check
  <2>5. Check(~Contains(nd.owned, Partition(Hash[r.key], nd.partitionCount)), 421).fails
          <=> ~Contains(nd.owned, Partition(Hash[r.key], nd.partitionCount))
    BY DEF Check
  <2> QED BY <2>1, <2>2, <2>3, <2>4, <2>5 DEF NoneFails, KeyOk
<1>4. NoneFails(BodyChecks(r)) <=> r.body \notin TooLarge /\ r.body \notin NotJSON
  <2>1. DOMAIN BodyChecks(r) = {1, 2}
    BY DEF BodyChecks
  <2>2. BodyChecks(r)[1] = Check(r.body \in TooLarge, 413)
    BY DEF BodyChecks
  <2>3. BodyChecks(r)[2] = Check(r.body \in NotJSON, 400)
    BY DEF BodyChecks
  <2>4. Check(r.body \in TooLarge, 413).fails <=> r.body \in TooLarge
    BY DEF Check
  <2>5. Check(r.body \in NotJSON, 400).fails
          <=> r.body \in NotJSON
    BY DEF Check
  <2> QED BY <2>1, <2>2, <2>3, <2>4, <2>5 DEF NoneFails
<1>5. NoneFails(FirstChecks(r)) <=> GuardsParse(r) /\ r.body \notin TooLarge
  <2>1. DOMAIN FirstChecks(r) = {1, 2}
    BY DEF FirstChecks
  <2>2. FirstChecks(r)[1] = Check(~GuardsParse(r), 400)
    BY DEF FirstChecks
  <2>3. FirstChecks(r)[2] = Check(r.body \in TooLarge, 413)
    BY DEF FirstChecks
  <2>4. Check(~GuardsParse(r), 400).fails <=> ~GuardsParse(r)
    BY DEF Check
  <2>5. Check(r.body \in TooLarge, 413).fails
          <=> r.body \in TooLarge
    BY DEF Check
  <2> QED BY <2>1, <2>2, <2>3, <2>4, <2>5 DEF NoneFails
<1>6. ~NoneFails(<<Check(TRUE, 405)>>)
  BY DEF NoneFails, Check
<1>7. /\ CheckPartitionCount(nd, count) \in Seq(AllChecks) /\ CheckKey(nd, r.key) \in Seq(AllChecks)
      /\ BodyChecks(r) \in Seq(AllChecks) /\ FirstChecks(r) \in Seq(AllChecks)
  BY ChecksAreLists
<1>8. NoneFails(GetChecks(nd, r, count)) <=> CountOk(nd, count) /\ KeyOk(nd, r.key)
  BY <1>2, <1>3, <1>7, BothPass DEF GetChecks
<1>9. /\ NoneFails(ServiceChecks(nd, r))
           <=> KeyOk(nd, r.key) /\ r.body \notin TooLarge /\ r.body \notin NotJSON
      /\ ServiceChecks(nd, r) \in Seq(AllChecks)
  <2>1. ServiceChecks(nd, r) = CheckKey(nd, r.key) \o BodyChecks(r)
    BY DEF ServiceChecks, BodyChecks
  <2> QED BY <1>3, <1>4, <1>7, <2>1, BothPass
<1>10. NoneFails(WriteChecks(nd, r, count))
         <=> CountOk(nd, count) /\ KeyOk(nd, r.key) /\ WriteOk(r)
  <2> DEFINE first == CheckPartitionCount(nd, count) \o FirstChecks(r)
  <2>1. /\ first \in Seq(AllChecks)
        /\ NoneFails(first) <=> CountOk(nd, count) /\ GuardsParse(r) /\ r.body \notin TooLarge
    BY <1>2, <1>5, <1>7, BothPass
  <2> HIDE DEF first
  <2>2. NoneFails(first \o ServiceChecks(nd, r))
          <=> NoneFails(first) /\ NoneFails(ServiceChecks(nd, r))
    BY <1>9, <2>1, BothPass
  <2>3. WriteChecks(nd, r, count) = first \o ServiceChecks(nd, r)
    BY DEF WriteChecks, FirstChecks, first
  <2> QED BY <1>9, <2>1, <2>2, <2>3 DEF WriteOk
<1> QED BY <1>1, <1>6, <1>8, <1>10 DEF Checks, Methods


Entries == {Absent} \cup [value : Value, version : Nat \ {0}]

\* The call that an accepted write becomes: it has a value and guards that parsed.
LEMMA AcceptedWrite ==
    ASSUME NEW nd, NEW r \in Requests, NEW count, Accepts(nd, r, count), r.method # "GET"
    PROVE  /\ r.body \in Value /\ Call(r).kind = "write"
           /\ Call(r).body = r.body /\ Call(r).ifAbsent = IfAbsent(r)
           /\ Call(r).ifVersion = IfVersion(r) /\ IfVersion(r) \in Nat \cup {Nil}
           /\ ~ConflictingGuards(Call(r))
<1>1. GuardsParse(r) /\ r.body \notin TooLarge /\ r.body \notin NotJSON
  BY Accepted DEF WriteOk
<1>2. r.body \in Value
  BY <1>1 DEF Requests
<1>3. /\ Call(r).kind = "write" /\ Call(r).body = r.body /\ Call(r).ifAbsent = IfAbsent(r)
      /\ Call(r).ifVersion = IfVersion(r)
  BY DEF Call
<1>4. IfVersion(r) \in Nat \cup {Nil}
  <2>1. r.ifVersion \in Seq(Nat \cup {Bad})
    BY DEF Requests
  <2>2. r.ifVersion # <<>> => r.ifVersion[1] \in Nat \cup {Bad}
    BY <2>1
  <2> QED BY <1>1, <2>2 DEF IfVersion, GuardsParse
<1> QED BY <1>1, <1>2, <1>3, <1>4 DEF ConflictingGuards, GuardsParse

\* An entry that a request changes gets a value and the next version.
LEMMA AfterIsEntry ==
    ASSUME NEW nd, NEW x \in Entries, NEW r \in Requests, NEW count
    PROVE  /\ x.version \in Nat /\ (x.version = 0 <=> x = Absent)
           /\ After(nd, x, r, count) \in Entries
           /\ After(nd, x, r, count) # x =>
                 /\ Accepts(nd, r, count) /\ r.method # "GET" /\ ~GuardFails(x, Call(r))
                 /\ After(nd, x, r, count).version = x.version + 1
<1>1. x.version \in Nat /\ (x.version = 0 <=> x = Absent)
  BY DEF Entries, Absent
<1>2. CASE Accepts(nd, r, count) /\ r.method # "GET" /\ ~GuardFails(x, Call(r))
  <2>1. After(nd, x, r, count) = Written(x, Call(r))
    BY <1>2, AcceptedWrite DEF After, Effect
  <2>2. r.body \in Value /\ Call(r).body = r.body
    BY <1>2, AcceptedWrite
  <2>3. CASE x = Absent
    BY <2>1, <2>2, <2>3, <1>2 DEF Written, FirstVersion, Entries, Absent
  <2>4. CASE x # Absent
    <3>1. x.value \in Value /\ x.version \in Nat \ {0}
      BY <2>4 DEF Entries
    <3>2. Compute(x.value, Call(r)) \in Value
      BY <3>1, <2>2, ClusterAssumption DEF Compute
    <3> QED BY <2>1, <2>4, <3>1, <3>2, <1>2 DEF Written, Entries
  <2> QED BY <1>1, <2>3, <2>4
<1>3. CASE ~(Accepts(nd, r, count) /\ r.method # "GET" /\ ~GuardFails(x, Call(r)))
  <2>1. r.method = "GET" => Call(r).kind = "get"
    BY DEF Call
  <2>2. After(nd, x, r, count) = x
    BY <1>3, <2>1 DEF After, Effect
  <2> QED BY <1>1, <2>2
<1> QED BY <1>2, <1>3

NodeStatuses == {200, 400, 404, 405, 409, 413, 414, 421}
NodeReplies == [status : NodeStatuses, value : Value \cup {Nil}, version : Nat \cup {Nil},
                whole : {TRUE}]

\* What a node answers, case by case.  A refusal leaves the entry as it was, a read
\* shows it, a write that is answered with 200 has made the version it names, and a
\* 409 has the version the entry has.
LEMMA RespondCases ==
    ASSUME NEW nd, NEW x \in Entries, NEW r \in Requests, NEW count
    PROVE  LET ans == Respond(nd, x, r, count)
               y == After(nd, x, r, count)
           IN  /\ ans \in NodeReplies
               /\ ans.status \in {200, 404, 409} => Accepts(nd, r, count)
               /\ ans.status = 200 => IF r.method = "GET" THEN x # Absent /\ ans.version = x.version
                                      ELSE y # x /\ ans.version = x.version + 1
               /\ ans.status # 200 => y = x
               /\ ans.status = 404 => x = Absent
               /\ ans.status = 409 =>
                     /\ r.method # "GET" /\ GuardFails(x, Call(r))
                     /\ ans.version = IF x.version = 0 THEN Nil ELSE x.version
<1> DEFINE ans == Respond(nd, x, r, count)
           y == After(nd, x, r, count)
<1>0. x.version \in Nat /\ (x.version = 0 <=> x = Absent) /\ x.value \in Value \cup {Nil}
  BY AfterIsEntry DEF Entries, Absent
<1>1. CASE ~Accepts(nd, r, count)
  <2> DEFINE checks == Checks(nd, r, count)
  <2>1. checks \in Seq(AllChecks) /\ Failed(checks) # {}
    BY <1>1, ChecksAreLists DEF Accepts
  <2> HIDE DEF checks
  <2>2. Failed(checks) \subseteq Nat /\ Failed(checks) \subseteq DOMAIN checks
    BY <2>1 DEF Failed
  <2>3. Min(Failed(checks)) \in DOMAIN checks
    BY <2>1, <2>2, MinOfNaturals
  <2>4. checks[Min(Failed(checks))].status \in RefusalStatuses
    <3>1. \A i \in DOMAIN checks : checks[i] \in AllChecks
      BY <2>1
    <3>2. \A i \in DOMAIN checks : checks[i].status \in RefusalStatuses
      BY <3>1 DEF AllChecks
    <3> QED BY <2>3, <3>2
  <2>5. ans = Bare(checks[Min(Failed(checks))].status) /\ y = x
    BY <1>1 DEF Respond, After, checks
  <2> HIDE DEF ans, y
  <2>6. /\ ans.status \in RefusalStatuses
        /\ ans \in NodeReplies
    BY <2>4, <2>5 DEF Bare, Answer, NodeReplies, NodeStatuses, RefusalStatuses
  <2> QED BY <2>5, <2>6 DEF ans, y, RefusalStatuses
<1>2. CASE Accepts(nd, r, count) /\ r.method = "GET"
  <2>1. Call(r).kind = "get"
    BY <1>2 DEF Call
  <2>2. y = x
    BY <2>1 DEF After, Effect
  <2>3. CASE x = Absent
    <3>1. ans = Bare(404)
      BY <1>2, <2>1, <2>3 DEF Respond, Outcome, Result, ErrorAnswer
    <3> QED BY <3>1, <2>2, <2>3, <1>2 DEF Bare, Answer, NodeReplies, NodeStatuses
  <2>4. CASE x # Absent
    <3>1. ans = Answer(200, x.value, x.version)
      BY <1>2, <2>1, <2>4 DEF Respond, Outcome, Result
    <3> QED BY <3>1, <2>2, <2>4, <1>0, <1>2 DEF Answer, NodeReplies, NodeStatuses
  <2> QED BY <2>3, <2>4
<1>3. CASE Accepts(nd, r, count) /\ r.method # "GET" /\ GuardFails(x, Call(r))
  <2>1. Call(r).kind = "write" /\ ~ConflictingGuards(Call(r))
    BY <1>3, AcceptedWrite
  <2>2. y = x
    BY <1>3 DEF After, Effect
  <2>3. ans = Answer(409, Nil, IF x.version = 0 THEN Nil ELSE x.version)
    BY <1>3, <2>1 DEF Respond, Outcome, Result, ErrorAnswer
  <2> QED BY <2>2, <2>3, <1>0, <1>3 DEF Answer, NodeReplies, NodeStatuses
<1>4. CASE Accepts(nd, r, count) /\ r.method # "GET" /\ ~GuardFails(x, Call(r))
  <2>1. Call(r).kind = "write" /\ ~ConflictingGuards(Call(r))
    BY <1>4, AcceptedWrite
  <2>2. y = Written(x, Call(r))
    BY <1>4, <2>1 DEF After, Effect
  <2>3. ans = Answer(200, Written(x, Call(r)).value, Written(x, Call(r)).version)
    BY <1>4, <2>1 DEF Respond, Outcome, Result
  <2>4. Written(x, Call(r)).version = x.version + 1
    BY <1>0 DEF Written, FirstVersion, Absent
  <2>5. y \in Entries
    BY AfterIsEntry
  <2>6. y.version = x.version + 1 /\ y # x
    BY <2>2, <2>4, <1>0
  <2> HIDE DEF y, ans
  <2>7. y.value \in Value \cup {Nil}
    BY <2>5 DEF Entries, Absent
  <2>8. ans \in NodeReplies /\ ans.status = 200 /\ ans.version = x.version + 1
    BY <2>2, <2>3, <2>4, <2>7, <1>0 DEF Answer, NodeReplies, NodeStatuses
  <2> QED BY <1>4, <2>6, <2>8 DEF ans, y
<1> QED BY <1>1, <1>2, <1>3, <1>4

-----------------------------------------------------------------------------
(* Cluster.                                                                *)

Replies == [status : NodeStatuses \cup {1, 503}, value : Value \cup {Nil},
            version : Nat \cup {Nil}, whole : BOOLEAN]
Messages == [id : Client \X Nat, req : Requests, via : NodeID \cup ProxyID, open : BOOLEAN,
             at : {"proxy", "node", "back"}, node : NodeID \cup {Nil}, ans : Replies \cup {Nil}]

Types ==
    /\ db \in [NodeID -> [Key -> Entries]]
    /\ up \in [NodeID -> {"up", "draining", "down"}]
    /\ msgs \subseteq Messages
    /\ sent \in [Client -> Nat]
    /\ req \in [Client -> Requests \cup {Nil}]
    /\ got \in [Client -> Replies \cup {Waiting}]
    /\ log \in [NodeID -> [Key -> Seq(Client \X Nat)]]
    /\ since \in [Client -> Nat \cup {Lost}]

\* A message is a request its client has made.  It is open only while the client
\* waits for that request.
Current(m) == m.id = Id(m.id[1])
Underway(m) ==
    /\ m.id[2] \in 1..sent[m.id[1]]
    /\ m.at = "proxy" => m.via \in ProxyID
    /\ m.at = "node" => m.node \in NodeID /\ up[m.node] # "down"
    /\ m.at = "back" => m.open /\ m.ans \in Replies
    /\ Current(m) => m.req = req[m.id[1]]
    /\ m.open => Current(m) /\ got[m.id[1]] = Waiting
MessagesSound == \A m \in msgs : Underway(m)

\* A request has one message that its client waits for, and one that may still take
\* effect; after a timeout of the proxy these are two.
MayApply(m) == m.at # "back"
Same(m, l) == (m.open /\ l.open) \/ (MayApply(m) /\ MayApply(l)) => m = l
OneEach == \A m, l \in msgs : m.id = l.id => Same(m, l)

\* A client that waits will hear of the message it waits for.
Heard == \A c \in Client : got[c] = Waiting => \E m \in msgs : m.open /\ m.id = Id(c)

\* What a log has are requests that were made, and none that may still take effect.
InLog(id) == \E n \in NodeID, k \in Key : \E x \in DOMAIN log[n][k] : log[n][k][x] = id
LogSound == \A n \in NodeID, k \in Key : \A x \in DOMAIN log[n][k] :
                log[n][k][x][2] <= sent[log[n][k][x][1]]
NotYet == \A m \in msgs : MayApply(m) => ~InLog(m.id)

Distinct == \A n, l \in NodeID, j, k \in Key :
               \A x \in DOMAIN log[n][j], y \in DOMAIN log[l][k] :
                  log[n][j][x] = log[l][k][y] => n = l /\ j = k /\ x = y
Counted == \A n \in NodeID, k \in Key : db[n][k].version = Len(log[n][k])

CInv == Types /\ MessagesSound /\ OneEach /\ Heard /\ LogSound /\ NotYet /\ Distinct /\ Counted

\* The node that accepts a key is the only one that does.
LEMMA HomeIs ==
    ASSUME NEW k \in Key
    PROVE  /\ Home(k) \in NodeID
           /\ \A n \in NodeID : KeyOk(NodeConf[n], k) => n = Home(k)
<1>1. PICK n \in NodeID : \A l \in NodeID :
        Contains(NodeConf[l].owned, Partition(Hash[k], NodeConf[l].partitionCount)) <=> l = n
  BY ClusterAssumption
<1>2. Home(k) = n
  BY <1>1 DEF Home
<1> QED BY <1>1, <1>2 DEF KeyOk

\* The answers nobody computes are answers.
LEMMA BareReplies ==
    /\ \A s \in {1, 405, 503} : Bare(s) \in Replies
    /\ NoAnswer \in Replies /\ Unavailable \in Replies /\ Waiting \notin Replies
    /\ NodeReplies \subseteq Replies
<1>1. \A s \in {1, 405, 503} : Bare(s) \in Replies
  BY DEF Bare, Answer, Replies, NodeStatuses
<1>2. Waiting \notin Replies
  <2>1. Waiting.status = 0
    BY DEF Waiting, Bare, Answer
  <2>2. \A x \in Replies : x.status # 0
    BY DEF Replies, NodeStatuses
  <2> QED BY <2>1, <2>2
<1>3. NodeReplies \subseteq Replies
  BY DEF Replies, NodeReplies
<1> QED BY <1>1, <1>2, <1>3 DEF NoAnswer, Unavailable

\* An answer that is cut keeps its status.
LEMMA CutReply ==
    ASSUME NEW a \in Replies
    PROVE  LET cut == [Bare(a.status) EXCEPT !.whole = FALSE] IN
           cut \in Replies /\ cut.status = a.status /\ ~cut.whole
<1>1. Bare(a.status) \in Replies /\ Bare(a.status).status = a.status
  BY DEF Bare, Answer, Replies
<1>2. ASSUME NEW b \in Replies
      PROVE  [b EXCEPT !.whole = FALSE] \in Replies
  <2>1. PICK S, V, W : S = NodeStatuses \cup {1, 503} /\ V = Value \cup {Nil} /\ W = Nat \cup {Nil}
    OBVIOUS
  <2>2. Replies = [status : S, value : V, version : W, whole : BOOLEAN]
    BY <2>1 DEF Replies
  <2> QED BY <2>2
<1>3. ASSUME NEW b \in Replies
      PROVE  [b EXCEPT !.whole = FALSE].status = b.status
  BY DEF Replies
<1>4. ASSUME NEW b \in Replies
      PROVE  [b EXCEPT !.whole = FALSE].whole = FALSE
  BY DEF Replies
<1> QED BY <1>1, <1>2, <1>3, <1>4

\* As long as the stores stay and no message comes back to life, nothing about the
\* logs changes.
LEMMA LogsKept ==
    ASSUME CInv, db' = db, log' = log, sent' = sent,
           \A x \in msgs' : MayApply(x) => \E m \in msgs : MayApply(m) /\ x.id = m.id
    PROVE  (LogSound /\ NotYet /\ Distinct /\ Counted)'
<1>1. LogSound' /\ Distinct' /\ Counted'
  BY DEF CInv, LogSound, Distinct, Counted
<1>2. NotYet'
  BY DEF CInv, NotYet, InLog
<1> QED BY <1>1, <1>2

\* A message that moves on, and stays open if it was, leaves the others as they are.
LEMMA Replaced ==
    ASSUME CInv, NEW m \in msgs, NEW new \in Messages, Becomes(m, new),
           UNCHANGED <<up, sent, req, got>>,
           new.id = m.id, new.req = m.req, new.open = m.open,
           MayApply(new) => MayApply(m), new.at # "proxy",
           new.at = "node" => new.node \in NodeID /\ up[new.node] # "down",
           new.at = "back" => new.ans \in Replies
    PROVE  /\ msgs' \subseteq Messages /\ (MessagesSound /\ OneEach /\ Heard)'
           /\ \A x \in msgs' : MayApply(x) => \E l \in msgs : MayApply(l) /\ x.id = l.id
<1>1. \A x : x \in msgs' <=> (x \in msgs /\ x # m) \/ (x = new /\ (new.at = "back" => new.open))
  BY DEF Becomes
<1>2. msgs' \subseteq Messages
  BY <1>1 DEF CInv, Types
<1>3. ASSUME NEW x \in msgs' PROVE Underway(x)'
  <2>1. CASE x \in msgs
    BY <2>1 DEF CInv, MessagesSound, Underway, Current, Id
  <2>2. CASE x = new /\ (new.at = "back" => new.open)
    <3>1. Underway(m)
      BY DEF CInv, MessagesSound
    <3> QED BY <2>2, <3>1 DEF Underway, Current, Id
  <2> QED BY <1>1, <2>1, <2>2
<1>4. OneEach'
  <2> SUFFICES ASSUME NEW x \in msgs', NEW y \in msgs', x.id = y.id PROVE Same(x, y)
    BY DEF OneEach, Same, MayApply
  <2>1. \A l \in msgs : l.id = m.id => Same(m, l) /\ Same(l, m)
    BY DEF CInv, OneEach
  <2>2. CASE x = new /\ y = new
    BY <2>2 DEF Same
  <2>3. CASE x = new /\ y \in msgs /\ y # m
    BY <2>1, <2>3 DEF Same
  <2>4. CASE y = new /\ x \in msgs /\ x # m
    BY <2>1, <2>4 DEF Same
  <2>5. CASE x \in msgs /\ y \in msgs
    BY <2>5 DEF CInv, OneEach
  <2> QED BY <1>1, <2>2, <2>3, <2>4, <2>5
<1>5. Heard'
  <2> SUFFICES ASSUME NEW c \in Client, got[c] = Waiting
               PROVE  \E x \in msgs' : x.open /\ x.id = Id(c)
    BY DEF Heard, Id
  <2>1. PICK l \in msgs : l.open /\ l.id = Id(c)
    BY DEF CInv, Heard
  <2>2. CASE l = m
    BY <1>1, <2>1, <2>2
  <2> QED BY <1>1, <2>1, <2>2
<1>6. \A x \in msgs' : MayApply(x) => \E l \in msgs : MayApply(l) /\ x.id = l.id
  BY <1>1
<1> QED BY <1>2, <1>3, <1>4, <1>5, <1>6 DEF MessagesSound

\* Making a request keeps the invariant: its id is new.
LEMMA SubmitKeeps ==
    ASSUME CInv, NEW c \in Client, NEW v \in NodeID \cup ProxyID, NEW r \in Requests,
           Submit(c, v, r)
    PROVE  CInv'
<1> DEFINE new == [id |-> <<c, sent[c] + 1>>, req |-> r, via |-> v, open |-> TRUE,
                   at |-> IF v \in ProxyID THEN "proxy" ELSE "node",
                   node |-> IF v \in ProxyID THEN Nil ELSE v, ans |-> Nil]
           connects == v \in ProxyID \/ up[v] = "up"
<1>0. Types
  BY DEF CInv
<1>1. /\ sent[c] \in Nat /\ sent' = [sent EXCEPT ![c] = @ + 1] /\ req' = [req EXCEPT ![c] = r]
      /\ got' = [got EXCEPT ![c] = IF connects THEN Waiting ELSE NoAnswer]
      /\ got[c] # Waiting /\ UNCHANGED <<db, up, log>>
      /\ since' = [since EXCEPT ![c] = db[Home(r.key)][r.key].version]
      /\ \A x : x \in msgs' <=> x \in msgs \/ (x = new /\ connects)
  BY <1>0 DEF Submit, Types
<1>2. /\ new \in Messages /\ new.id = <<c, sent[c] + 1>> /\ new.req = r /\ new.open
      /\ (new.at = "proxy" /\ new.via \in ProxyID) \/ (new.at = "node" /\ new.node = v /\ v \notin ProxyID)
  <2>1. sent[c] + 1 \in Nat
    BY <1>1
  <2> QED BY <2>1 DEF Messages
<1> HIDE DEF new
<1>3. \A m \in msgs : m.id[1] = c => m.id[2] <= sent[c]
  BY <1>1 DEF CInv, MessagesSound, Underway
<1>4. \A m \in msgs : m.id # new.id /\ m.id \in Client \X Nat
  <2>1. \A m \in msgs : m.id \in Client \X Nat
    BY <1>0 DEF Types, Messages
  <2> QED BY <2>1, <1>1, <1>2, <1>3
<1>5. Types'
  <2>1. db[Home(r.key)][r.key].version \in Nat
    <3>1. r.key \in Key
      BY DEF Requests
    <3>2. db[Home(r.key)][r.key] \in Entries
      BY <3>1, <1>0, HomeIs DEF Types
    <3> QED BY <3>2 DEF Entries, Absent
  <2>2. msgs' \subseteq Messages
    BY <1>0, <1>1, <1>2 DEF Types
  <2> QED BY <1>0, <1>1, <2>1, <2>2, BareReplies DEF Types
<1>6. MessagesSound'
  <2> SUFFICES ASSUME NEW x \in msgs' PROVE Underway(x)'
    BY DEF MessagesSound
  <2>1. CASE x \in msgs
    <3>1. Underway(x) /\ x.id[1] \in Client /\ x.id # <<c, sent[c] + 1>>
      BY <2>1, <1>2, <1>4 DEF CInv, MessagesSound
    <3>2. CASE x.id[1] = c
      <4>1. ~Current(x)' /\ ~x.open
        <5>1. sent'[c] = sent[c] + 1
          BY <1>0, <1>1 DEF Types
        <5>2. x.id[2] <= sent[c] /\ x.id[2] \in Nat
          BY <3>2, <2>1, <1>3, <1>4
        <5> QED BY <5>1, <5>2, <3>1, <3>2, <1>1 DEF Current, Id, Underway
      <4>2. x.at # "back" /\ x.id[2] \in 1..sent[c]
        BY <3>1, <3>2, <4>1 DEF Underway
      <4> QED BY <4>1, <4>2, <3>1, <3>2, <1>0, <1>1 DEF Underway, Types
    <3>3. CASE x.id[1] # c
      BY <3>1, <3>3, <1>0, <1>1 DEF Underway, Current, Id, Types
    <3> QED BY <3>2, <3>3
  <2>2. CASE x = new /\ connects
    <3>1. x.id[1] = c /\ x.id[2] = sent[c] + 1 /\ sent'[c] = sent[c] + 1 /\ req'[c] = r
          /\ got'[c] = Waiting
      BY <2>2, <1>0, <1>1, <1>2 DEF Types
    <3>2. /\ x.at # "back" /\ (x.at = "proxy" => x.via \in ProxyID)
          /\ (x.at = "node" => x.node \in NodeID /\ up[x.node] # "down")
      BY <2>2, <1>2
    <3> QED BY <3>1, <3>2, <2>2, <1>1, <1>2 DEF Underway, Current, Id
  <2> QED BY <1>1, <2>1, <2>2
<1>7. OneEach'
  <2> SUFFICES ASSUME NEW x \in msgs', NEW y \in msgs', x.id = y.id PROVE Same(x, y)
    BY DEF OneEach, Same, MayApply
  <2>1. CASE x \in msgs /\ y \in msgs
    BY <2>1 DEF CInv, OneEach
  <2>2. CASE x = new \/ y = new
    BY <2>2, <1>1, <1>4 DEF Same
  <2> QED BY <1>1, <2>1, <2>2
<1>8. Heard'
  <2> SUFFICES ASSUME NEW d \in Client, got'[d] = Waiting
               PROVE  \E x \in msgs' : x.open /\ x.id = Id(d)'
    BY DEF Heard
  <2>1. CASE d = c
    <3>1. connects
      BY <2>1, <1>0, <1>1, BareReplies DEF Types
    <3>2. new.id = Id(c)'
      BY <1>0, <1>1, <1>2 DEF Id, Types
    <3> QED BY <2>1, <3>1, <3>2, <1>1, <1>2
  <2>2. CASE d # c
    <3>1. got[d] = Waiting /\ Id(d)' = Id(d)
      BY <2>2, <1>0, <1>1 DEF Types, Id
    <3> QED BY <3>1, <1>1 DEF CInv, Heard
  <2> QED BY <2>1, <2>2
<1>9. LogSound'
  <2> SUFFICES ASSUME NEW n \in NodeID, NEW k \in Key, NEW x \in DOMAIN log[n][k]
               PROVE  log[n][k][x][2] <= sent'[log[n][k][x][1]]
    BY <1>1 DEF LogSound
  <2>1. PICK id \in Client \X Nat : id = log[n][k][x]
    BY <1>0 DEF Types
  <2>2. id[2] <= sent[id[1]] /\ id[1] \in Client /\ id[2] \in Nat
    BY <2>1 DEF CInv, LogSound
  <2>3. id[2] <= sent'[id[1]]
    BY <2>2, <1>0, <1>1 DEF Types
  <2> QED BY <2>1, <2>3
<1>10. NotYet'
  <2>1. ~InLog(new.id)
    <3> SUFFICES ASSUME NEW n \in NodeID, NEW k \in Key, NEW x \in DOMAIN log[n][k],
                        log[n][k][x] = new.id
                 PROVE  FALSE
      BY DEF InLog
    <3>1. log[n][k][x][2] <= sent[log[n][k][x][1]]
      BY DEF CInv, LogSound
    <3> QED BY <3>1, <1>1, <1>2
  <2> QED BY <2>1, <1>1 DEF CInv, NotYet, InLog
<1>11. Distinct' /\ Counted'
  BY <1>1 DEF CInv, Distinct, Counted
<1> QED BY <1>5, <1>6, <1>7, <1>8, <1>9, <1>10, <1>11 DEF CInv

\* A message that is sent on to a node is a message.
LEMMA SentOn ==
    ASSUME NEW m \in Messages, NEW n \in NodeID
    PROVE  /\ At(m, "node", n) \in Messages
           /\ At(m, "node", n).at = "node" /\ At(m, "node", n).node = n
           /\ At(m, "node", n).id = m.id /\ At(m, "node", n).req = m.req
           /\ At(m, "node", n).open = m.open
  BY DEF At, Messages

\* A message that comes back with an answer is a message.
LEMMA SentBack ==
    ASSUME NEW m \in Messages, NEW a \in Replies
    PROVE  /\ Back(m, a) \in Messages /\ Back(m, a).at = "back" /\ Back(m, a).ans = a
           /\ Back(m, a).id = m.id /\ Back(m, a).req = m.req /\ Back(m, a).open = m.open
           /\ Back(m, a).node = m.node /\ Back(m, a).via = m.via
  BY DEF Back, Messages

\* A message whose client has stopped waiting for it is a message.
LEMMA Closed ==
    ASSUME NEW m \in Messages
    PROVE  LET x == [m EXCEPT !.open = FALSE] IN
           /\ x \in Messages /\ ~x.open /\ x.at = m.at /\ x.node = m.node
           /\ x.via = m.via /\ x.id = m.id /\ x.req = m.req
  BY DEF Messages

\* A proxy that sends a request on, or answers it itself, keeps the invariant.
LEMMA ForwardKeeps == ASSUME CInv, NEW m \in msgs, Forward(m) PROVE CInv'
<1>0. Types /\ m \in Messages /\ Underway(m)
  BY DEF CInv, Types, MessagesSound
<1>1. m.at = "proxy" /\ UNCHANGED <<db, up, sent, req, got, log, since>>
  BY DEF Forward
<1>2. PICK new : /\ Becomes(m, new)
                 /\ \/ new = Back(m, Bare(405)) \/ new = Back(m, Unavailable)
                    \/ new = At(m, "node", Target(m)) /\ up[Target(m)] = "up"
  BY DEF Forward, MethodNotAllowed
<1>3. Target(m) \in NodeID
  BY ClusterAssumption, <1>0, <1>1 DEF Target, Messages, Requests, Underway
<1>4. /\ new \in Messages /\ new.id = m.id /\ new.req = m.req /\ new.open = m.open
      /\ new.at # "proxy" /\ (new.at = "back" => new.ans \in Replies)
      /\ new.at = "node" => new.node \in NodeID /\ up[new.node] # "down"
  <2>1. ASSUME NEW a \in Replies, new = Back(m, a)
        PROVE  /\ new \in Messages /\ new.id = m.id /\ new.req = m.req /\ new.open = m.open
               /\ new.at = "back" /\ new.ans \in Replies
    BY <1>0, <2>1, SentBack
  <2>2. new = At(m, "node", Target(m)) =>
          /\ new \in Messages /\ new.id = m.id /\ new.req = m.req /\ new.open = m.open
          /\ new.at = "node" /\ new.node = Target(m)
    BY <1>0, <1>3, SentOn
  <2>3. Bare(405) \in Replies /\ Unavailable \in Replies
    BY BareReplies
  <2> QED BY <2>1, <2>2, <2>3, <1>2, <1>3
<1>5. /\ msgs' \subseteq Messages /\ (MessagesSound /\ OneEach /\ Heard)'
      /\ \A x \in msgs' : MayApply(x) => \E l \in msgs : MayApply(l) /\ x.id = l.id
  BY <1>1, <1>2, <1>4, Replaced DEF MayApply
<1>6. (LogSound /\ NotYet /\ Distinct /\ Counted)'
  BY <1>1, <1>5, LogsKept
<1> QED BY <1>0, <1>1, <1>5, <1>6 DEF CInv, Types

\* A handler that runs to its end keeps the invariant.  Its request has not been
\* applied anywhere, and cannot be again.
LEMMA HandleKeeps == ASSUME CInv, NEW m \in msgs, Handle(m) PROVE CInv'
<1>0. Types /\ m \in Messages /\ Underway(m) /\ m.at = "node"
  BY DEF CInv, Types, MessagesSound, Handle
<1>1. PICK n \in NodeID, k \in Key : n = m.node /\ k = m.req.key
  BY <1>0 DEF Underway, Messages, Requests
<1>2. PICK x \in Entries : x = db[n][k]
  BY <1>0 DEF Types
<1>3. PICK y : y = After(NodeConf[n], x, m.req, CountHeader(m))
  OBVIOUS
<1>4. PICK ans : ans = Respond(NodeConf[n], x, m.req, CountHeader(m))
  OBVIOUS
<1>5. /\ db' = [db EXCEPT ![n][k] = y]
      /\ log' = [log EXCEPT ![n][k] = IF y = x THEN @ ELSE Append(@, m.id)]
      /\ Becomes(m, Back(m, ans)) /\ UNCHANGED <<up, sent, req, got, since>>
  BY <1>1, <1>2, <1>3, <1>4 DEF Handle
<1>6. m.req \in Requests /\ m.id \in Client \X Nat
  BY <1>0 DEF Messages
<1>7. /\ y \in Entries /\ x.version \in Nat
      /\ y # x => y.version = x.version + 1
  BY <1>3, <1>6, AfterIsEntry
<1>8. ans \in Replies
  BY <1>4, <1>6, RespondCases, BareReplies
<1>9. /\ Back(m, ans) \in Messages /\ Back(m, ans).id = m.id /\ Back(m, ans).req = m.req
      /\ Back(m, ans).open = m.open /\ Back(m, ans).at = "back" /\ Back(m, ans).ans = ans
  BY <1>0, <1>8, SentBack
<1>10. /\ msgs' \subseteq Messages /\ (MessagesSound /\ OneEach /\ Heard)'
       /\ \A z \in msgs' : MayApply(z) => \E l \in msgs : MayApply(l) /\ z.id = l.id
  BY <1>5, <1>8, <1>9, Replaced DEF MayApply
<1>11. \A z \in msgs' : MayApply(z) => z \in msgs /\ z.id # m.id
  <2>1. \A z \in msgs' : z \in msgs \ {m} \/ z = Back(m, ans)
    BY <1>5 DEF Becomes
  <2>2. \A l \in msgs : l.id = m.id => Same(m, l)
    BY DEF CInv, OneEach
  <2> QED BY <2>1, <2>2, <1>0, <1>9 DEF MayApply, Same
<1>12. PICK L \in Seq(Client \X Nat) : L = log[n][k]
  BY <1>0 DEF Types
<1>13. /\ \A a \in NodeID, b \in Key : a # n \/ b # k => log'[a][b] = log[a][b] /\ db'[a][b] = db[a][b]
       /\ log'[n][k] = IF y = x THEN L ELSE Append(L, m.id)
       /\ db'[n][k] = y
  BY <1>0, <1>5, <1>12 DEF Types
<1>14. /\ Append(L, m.id) \in Seq(Client \X Nat) /\ Len(Append(L, m.id)) = Len(L) + 1
       /\ DOMAIN L = 1..Len(L) /\ Len(L) \in Nat
       /\ DOMAIN Append(L, m.id) = 1..(Len(L) + 1)
       /\ \A z \in 1..Len(L) : Append(L, m.id)[z] = L[z]
       /\ Append(L, m.id)[Len(L) + 1] = m.id
  BY <1>6, <1>12
<1>15. Types'
  <2>1. db' \in [NodeID -> [Key -> Entries]]
    BY <1>0, <1>5, <1>7 DEF Types
  <2>2. (IF y = x THEN L ELSE Append(L, m.id)) \in Seq(Client \X Nat)
    BY <1>12, <1>14
  <2>3. log' = [log EXCEPT ![n][k] = IF y = x THEN L ELSE Append(L, m.id)]
    BY <1>5, <1>12
  <2>4. log' \in [NodeID -> [Key -> Seq(Client \X Nat)]]
    BY <1>0, <2>2, <2>3 DEF Types
  <2> QED BY <1>0, <1>5, <1>10, <2>1, <2>4 DEF Types
<1>16. CASE y = x
  <2>1. \A a \in NodeID, b \in Key : log'[a][b] = log[a][b] /\ db'[a][b] = db[a][b]
    BY <1>13, <1>16, <1>2, <1>12
  <2>2. LogSound' /\ Distinct' /\ Counted'
    <3>1. LogSound'
      <4> SUFFICES ASSUME NEW a \in NodeID, NEW b \in Key, NEW z \in DOMAIN log'[a][b]
                   PROVE  log'[a][b][z][2] <= sent'[log'[a][b][z][1]]
        BY DEF LogSound
      <4>1. log'[a][b] = log[a][b] /\ sent' = sent
        BY <2>1, <1>5
      <4>2. z \in DOMAIN log[a][b]
        BY <4>1
      <4>3. log[a][b][z][2] <= sent[log[a][b][z][1]]
        BY <4>2 DEF CInv, LogSound
      <4> QED BY <4>1, <4>3
    <3>2. Distinct'
      BY <2>1 DEF CInv, Distinct
    <3>3. Counted'
      BY <2>1 DEF CInv, Counted
    <3> QED BY <3>1, <3>2, <3>3
  <2>3. NotYet'
    BY <2>1, <1>11 DEF CInv, NotYet, InLog
  <2> QED BY <1>10, <1>15, <2>2, <2>3 DEF CInv
<1>17. CASE y # x
  \* one more entry in one log, and its id is in no log yet
  <2>1. log'[n][k] = Append(L, m.id) /\ y.version = x.version + 1
    BY <1>7, <1>13, <1>17
  <2>2. ~InLog(m.id)
    BY <1>0 DEF CInv, NotYet, MayApply
  <2>3. ASSUME NEW a \in NodeID, NEW b \in Key, NEW z \in DOMAIN log'[a][b]
        PROVE  \/ z \in DOMAIN log[a][b] /\ log'[a][b][z] = log[a][b][z] /\ log'[a][b][z] # m.id
               \/ a = n /\ b = k /\ z = Len(L) + 1 /\ log'[a][b][z] = m.id
    <3>1. CASE a # n \/ b # k
      BY <3>1, <1>13, <2>2, <2>3 DEF InLog
    <3>2. CASE a = n /\ b = k
      <4>1. z \in 1..Len(L) \/ z = Len(L) + 1
        BY <3>2, <1>14, <2>1, <2>3
      <4>2. CASE z \in 1..Len(L)
        <5>1. z \in DOMAIN log[n][k] /\ log'[n][k][z] = log[n][k][z]
          BY <4>2, <1>12, <1>14, <2>1
        <5> QED BY <3>2, <5>1, <2>2 DEF InLog
      <4>3. CASE z = Len(L) + 1
        BY <3>2, <4>3, <1>14, <2>1
      <4> QED BY <4>1, <4>2, <4>3
    <3> QED BY <3>1, <3>2
  <2>4. LogSound'
    <3>1. m.id[2] <= sent[m.id[1]]
      BY <1>0, <1>6 DEF Underway, Types
    <3> QED BY <2>3, <3>1, <1>5, ZenonT(60) DEF CInv, LogSound
  <2>5. NotYet'
    <3> SUFFICES ASSUME NEW l \in msgs', MayApply(l), NEW a \in NodeID, NEW b \in Key,
                        NEW z \in DOMAIN log'[a][b], log'[a][b][z] = l.id
                 PROVE  FALSE
      BY DEF NotYet, InLog, MayApply
    <3>1. l \in msgs /\ l.id # m.id
      BY <1>11
    <3> QED BY <2>3, <3>1 DEF CInv, NotYet, InLog
  <2>6. Distinct'
    <3> SUFFICES ASSUME NEW a \in NodeID, NEW c \in NodeID, NEW b \in Key, NEW d \in Key,
                        NEW z \in DOMAIN log'[a][b], NEW w \in DOMAIN log'[c][d],
                        log'[a][b][z] = log'[c][d][w]
                 PROVE  a = c /\ b = d /\ z = w
      BY DEF Distinct
    <3> QED BY <2>3 DEF CInv, Distinct
  <2>7. Counted'
    <3>1. db'[n][k].version = Len(log'[n][k])
      BY <1>2, <1>12, <1>13, <1>14, <2>1 DEF CInv, Counted
    <3> QED BY <3>1, <1>13, ZenonT(60) DEF CInv, Counted
  <2> QED BY <1>10, <1>15, <2>4, <2>5, <2>6, <2>7 DEF CInv
<1> QED BY <1>16, <1>17

\* A proxy that no longer waits keeps the invariant: what it sent stays, closed.
LEMMA TimeOutKeeps == ASSUME CInv, NEW m \in msgs, TimeOut(m) PROVE CInv'
<1> DEFINE told == Back(m, Unavailable)
           left == [m EXCEPT !.open = FALSE]
<1>0. Types /\ m \in Messages /\ Underway(m) /\ m.open
  BY DEF CInv, Types, MessagesSound, TimeOut, AwaitsNode
<1>1. m.at \in {"node", "back"} /\ UNCHANGED <<db, up, sent, req, got, log, since>>
  BY DEF TimeOut, AwaitsNode, FromNode
<1>2. /\ told \in Messages /\ told.at = "back" /\ told.ans = Unavailable /\ told.id = m.id
      /\ told.req = m.req /\ told.open = m.open /\ Unavailable \in Replies
  <2>1. Unavailable \in Replies
    BY BareReplies
  <2> QED BY <1>0, <2>1, SentBack
<1>3. /\ left \in Messages /\ ~left.open /\ left.at = m.at /\ left.node = m.node
      /\ left.id = m.id /\ left.req = m.req
  BY <1>0, Closed
<1>4. \A x : x \in msgs' <=> \/ x \in msgs /\ x # m
                             \/ x = told
                             \/ x = left /\ m.at = "node"
  BY <1>3 DEF TimeOut
<1> HIDE DEF told, left
<1>5. msgs' \subseteq Messages
  BY <1>0, <1>2, <1>3, <1>4 DEF Types
<1>6. MessagesSound'
  <2> SUFFICES ASSUME NEW x \in msgs' PROVE Underway(x)'
    BY DEF MessagesSound
  <2>1. CASE x \in msgs
    BY <2>1, <1>1 DEF CInv, MessagesSound, Underway, Current, Id
  <2>2. CASE x = told
    BY <2>2, <1>0, <1>1, <1>2 DEF Underway, Current, Id
  <2>3. CASE x = left /\ m.at = "node"
    BY <2>3, <1>0, <1>1, <1>3 DEF Underway, Current, Id
  <2> QED BY <1>4, <2>1, <2>2, <2>3
<1>7. OneEach'
  <2> SUFFICES ASSUME NEW x \in msgs', NEW y \in msgs', x.id = y.id PROVE Same(x, y)
    BY DEF OneEach, Same, MayApply
  <2>1. \A l \in msgs : l.id = m.id => Same(m, l) /\ Same(l, m)
    BY DEF CInv, OneEach
  <2>2. CASE x \in msgs /\ y \in msgs
    BY <2>2 DEF CInv, OneEach
  <2>3. CASE ~(x \in msgs /\ x # m) /\ ~(y \in msgs /\ y # m)
    BY <2>3, <1>0, <1>2, <1>3, <1>4 DEF Same, MayApply
  <2>4. CASE ~(x \in msgs /\ x # m) /\ y \in msgs /\ y # m
    BY <2>1, <2>4, <1>0, <1>1, <1>2, <1>3, <1>4 DEF Same, MayApply
  <2>5. CASE ~(y \in msgs /\ y # m) /\ x \in msgs /\ x # m
    BY <2>1, <2>5, <1>0, <1>1, <1>2, <1>3, <1>4 DEF Same, MayApply
  <2> QED BY <2>2, <2>3, <2>4, <2>5
<1>8. Heard'
  <2> SUFFICES ASSUME NEW c \in Client, got[c] = Waiting
               PROVE  \E x \in msgs' : x.open /\ x.id = Id(c)
    BY <1>1 DEF Heard, Id
  <2>1. PICK l \in msgs : l.open /\ l.id = Id(c)
    BY DEF CInv, Heard
  <2>2. CASE l = m
    BY <1>2, <1>4, <2>1, <2>2
  <2> QED BY <1>4, <2>1, <2>2
<1>9. \A x \in msgs' : MayApply(x) => \E l \in msgs : MayApply(l) /\ x.id = l.id
  BY <1>1, <1>2, <1>3, <1>4 DEF MayApply
<1>10. (LogSound /\ NotYet /\ Distinct /\ Counted)'
  BY <1>1, <1>9, LogsKept
<1> QED BY <1>0, <1>1, <1>5, <1>6, <1>7, <1>8, <1>10 DEF CInv, Types

\* A client that gets its answer, whole or cut, keeps the invariant.
LEMMA ReceiveKeeps ==
    ASSUME CInv, NEW m \in msgs, NEW c \in Client, NEW ans \in Replies, Receive(c, m, ans)
    PROVE  CInv'
<1>0. Types /\ UNCHANGED <<db, up, sent, req, log, since>> /\ m.open /\ m.id = Id(c)
  BY DEF CInv, Receive
<1>1. /\ msgs' = msgs \ {m} /\ got' = [got EXCEPT ![c] = ans]
      /\ got'[c] # Waiting
  BY <1>0, BareReplies DEF Receive, Types
<1>2. Types'
  BY <1>0, <1>1 DEF Types
<1>3. MessagesSound'
  <2> SUFFICES ASSUME NEW x \in msgs' PROVE Underway(x)'
    BY DEF MessagesSound
  <2>1. x \in msgs /\ x # m /\ Underway(x) /\ (x.id = m.id => Same(x, m)) /\ x.id \in Client \X Nat
    BY <1>0, <1>1 DEF CInv, MessagesSound, OneEach, Types, Messages
  <2>2. x.open => x.id[1] # c
    BY <2>1, <1>0 DEF Underway, Current, Id, Same
  <2> QED BY <2>1, <2>2, <1>0, <1>1 DEF Underway, Current, Id, Types
<1>4. OneEach'
  BY <1>1 DEF CInv, OneEach, Same, MayApply
<1>5. Heard'
  <2> SUFFICES ASSUME NEW d \in Client, got'[d] = Waiting
               PROVE  \E x \in msgs' : x.open /\ x.id = Id(d)
    BY <1>0 DEF Heard, Id
  <2>1. d # c /\ got[d] = Waiting
    BY <1>0, <1>1 DEF Types
  <2>2. PICK l \in msgs : l.open /\ l.id = Id(d)
    BY <2>1 DEF CInv, Heard
  <2>3. l # m
    BY <2>1, <2>2, <1>0 DEF Id
  <2> QED BY <2>2, <2>3, <1>1
<1>6. (LogSound /\ NotYet /\ Distinct /\ Counted)'
  BY <1>0, <1>1, LogsKept
<1> QED BY <1>2, <1>3, <1>4, <1>5, <1>6 DEF CInv

\* A client that stops waiting keeps the invariant: its request may still be applied,
\* but no answer to it will arrive.
LEMMA GiveUpKeeps == ASSUME CInv, NEW c \in Client, GiveUp(c) PROVE CInv'
<1>0. Types /\ UNCHANGED <<db, up, sent, req, log, since>>
  BY DEF CInv, GiveUp
<1>1. got' = [got EXCEPT ![c] = NoAnswer] /\ got'[c] # Waiting /\ NoAnswer \in Replies
  BY <1>0, BareReplies DEF GiveUp, Types
<1>2. ASSUME NEW x \in msgs'
      PROVE  \E m \in msgs : \/ m.id = Id(c) /\ MayApply(m) /\ x = [m EXCEPT !.open = FALSE]
                             \/ m.id # Id(c) /\ x = m
  BY DEF GiveUp, MayApply
<1>3. \A m \in msgs : m.id # Id(c) => m \in msgs'
  BY DEF GiveUp
<1>4. \A m \in msgs : /\ m \in Messages /\ Underway(m) /\ m.id \in Client \X Nat
                      /\ m.at # "back" => MayApply(m)
  BY <1>0 DEF CInv, Types, MessagesSound, Messages, MayApply
<1>5. ASSUME NEW m \in msgs
      PROVE  LET x == [m EXCEPT !.open = FALSE] IN
             /\ x \in Messages /\ ~x.open /\ x.at = m.at /\ x.node = m.node
             /\ x.via = m.via /\ x.id = m.id /\ x.req = m.req
  BY <1>4, Closed
<1>6. Types'
  <2>1. msgs' \subseteq Messages
    BY <1>2, <1>4, <1>5
  <2> QED BY <1>0, <1>1, <2>1 DEF Types
<1>7. MessagesSound'
  <2> SUFFICES ASSUME NEW x \in msgs' PROVE Underway(x)'
    BY DEF MessagesSound
  <2>1. PICK m \in msgs : \/ m.id = Id(c) /\ MayApply(m) /\ x = [m EXCEPT !.open = FALSE]
                          \/ m.id # Id(c) /\ x = m
    BY <1>2
  <2>2. CASE m.id = Id(c) /\ MayApply(m) /\ x = [m EXCEPT !.open = FALSE]
    <3>1. /\ ~x.open /\ x.at = m.at /\ x.node = m.node /\ x.via = m.via /\ x.id = m.id
          /\ x.req = m.req
      BY <2>2, <1>5
    <3>2. Underway(m)
      BY <1>4
    <3> QED BY <2>2, <3>1, <3>2, <1>0 DEF Underway, Current, Id, MayApply
  <2>3. CASE m.id # Id(c) /\ x = m
    <3>1. Underway(m) /\ m.id \in Client \X Nat
      BY <1>4
    <3>2. m.open => m.id[1] # c
      BY <2>3, <3>1 DEF Underway, Current
    <3> QED BY <2>3, <3>1, <3>2, <1>0, <1>1 DEF Underway, Current, Id, Types
  <2> QED BY <2>1, <2>2, <2>3
<1>8. OneEach'
  <2> SUFFICES ASSUME NEW x \in msgs', NEW y \in msgs', x.id = y.id PROVE Same(x, y)
    BY DEF OneEach, Same, MayApply
  <2>1. PICK m \in msgs : \/ m.id = Id(c) /\ MayApply(m) /\ x = [m EXCEPT !.open = FALSE]
                          \/ m.id # Id(c) /\ x = m
    BY <1>2
  <2>2. PICK l \in msgs : \/ l.id = Id(c) /\ MayApply(l) /\ y = [l EXCEPT !.open = FALSE]
                          \/ l.id # Id(c) /\ y = l
    BY <1>2
  <2>3. x.id = m.id /\ y.id = l.id
    BY <2>1, <2>2, <1>5
  <2>4. Same(m, l)
    BY <2>3 DEF CInv, OneEach
  <2> QED BY <2>1, <2>2, <2>3, <2>4 DEF Same
<1>9. Heard'
  <2> SUFFICES ASSUME NEW d \in Client, got'[d] = Waiting
               PROVE  \E x \in msgs' : x.open /\ x.id = Id(d)
    BY <1>0 DEF Heard, Id
  <2>1. d # c /\ got[d] = Waiting
    BY <1>0, <1>1 DEF Types
  <2>2. PICK l \in msgs : l.open /\ l.id = Id(d)
    BY <2>1 DEF CInv, Heard
  <2>3. l.id # Id(c)
    BY <2>1, <2>2 DEF Id
  <2> QED BY <2>2, <2>3, <1>3
<1>10. \A x \in msgs' : MayApply(x) => \E l \in msgs : MayApply(l) /\ x.id = l.id
  BY <1>2, <1>5
<1>11. (LogSound /\ NotYet /\ Distinct /\ Counted)'
  BY <1>0, <1>10, LogsKept
<1> QED BY <1>6, <1>7, <1>8, <1>9, <1>11 DEF CInv

\* A node that stops taking connections, or starts, keeps the invariant.
LEMMA UpKeeps == ASSUME CInv, NEW n \in NodeID, Shutdown(n) \/ Restart(n) PROVE CInv'
<1>1. /\ UNCHANGED <<db, msgs, sent, req, got, log, since>> /\ Types
      /\ up' = [up EXCEPT ![n] = "draining"] \/ up' = [up EXCEPT ![n] = "up"]
  BY DEF CInv, Shutdown, Restart
<1>2. Types'
  BY <1>1 DEF Types
<1>3. \A l \in NodeID : up[l] # "down" => up'[l] # "down"
  BY <1>1 DEF Types
<1>4. MessagesSound'
  <2> SUFFICES ASSUME NEW x \in msgs PROVE Underway(x)'
    BY <1>1 DEF MessagesSound
  <2>1. Underway(x)
    BY DEF CInv, MessagesSound
  <2> QED BY <1>1, <1>3, <2>1 DEF Underway, Current, Id
<1>5. OneEach' /\ Heard'
  BY <1>1 DEF CInv, OneEach, Heard, Id, Same, MayApply
<1>6. (LogSound /\ NotYet /\ Distinct /\ Counted)'
  BY <1>1, LogsKept
<1> QED BY <1>2, <1>4, <1>5, <1>6 DEF CInv

\* The end of a node's process keeps the invariant: with the store its log begins
\* anew, and the requests it held end with it.
LEMMA CrashKeeps == ASSUME CInv, NEW n \in NodeID, Crash(n) PROVE CInv'
<1>0. /\ Types /\ UNCHANGED <<sent, req, got>> /\ up' = [up EXCEPT ![n] = "down"]
      /\ db' = [db EXCEPT ![n] = EmptyStore] /\ log' = [log EXCEPT ![n] = [k \in Key |-> <<>>]]
      /\ since' = [c \in Client |-> IF req[c] # Nil /\ Home(req[c].key) = n THEN Lost
                                    ELSE since[c]]
  BY DEF CInv, Crash
<1>1. \A m \in msgs : /\ m \in Messages /\ Underway(m) /\ Failure(m) \in Replies
                      /\ m.id \in Client \X Nat
  BY <1>0, BareReplies DEF CInv, Types, MessagesSound, Failure, Messages
<1>2. ASSUME NEW x \in msgs'
      PROVE  \/ x \in msgs /\ ~(x.at = "node" /\ x.node = n)
             \/ \E m \in msgs : m.at = "node" /\ m.node = n /\ m.open /\ x = Back(m, Failure(m))
  BY DEF Crash
<1>3. /\ \A m \in msgs : ~(m.at = "node" /\ m.node = n) => m \in msgs'
      /\ \A m \in msgs : m.at = "node" /\ m.node = n /\ m.open => Back(m, Failure(m)) \in msgs'
  BY DEF Crash
<1>4. ASSUME NEW m \in msgs
      PROVE  LET x == Back(m, Failure(m)) IN
             /\ x \in Messages /\ x.at = "back" /\ x.ans = Failure(m) /\ x.id = m.id
             /\ x.req = m.req /\ x.open = m.open
  BY <1>1, SentBack
<1>5. Types'
  <2>1. msgs' \subseteq Messages
    BY <1>1, <1>2, <1>4
  <2>2. db' \in [NodeID -> [Key -> Entries]]
    BY <1>0 DEF Types, EmptyStore, Entries
  <2>3. log' \in [NodeID -> [Key -> Seq(Client \X Nat)]]
    <3>1. [k \in Key |-> <<>>] \in [Key -> Seq(Client \X Nat)]
      OBVIOUS
    <3> QED BY <3>1, <1>0 DEF Types
  <2> QED BY <1>0, <2>1, <2>2, <2>3 DEF Types
<1>6. MessagesSound'
  <2> SUFFICES ASSUME NEW x \in msgs' PROVE Underway(x)'
    BY DEF MessagesSound
  <2>1. CASE x \in msgs /\ ~(x.at = "node" /\ x.node = n)
    BY <2>1, <1>0, <1>1 DEF Underway, Current, Id, Types
  <2>2. ASSUME NEW m \in msgs, m.open, x = Back(m, Failure(m)) PROVE Underway(x)'
    <3>1. x.at = "back" /\ x.ans \in Replies /\ x.id = m.id /\ x.req = m.req /\ x.open
      BY <2>2, <1>1, <1>4
    <3>2. Underway(m)
      BY <1>1
    <3> QED BY <2>2, <3>1, <3>2, <1>0 DEF Underway, Current, Id
  <2> QED BY <1>2, <2>1, <2>2
<1>7. OneEach'
  <2> SUFFICES ASSUME NEW x \in msgs', NEW y \in msgs', x.id = y.id PROVE Same(x, y)
    BY DEF OneEach, Same, MayApply
  <2>1. PICK m \in msgs : \/ x = m /\ ~(m.at = "node" /\ m.node = n)
                          \/ m.at = "node" /\ m.node = n /\ m.open /\ x = Back(m, Failure(m))
    BY <1>2
  <2>2. PICK l \in msgs : \/ y = l /\ ~(l.at = "node" /\ l.node = n)
                          \/ l.at = "node" /\ l.node = n /\ l.open /\ y = Back(l, Failure(l))
    BY <1>2
  <2>3. x.id = m.id /\ x.open = m.open /\ (MayApply(x) => x = m)
    BY <2>1, <1>4 DEF MayApply
  <2>4. y.id = l.id /\ y.open = l.open /\ (MayApply(y) => y = l)
    BY <2>2, <1>4 DEF MayApply
  <2>5. Same(m, l)
    BY <2>3, <2>4 DEF CInv, OneEach
  <2> QED BY <2>1, <2>2, <2>3, <2>4, <2>5 DEF Same
<1>8. Heard'
  <2> SUFFICES ASSUME NEW c \in Client, got[c] = Waiting
               PROVE  \E x \in msgs' : x.open /\ x.id = Id(c)
    BY <1>0 DEF Heard, Id
  <2>1. PICK l \in msgs : l.open /\ l.id = Id(c)
    BY DEF CInv, Heard
  <2>2. CASE l.at = "node" /\ l.node = n
    BY <1>3, <1>4, <2>1, <2>2
  <2> QED BY <1>3, <2>1, <2>2
<1>9. \A a \in NodeID, b \in Key :
        /\ a # n => log'[a][b] = log[a][b] /\ db'[a][b] = db[a][b]
        /\ a = n => log'[a][b] = <<>> /\ db'[a][b] = Absent
  BY <1>0 DEF Types, EmptyStore
<1>10. \A a \in NodeID, b \in Key : \A z \in DOMAIN log'[a][b] :
         a # n /\ z \in DOMAIN log[a][b] /\ log'[a][b][z] = log[a][b][z]
  BY <1>9
<1>11. LogSound'
  <2> SUFFICES ASSUME NEW a \in NodeID, NEW b \in Key, NEW z \in DOMAIN log'[a][b]
               PROVE  log'[a][b][z][2] <= sent'[log'[a][b][z][1]]
    BY DEF LogSound
  <2>1. z \in DOMAIN log[a][b] /\ log'[a][b][z] = log[a][b][z]
    BY <1>10
  <2>2. log[a][b][z][2] <= sent[log[a][b][z][1]]
    BY <2>1 DEF CInv, LogSound
  <2> QED BY <2>1, <2>2, <1>0
<1>12. NotYet'
  <2> SUFFICES ASSUME NEW x \in msgs', MayApply(x), NEW a \in NodeID, NEW b \in Key,
                      NEW z \in DOMAIN log'[a][b], log'[a][b][z] = x.id
               PROVE  FALSE
    BY DEF NotYet, InLog, MayApply
  <2>1. x \in msgs
    BY <1>2, <1>4 DEF MayApply
  <2> QED BY <2>1, <1>10 DEF CInv, NotYet, InLog
<1>13. Distinct'
  BY <1>10 DEF CInv, Distinct
<1>14. Counted'
  BY <1>9 DEF CInv, Counted, Absent
<1> QED BY <1>5, <1>6, <1>7, <1>8, <1>11, <1>12, <1>13, <1>14 DEF CInv

\* The invariant holds when nothing has happened yet.
LEMMA InitCInv == Init => CInv
<1> SUFFICES ASSUME Init PROVE CInv
  OBVIOUS
<1>1. Types
  BY BareReplies DEF Init, Types, EmptyStore, Entries
<1>2. MessagesSound /\ OneEach /\ Heard /\ NotYet
  BY BareReplies DEF Init, MessagesSound, OneEach, Heard, NotYet
<1>3. LogSound /\ Distinct /\ Counted
  BY DEF Init, LogSound, Distinct, Counted, EmptyStore, Absent
<1> QED BY <1>1, <1>2, <1>3 DEF CInv

\* What happens to requests under way, and to nodes, keeps the invariant.
LEMMA ClusterKeeps ==
    ASSUME CInv, NEW S \in SUBSET NodeID, Progress \/ Failures \/ Crashes(S) PROVE CInv'
<1>1. ASSUME NEW m \in msgs, Forward(m) PROVE CInv'
  BY <1>1, ForwardKeeps
<1>2. ASSUME NEW m \in msgs, Handle(m) PROVE CInv'
  BY <1>2, HandleKeeps
<1>3. ASSUME NEW m \in msgs, NEW c \in Client, Deliver(c, m) PROVE CInv'
  <2>1. m.ans \in Replies
    BY <1>3 DEF Deliver, Receive, CInv, MessagesSound, Underway
  <2> QED BY <1>3, <2>1, ReceiveKeeps DEF Deliver
<1>4. ASSUME NEW m \in msgs, TimeOut(m) PROVE CInv'
  BY <1>4, TimeOutKeeps
<1>5. ASSUME NEW m \in msgs, NEW c \in Client, DeliverCut(c, m) PROVE CInv'
  <2>1. m.ans \in Replies
    BY <1>5 DEF DeliverCut, Receive, CInv, MessagesSound, Underway
  <2>2. [Bare(m.ans.status) EXCEPT !.whole = FALSE] \in Replies
    BY <2>1, CutReply
  <2> QED BY <1>5, <2>2, ReceiveKeeps DEF DeliverCut
<1>6. ASSUME NEW c \in Client, GiveUp(c) PROVE CInv'
  BY <1>6, GiveUpKeeps
<1>7. ASSUME NEW n \in NodeID, Shutdown(n) \/ Crash(n) \/ Restart(n) PROVE CInv'
  BY <1>7, UpKeeps, CrashKeeps
<1> QED BY <1>1, <1>2, <1>3, <1>4, <1>5, <1>6, <1>7 DEF Progress, Failures, Crashes
-----------------------------------------------------------------------------
(* What an answer says, on its way or received, is so and stays so.  A     *)
(* refusal stays true because the request it answers has no message left   *)
(* that a node could still handle.                                         *)

\* What became of c's write if the answer to it is ans.
Definite(ans) == ans \notin {Waiting, NoAnswer, Unavailable}
Fate(c, ans) ==
    IF ans.status = 200
    THEN IF ans.whole THEN AppliedAt(c, ans.version)
         ELSE \E i \in DOMAIN Writes(c) : AppliedAt(c, i)
    ELSE /\ \A i \in DOMAIN Writes(c) : ~AppliedAt(c, i)
         /\ \A m \in msgs : MayApply(m) => m.id # Id(c)

\* What c's answer ans says of the time since c asked.
Fresh(c, ans) ==
    ans.whole =>
        /\ ans.status = 200 => ans.version >= since[c]
        /\ ans.status = 404 => since[c] = 0
        /\ ans.status = 409 =>
              IF ans.version = Nil THEN since[c] = 0 /\ IfVersion(req[c]) # Nil
              ELSE ans.version >= since[c] /\ ans.version # IfVersion(req[c])

AnswerOk(c, ans) == /\ IsWrite(c) /\ Definite(ans) => Fate(c, ans)
                    /\ Fresh(c, ans)
KnownTo(c) ==
    /\ req[c] # Nil /\ since[c] <= Len(Writes(c))
    /\ AnswerOk(c, got[c])
    /\ \A m \in msgs : m.at = "back" /\ m.id = Id(c) => AnswerOk(c, m.ans)
Known == \A c \in Client : since[c] # Lost => KnownTo(c)

\* Every answer on its way is a node's, or says that there is none.
Told == \A m \in msgs : m.at = "back" =>
            \/ m.ans.status \in NodeStatuses
            \/ m.ans = Unavailable
            \/ m.ans = NoAnswer /\ m.via \notin ProxyID

\* A step that leaves c's request alone: the log of its key at most grows, by requests
\* that were under way, and none comes back to life.
Kept(c) ==
    /\ req'[c] = req[c] /\ sent'[c] = sent[c] /\ since'[c] = since[c]
    /\ \A i \in DOMAIN Writes(c) : i \in DOMAIN Writes(c)' /\ Writes(c)'[i] = Writes(c)[i]
    /\ \A i \in DOMAIN Writes(c)' :
          i \in DOMAIN Writes(c) \/ \E m \in msgs : MayApply(m) /\ Writes(c)'[i] = m.id
    /\ Len(Writes(c)) <= Len(Writes(c)') /\ Len(Writes(c)') \in Nat /\ Len(Writes(c)) \in Nat
    /\ \A x \in msgs' : MayApply(x) => \E m \in msgs : MayApply(m) /\ m.id = x.id

\* Such a step leaves an answer as true as it was.
LEMMA AnswerStays ==
    ASSUME NEW c \in Client, NEW ans, Kept(c), AnswerOk(c, ans)
    PROVE  AnswerOk(c, ans)'
<1>1. Id(c)' = Id(c) /\ (IsWrite(c)' <=> IsWrite(c))
  BY DEF Kept, Id, IsWrite
<1>2. Fresh(c, ans)'
  BY DEF AnswerOk, Fresh, Kept, IfVersion
<1>3. ASSUME IsWrite(c), Definite(ans) PROVE Fate(c, ans)'
  <2>1. Fate(c, ans)
    BY <1>3 DEF AnswerOk
  <2>2. \A i : AppliedAt(c, i) => AppliedAt(c, i)'
    BY <1>1 DEF Kept, AppliedAt
  <2>3. CASE ans.status = 200
    BY <2>1, <2>2, <2>3 DEF Fate, AppliedAt
  <2>4. CASE ans.status # 200
    <3>1. /\ \A j \in DOMAIN Writes(c) : ~AppliedAt(c, j)
          /\ \A m \in msgs : MayApply(m) => m.id # Id(c)
      BY <2>1, <2>4 DEF Fate
    <3>2. ASSUME NEW j \in DOMAIN Writes(c)' PROVE ~AppliedAt(c, j)'
      BY <3>1, <3>2, <1>1 DEF Kept, AppliedAt
    <3>3. \A x \in msgs' : MayApply(x) => x.id # Id(c)'
      BY <3>1, <1>1 DEF Kept
    <3> QED BY <2>4, <3>2, <3>3 DEF Fate, MayApply
  <2> QED BY <2>3, <2>4
<1> QED BY <1>1, <1>2, <1>3 DEF AnswerOk, Definite, Waiting, NoAnswer, Unavailable

\* What c knows stays known if every new answer to it is true.
LEMMA KnownStays ==
    ASSUME CInv, NEW c \in Client, KnownTo(c), Kept(c), since[c] \in Nat,
           got'[c] = got[c] \/ AnswerOk(c, got[c])',
           \A x \in msgs' : x.at = "back" /\ x.id = Id(c) =>
               (\E m \in msgs : m.at = "back" /\ m.id = Id(c) /\ m.ans = x.ans)
                  \/ AnswerOk(c, x.ans)'
    PROVE  KnownTo(c)'
<1>1. req'[c] # Nil /\ since'[c] <= Len(Writes(c)') /\ Id(c)' = Id(c)
  BY DEF KnownTo, Kept, Id
<1>2. AnswerOk(c, got[c])'
  <2>1. PICK a : a = got[c]
    OBVIOUS
  <2>2. AnswerOk(c, a)'
    BY <2>1, AnswerStays DEF KnownTo
  <2> QED BY <2>1, <2>2
<1>3. ASSUME NEW x \in msgs', x.at = "back", x.id = Id(c) PROVE AnswerOk(c, x.ans)'
  <2>1. ASSUME NEW m \in msgs, m.at = "back", m.id = Id(c), m.ans = x.ans
        PROVE  AnswerOk(c, x.ans)'
    <3>1. AnswerOk(c, m.ans)
      BY <2>1 DEF KnownTo
    <3> QED BY <2>1, <3>1, AnswerStays
  <2> QED BY <2>1, <1>3
<1> QED BY <1>1, <1>2, <1>3 DEF KnownTo

\* Where the logs stay as they are, a request is left alone.
LEMMA QuietKept ==
    ASSUME CInv, NEW c \in Client, req[c] # Nil, UNCHANGED log,
           req'[c] = req[c], sent'[c] = sent[c], since'[c] = since[c],
           \A x \in msgs' : MayApply(x) => \E m \in msgs : MayApply(m) /\ m.id = x.id
    PROVE  Kept(c)
<1>1. Writes(c)' = Writes(c)
  BY DEF Writes
<1>2. Len(Writes(c)) \in Nat
  <2>1. req[c] \in Requests
    BY DEF CInv, Types
  <2>2. req[c].key \in Key /\ Home(req[c].key) \in NodeID
    BY <2>1, HomeIs DEF Requests
  <2>3. Writes(c) \in Seq(Client \X Nat)
    BY <2>2 DEF Writes, CInv, Types
  <2> QED BY <2>3
<1> QED BY <1>1, <1>2 DEF Kept

\* A client that asks has no answer yet, and has seen nothing older than what it asks of.
LEMMA SubmitKnown ==
    ASSUME CInv, Told, Known, NEW c \in Client, NEW v \in NodeID \cup ProxyID, NEW r \in Requests,
           Submit(c, v, r)
    PROVE  Told' /\ Known'
<1>0. Types /\ UNCHANGED <<db, up, log>> /\ CInv'
  BY SubmitKeeps DEF CInv, Submit
<1>1. /\ sent' = [sent EXCEPT ![c] = @ + 1] /\ req' = [req EXCEPT ![c] = r]
      /\ got'[c] \in {Waiting, NoAnswer} /\ \A d \in Client : d # c => got'[d] = got[d]
      /\ since' = [since EXCEPT ![c] = db[Home(r.key)][r.key].version]
  BY <1>0 DEF Submit, Types
<1>2. \A x \in msgs' : x \in msgs \/ (x.id = <<c, sent[c] + 1>> /\ x.at # "back")
  BY DEF Submit
<1>3. Told'
  BY <1>2 DEF Told
<1>4. ASSUME NEW d \in Client, since'[d] # Lost, d # c PROVE KnownTo(d)'
  <2>1. req'[d] = req[d] /\ sent'[d] = sent[d] /\ since'[d] = since[d] /\ got'[d] = got[d]
        /\ since[d] \in Nat
    BY <1>0, <1>1, <1>4 DEF Types
  <2>2. KnownTo(d)
    BY <2>1, <1>4 DEF Known
  <2>3. Writes(d)' = Writes(d) /\ Id(d)' = Id(d) /\ (IsWrite(d)' <=> IsWrite(d))
    BY <2>1, <1>0 DEF Writes, Id, IsWrite
  <2>4. \A x \in msgs' : x.id = Id(d) => x \in msgs
    BY <1>2, <1>4 DEF Id
  <2>5. ASSUME NEW ans, AnswerOk(d, ans) PROVE AnswerOk(d, ans)'
    <3>1. Fresh(d, ans)'
      BY <2>1, <2>5 DEF AnswerOk, Fresh, IfVersion
    <3>2. \A j : AppliedAt(d, j)' <=> AppliedAt(d, j)
      BY <2>3 DEF AppliedAt
    <3>3. Fate(d, ans) => Fate(d, ans)'
      BY <2>3, <2>4, <3>2 DEF Fate, MayApply
    <3> QED BY <2>3, <2>5, <3>1, <3>3 DEF AnswerOk, Definite, Waiting, NoAnswer, Unavailable
  <2>6. AnswerOk(d, got[d])'
    <3>1. PICK a : a = got[d]
      OBVIOUS
    <3>2. AnswerOk(d, a)'
      BY <2>2, <2>5, <3>1 DEF KnownTo
    <3> QED BY <2>1, <3>1, <3>2
  <2>7. ASSUME NEW x \in msgs', x.at = "back", x.id = Id(d) PROVE AnswerOk(d, x.ans)'
    BY <2>2, <2>4, <2>5, <2>7 DEF KnownTo
  <2> QED BY <2>1, <2>2, <2>3, <2>6, <2>7 DEF KnownTo
<1>5. ASSUME since'[c] # Lost PROVE KnownTo(c)'
  <2>1. req'[c] = r /\ Id(c)' = <<c, sent[c] + 1>> /\ r # Nil /\ r.key \in Key /\ sent[c] \in Nat
    BY <1>0, <1>1, ClusterAssumption DEF Types, Id, Requests
  <2>2. Home(r.key) \in NodeID
    BY <2>1, HomeIs
  <2>3. since'[c] <= Len(Writes(c)')
    <3>1. since'[c] = Len(log[Home(r.key)][r.key])
      BY <1>0, <1>1, <2>1, <2>2 DEF CInv, Counted, Types
    <3>2. Writes(c)' = log[Home(r.key)][r.key]
      BY <1>0, <2>1 DEF Writes
    <3>3. Len(log[Home(r.key)][r.key]) \in Nat
      BY <1>0, <2>1, <2>2 DEF Types
    <3> QED BY <3>1, <3>2, <3>3
  <2>4. AnswerOk(c, got[c])'
    BY <1>1 DEF AnswerOk, Definite, Fresh, Waiting, NoAnswer, Bare, Answer
  <2>5. ASSUME NEW x \in msgs', x.at = "back" PROVE x.id # Id(c)'
    <3>1. x \in msgs
      BY <1>2, <2>5
    <3>2. x.id[2] <= sent[x.id[1]] /\ x.id \in Client \X Nat
      BY <1>0, <3>1 DEF CInv, MessagesSound, Underway, Types, Messages
    <3> QED BY <2>1, <3>2
  <2> QED BY <2>1, <2>3, <2>4, <2>5 DEF KnownTo
<1> QED BY <1>3, <1>4, <1>5 DEF Known

\* A request that a proxy turns down was never applied and never will be.
LEMMA ForwardKnown ==
    ASSUME CInv, Told, Known, NEW m \in msgs, Forward(m) PROVE Told' /\ Known'
<1>0. Types /\ m \in Messages /\ Underway(m) /\ m.at = "proxy"
      /\ UNCHANGED <<db, up, sent, req, got, log, since>>
  BY DEF CInv, Types, MessagesSound, Forward
<1>1. PICK new : /\ Becomes(m, new)
                 /\ \/ new = Back(m, Bare(405)) \/ new = Back(m, Unavailable)
                    \/ new = At(m, "node", Target(m))
  BY DEF Forward, MethodNotAllowed
<1>2. Target(m) \in NodeID
  BY ClusterAssumption, <1>0 DEF Target, Messages, Requests, Underway
<1>3. /\ new.id = m.id
      /\ new.at = "node" \/ (new.at = "back" /\ new.ans \in {Bare(405), Unavailable})
  <2>1. Bare(405) \in Replies /\ Unavailable \in Replies
    BY BareReplies
  <2> QED BY <1>0, <1>1, <1>2, <2>1, SentOn, SentBack
<1>4. \A x \in msgs' : (x \in msgs /\ x # m) \/ x = new
  BY <1>1 DEF Becomes
<1>5. Bare(405).status = 405 /\ Bare(405).version = Nil
  BY DEF Bare, Answer
<1>6. Told'
  BY <1>3, <1>4, <1>5 DEF Told, NodeStatuses
<1>7. \A x \in msgs' : MayApply(x) => \E l \in msgs : MayApply(l) /\ l.id = x.id
  BY <1>0, <1>3, <1>4 DEF MayApply
<1>8. ASSUME NEW c \in Client, since'[c] # Lost PROVE KnownTo(c)'
  <2>1. KnownTo(c) /\ since[c] \in Nat /\ req[c] # Nil
    BY <1>0, <1>8 DEF Known, Types, KnownTo
  <2>2. Kept(c)
    BY <1>0, <1>7, <2>1, QuietKept
  <2>3. ASSUME new.at = "back", new.id = Id(c), new \in msgs' PROVE AnswerOk(c, new.ans)'
    <3>1. CASE new.ans = Unavailable
      BY <3>1 DEF AnswerOk, Definite, Fresh, Unavailable, Bare, Answer
    <3>2. CASE new.ans = Bare(405)
      <4>1. ~InLog(m.id)
        BY <1>0 DEF CInv, NotYet, MayApply
      <4>2. \A j \in DOMAIN Writes(c) : ~AppliedAt(c, j)
        <5>1. req[c].key \in Key /\ Home(req[c].key) \in NodeID
          BY <2>1, <1>0, HomeIs DEF Types, Requests
        <5> QED BY <4>1, <5>1, <1>3, <2>3 DEF InLog, AppliedAt, Writes
      <4>3. \A x \in msgs' : MayApply(x) => x.id # m.id
        BY <1>0, <1>3, <1>4, <2>3 DEF CInv, OneEach, Same, MayApply
      <4>4. Fate(c, new.ans)'
        <5>1. new.ans.status # 200 /\ Id(c)' = Id(c) /\ Writes(c)' = Writes(c)
          BY <3>2, <1>0, <1>5 DEF Id, Writes
        <5>2. \A j \in DOMAIN Writes(c)' : ~AppliedAt(c, j)'
          BY <5>1, <4>2 DEF AppliedAt
        <5>3. \A x \in msgs' : MayApply(x) => x.id # Id(c)'
          BY <5>1, <4>3, <1>3, <2>3
        <5> QED BY <5>1, <5>2, <5>3 DEF Fate, MayApply
      <4> QED BY <4>4, <3>2, <1>5 DEF AnswerOk, Fresh
    <3> QED BY <1>3, <2>3, <3>1, <3>2
  <2>4. \A x \in msgs' : x.at = "back" /\ x.id = Id(c) =>
          (\E l \in msgs : l.at = "back" /\ l.id = Id(c) /\ l.ans = x.ans) \/ AnswerOk(c, x.ans)'
    BY <1>4, <2>3
  <2> QED BY <1>0, <2>1, <2>2, <2>4, KnownStays
<1> QED BY <1>6, <1>8 DEF Known

\* What a handler that runs to its end does to the logs and to the messages.
LEMMA HandleStep ==
    ASSUME CInv, NEW m \in msgs, Handle(m)
    PROVE  LET n == m.node
               k == m.req.key
               x == db[n][k]
               y == After(NodeConf[n], x, m.req, CountHeader(m))
               ans == Respond(NodeConf[n], x, m.req, CountHeader(m))
           IN  /\ n \in NodeID /\ k \in Key /\ x \in Entries /\ m.req \in Requests
               /\ log[n][k] \in Seq(Client \X Nat) /\ m.id \in Client \X Nat
               /\ x.version = Len(log[n][k]) /\ ~InLog(m.id)
               /\ \A a \in NodeID, b \in Key : a # n \/ b # k => log'[a][b] = log[a][b]
               /\ log'[n][k] = IF y = x THEN log[n][k] ELSE Append(log[n][k], m.id)
               /\ ans \in NodeReplies
               /\ Back(m, ans).at = "back" /\ Back(m, ans).ans = ans /\ Back(m, ans).id = m.id
               /\ \A z \in msgs' : (z \in msgs /\ z # m) \/ (z = Back(m, ans) /\ m.open)
               /\ \A z \in msgs' : MayApply(z) => z \in msgs /\ z.id # m.id
<1>0. Types /\ m \in Messages /\ Underway(m) /\ m.at = "node"
  BY DEF CInv, Types, MessagesSound, Handle
<1>1. PICK n \in NodeID, k \in Key : n = m.node /\ k = m.req.key
  BY <1>0 DEF Underway, Messages, Requests
<1>2. PICK x \in Entries : x = db[n][k]
  BY <1>0 DEF Types
<1>3. PICK y, ans : /\ y = After(NodeConf[n], x, m.req, CountHeader(m))
                    /\ ans = Respond(NodeConf[n], x, m.req, CountHeader(m))
  OBVIOUS
<1>4. /\ log' = [log EXCEPT ![n][k] = IF y = x THEN @ ELSE Append(@, m.id)]
      /\ Becomes(m, Back(m, ans))
  BY <1>1, <1>2, <1>3 DEF Handle
<1>5. m.req \in Requests /\ m.id \in Client \X Nat /\ log[n][k] \in Seq(Client \X Nat)
  BY <1>0 DEF Messages, Types
<1>6. ans \in NodeReplies
  BY <1>3, <1>5, RespondCases
<1>7. ans \in Replies
  BY <1>6, BareReplies
<1>8. Back(m, ans).at = "back" /\ Back(m, ans).ans = ans /\ Back(m, ans).id = m.id
      /\ Back(m, ans).open = m.open
  BY <1>0, <1>7, SentBack
<1>9. \A z \in msgs' : (z \in msgs /\ z # m) \/ (z = Back(m, ans) /\ m.open)
  BY <1>4, <1>8 DEF Becomes
<1>10. \A z \in msgs' : MayApply(z) => z \in msgs /\ z.id # m.id
  <2>1. \A l \in msgs : l.id = m.id => Same(m, l)
    BY DEF CInv, OneEach
  <2> QED BY <2>1, <1>0, <1>8, <1>9 DEF MayApply, Same
<1>11. ~InLog(m.id) /\ x.version = Len(log[n][k])
  BY <1>0, <1>2 DEF CInv, NotYet, MayApply, Counted
<1>12. /\ \A a \in NodeID, b \in Key : a # n \/ b # k => log'[a][b] = log[a][b]
       /\ log'[n][k] = IF y = x THEN log[n][k] ELSE Append(log[n][k], m.id)
  BY <1>0, <1>4 DEF Types
<1> QED BY <1>1, <1>2, <1>3, <1>5, <1>6, <1>8, <1>9, <1>10, <1>11, <1>12


\* What a node answers is so: the version it names is the client's write, a refused
\* write is in no log, and the versions it shows are not older than the request.
LEMMA HandleAnswers ==
    ASSUME CInv, NEW m \in msgs, Handle(m), NEW c \in Client, m.id = Id(c),
           KnownTo(c), since[c] \in Nat, req[c] = m.req, NEW ans,
           ans = Respond(NodeConf[m.node], db[m.node][m.req.key], m.req, CountHeader(m))
    PROVE  AnswerOk(c, ans)'
<1>0. UNCHANGED <<sent, req, since>> /\ Id(c)' = Id(c) /\ (IsWrite(c)' <=> IsWrite(c))
  BY DEF Handle, Id, IsWrite
<1>1. PICK n, k, x, y : /\ n = m.node /\ k = m.req.key /\ x = db[n][k]
                        /\ y = After(NodeConf[n], x, m.req, CountHeader(m))
  OBVIOUS
<1>2. PICK r \in Requests, L \in Seq(Client \X Nat) : r = m.req /\ L = log[n][k]
  BY <1>1, HandleStep
<1>3. /\ n \in NodeID /\ k \in Key /\ x \in Entries /\ k = r.key /\ m.id \in Client \X Nat
      /\ x.version = Len(L) /\ ~InLog(m.id)
      /\ log'[n][k] = IF y = x THEN L ELSE Append(L, m.id)
      /\ ans = Respond(NodeConf[n], x, r, CountHeader(m))
      /\ y = After(NodeConf[n], x, r, CountHeader(m))
  BY <1>1, <1>2, HandleStep
<1>4. \A a \in NodeID, b \in Key : a # n \/ b # k => log'[a][b] = log[a][b]
  BY <1>1, HandleStep, ZenonT(60)
<1>5. \A z \in msgs' : MayApply(z) => z.id # m.id
  BY HandleStep
<1>6. /\ ans \in NodeReplies /\ ans.whole
      /\ ans.status \in {200, 404, 409} => Accepts(NodeConf[n], r, CountHeader(m))
      /\ ans.status = 200 => IF r.method = "GET" THEN x # Absent /\ ans.version = x.version
                             ELSE y # x /\ ans.version = x.version + 1
      /\ ans.status # 200 => y = x
      /\ ans.status = 404 => x = Absent
      /\ ans.status = 409 => /\ r.method # "GET" /\ GuardFails(x, Call(r))
                             /\ ans.version = IF x.version = 0 THEN Nil ELSE x.version
  <2>1. ans \in NodeReplies => ans.whole = TRUE
    BY DEF NodeReplies
  <2> QED BY <1>3, <2>1, RespondCases
<1>7. ans.status \in {200, 404, 409} => n = Home(k)
  <2>1. ans.status \in {200, 404, 409} => KeyOk(NodeConf[n], k)
    BY <1>3, <1>6, Accepted
  <2> QED BY <1>3, <2>1, HomeIs
<1>8. n = Home(k) => Writes(c) = L /\ Writes(c)' = log'[n][k]
  BY <1>0, <1>1, <1>2, <1>3 DEF Writes
<1>9. Len(L) \in Nat /\ (n = Home(k) => since[c] <= Len(L)) /\ (x.version = 0 <=> x = Absent)
  BY <1>2, <1>3, <1>8, AfterIsEntry DEF KnownTo
<1>10. ASSUME IsWrite(c) PROVE Fate(c, ans)'
  <2>1. r.method # "GET"
    BY <1>2, <1>10 DEF IsWrite
  <2>2. CASE ans.status = 200
    <3>1. y # x /\ ans.version = Len(L) + 1 /\ n = Home(k)
      BY <2>1, <2>2, <1>3, <1>6, <1>7
    <3>2. Writes(c)' = Append(L, m.id)
      BY <3>1, <1>3, <1>8
    <3>3. Len(L) + 1 \in DOMAIN Append(L, m.id) /\ Append(L, m.id)[Len(L) + 1] = m.id
      <4>1. \A id \in Client \X Nat :
              Len(L) + 1 \in DOMAIN Append(L, id) /\ Append(L, id)[Len(L) + 1] = id
        BY <1>2
      <4> QED BY <4>1, <1>3
    <3>4. AppliedAt(c, ans.version)'
      BY <3>1, <3>2, <3>3, <1>0 DEF AppliedAt
    <3> QED BY <2>2, <3>4, <1>6 DEF Fate
  <2>3. CASE ans.status # 200
    <3>1. \A a \in NodeID, b \in Key : log'[a][b] = log[a][b]
      BY <2>3, <1>2, <1>3, <1>4, <1>6
    <3>2. Home(k) \in NodeID
      BY <1>3, HomeIs
    <3>3. Writes(c)' = log[Home(k)][k]
      <4>1. Writes(c)' = log'[Home(k)][k]
        BY <1>0, <1>1 DEF Writes
      <4> QED BY <4>1, <3>1, <3>2, <1>3
    <3>4. \A j \in DOMAIN Writes(c)' : ~AppliedAt(c, j)'
      BY <3>2, <3>3, <1>0, <1>3 DEF AppliedAt, InLog
    <3>5. \A z \in msgs' : MayApply(z) => z.id # Id(c)'
      BY <1>0, <1>5
    <3> QED BY <2>3, <3>4, <3>5 DEF Fate, MayApply
  <2> QED BY <2>2, <2>3
<1>11. Fresh(c, ans)'
  <2>0. since'[c] = since[c] /\ req'[c] = r /\ since[c] \in Nat
    BY <1>0, <1>2
  <2>1. ans.status = 200 => ans.version >= since[c]
    BY <1>3, <1>6, <1>7, <1>9
  <2>2. ans.status = 404 => since[c] = 0
    BY <1>3, <1>6, <1>7, <1>9
  <2>3. ASSUME ans.status = 409
        PROVE  IF ans.version = Nil THEN since[c] = 0 /\ IfVersion(r) # Nil
               ELSE ans.version >= since[c] /\ ans.version # IfVersion(r)
    <3>1. /\ Call(r).ifAbsent = IfAbsent(r) /\ Call(r).ifVersion = IfVersion(r)
          /\ ~ConflictingGuards(Call(r)) /\ GuardFails(x, Call(r))
          /\ ans.version = IF x.version = 0 THEN Nil ELSE x.version
          /\ n = Home(k) /\ IfVersion(r) \in Nat \cup {Nil}
      BY <2>3, <1>6, <1>7, AcceptedWrite
    <3>2. CASE x = Absent
      BY <3>1, <3>2, <1>3, <1>9 DEF GuardFails
    <3>3. CASE x # Absent
      BY <3>1, <3>3, <1>3, <1>9, ClusterAssumption DEF GuardFails, ConflictingGuards
    <3> QED BY <3>2, <3>3
  <2>4. IfVersion(req[c])' = IfVersion(r)
    BY <2>0 DEF IfVersion
  <2>5. ans.status = 409 => IF ans.version = Nil
                              THEN since'[c] = 0 /\ IfVersion(req[c])' # Nil
                              ELSE ans.version >= since'[c] /\ ans.version # IfVersion(req[c])'
    BY <2>0, <2>3, <2>4
  <2>6. /\ ans.status = 200 => ans.version >= since'[c]
        /\ ans.status = 404 => since'[c] = 0
    BY <2>0, <2>1, <2>2
  <2> QED BY <2>5, <2>6 DEF Fresh
<1> QED BY <1>0, <1>10, <1>11 DEF AnswerOk

\* A handler that runs to its end leaves every other answer as true as it was.
LEMMA HandleKnown ==
    ASSUME CInv, Told, Known, NEW m \in msgs, Handle(m) PROVE Told' /\ Known'
<1>0. Types /\ m \in Messages /\ Underway(m) /\ m.at = "node" /\ UNCHANGED <<sent, req, got, since>>
  BY DEF CInv, Types, MessagesSound, Handle
<1>1. PICK n \in NodeID, k \in Key : n = m.node /\ k = m.req.key
  BY <1>0 DEF Underway, Messages, Requests
<1>2. PICK ans : ans = Respond(NodeConf[m.node], db[m.node][m.req.key], m.req, CountHeader(m))
  OBVIOUS
<1>3. /\ ans \in NodeReplies
      /\ Back(m, ans).at = "back" /\ Back(m, ans).ans = ans /\ Back(m, ans).id = m.id
      /\ \A z \in msgs' : (z \in msgs /\ z # m) \/ (z = Back(m, ans) /\ m.open)
      /\ \A z \in msgs' : MayApply(z) => z \in msgs /\ z.id # m.id
      /\ m.id \in Client \X Nat /\ log[n][k] \in Seq(Client \X Nat)
  BY <1>1, <1>2, HandleStep
<1>4. /\ \A a \in NodeID, b \in Key : a # n \/ b # k => log'[a][b] = log[a][b]
      /\ log'[n][k] = log[n][k] \/ log'[n][k] = Append(log[n][k], m.id)
  <2>1. PICK x, y : /\ x = db[m.node][m.req.key]
                    /\ y = After(NodeConf[m.node], x, m.req, CountHeader(m))
    OBVIOUS
  <2>2. log'[m.node][m.req.key] = IF y = x THEN log[m.node][m.req.key]
                                  ELSE Append(log[m.node][m.req.key], m.id)
    BY <2>1, HandleStep
  <2>3. \A a \in NodeID, b \in Key : a # m.node \/ b # m.req.key => log'[a][b] = log[a][b]
    BY HandleStep
  <2> QED BY <1>1, <2>2, <2>3
<1>5. Told'
  BY <1>3 DEF Told, NodeReplies
<1>6. ASSUME NEW c \in Client, since'[c] # Lost PROVE KnownTo(c)'
  <2>1. KnownTo(c) /\ since[c] \in Nat /\ req[c] # Nil
    BY <1>0, <1>6 DEF Known, Types, KnownTo
  <2>2. PICK a \in NodeID, b \in Key : a = Home(req[c].key) /\ b = req[c].key
    BY <2>1, <1>0, HomeIs DEF Types, Requests
  <2>3. Writes(c) = log[a][b] /\ Writes(c)' = log'[a][b] /\ log[a][b] \in Seq(Client \X Nat)
    BY <1>0, <2>2 DEF Writes, Types
  <2>4. /\ \A j \in DOMAIN Writes(c) : j \in DOMAIN Writes(c)' /\ Writes(c)'[j] = Writes(c)[j]
        /\ \A j \in DOMAIN Writes(c)' : j \in DOMAIN Writes(c) \/ Writes(c)'[j] = m.id
        /\ Len(Writes(c)) <= Len(Writes(c)') /\ Len(Writes(c)') \in Nat /\ Len(Writes(c)) \in Nat
    <3>1. CASE log'[a][b] = log[a][b]
      BY <3>1, <2>3
    <3>2. CASE log'[a][b] = Append(log[a][b], m.id)
      <4>1. PICK L \in Seq(Client \X Nat), id \in Client \X Nat : L = log[a][b] /\ id = m.id
        BY <1>3, <2>3
      <4>2. /\ DOMAIN L = 1..Len(L) /\ DOMAIN Append(L, id) = 1..(Len(L) + 1)
            /\ \A j \in 1..Len(L) : Append(L, id)[j] = L[j]
            /\ Append(L, id)[Len(L) + 1] = id /\ Len(L) \in Nat /\ Len(Append(L, id)) = Len(L) + 1
        OBVIOUS
      <4>3. Writes(c) = L /\ Writes(c)' = Append(L, id)
        BY <2>3, <3>2, <4>1
      <4>4. \A j \in DOMAIN Writes(c) : j \in DOMAIN Writes(c)' /\ Writes(c)'[j] = Writes(c)[j]
        BY <4>2, <4>3
      <4>5. \A j \in DOMAIN Writes(c)' : j \in DOMAIN Writes(c) \/ Writes(c)'[j] = m.id
        <5>1. \A j \in 1..(Len(L) + 1) : j \in 1..Len(L) \/ j = Len(L) + 1
          BY <4>2
        <5> QED BY <5>1, <4>1, <4>2, <4>3
      <4> QED BY <4>2, <4>3, <4>4, <4>5
    <3> QED BY <1>4, <3>1, <3>2
  <2>5. Kept(c)
    BY <1>0, <1>3, <2>4 DEF Kept, MayApply
  <2>6. ASSUME m.open, m.id = Id(c) PROVE AnswerOk(c, ans)'
    <3>1. Current(m)
      BY <1>0, <2>6 DEF Underway
    <3>2. m.req = req[c]
      BY <1>0, <3>1, <2>6 DEF Underway, Id
    <3> QED BY <1>2, <2>1, <2>6, <3>2, HandleAnswers
  <2>7. \A x \in msgs' : x.at = "back" /\ x.id = Id(c) =>
          (\E l \in msgs : l.at = "back" /\ l.id = Id(c) /\ l.ans = x.ans) \/ AnswerOk(c, x.ans)'
    BY <1>3, <2>6
  <2> QED BY <1>0, <2>1, <2>5, <2>7, KnownStays
<1> QED BY <1>5, <1>6 DEF Known

\* The answer that a proxy gives for a node it has stopped waiting for claims nothing.
LEMMA TimeOutKnown ==
    ASSUME CInv, Told, Known, NEW m \in msgs, TimeOut(m) PROVE Told' /\ Known'
<1> DEFINE told == Back(m, Unavailable)
           left == [m EXCEPT !.open = FALSE]
<1>0. Types /\ m \in Messages /\ UNCHANGED <<db, up, sent, req, got, log, since>>
  BY DEF CInv, Types, TimeOut
<1>1. told.ans = Unavailable /\ told.at = "back" /\ told.id = m.id
  <2>1. Unavailable \in Replies
    BY BareReplies
  <2> QED BY <1>0, <2>1, SentBack
<1>2. left.at = m.at /\ left.id = m.id
  BY <1>0, Closed
<1>3. \A x \in msgs' : x \in msgs \/ x = told \/ (x = left /\ m.at = "node")
  BY <1>2 DEF TimeOut
<1> HIDE DEF told, left
<1>4. Told'
  BY <1>1, <1>2, <1>3 DEF Told
<1>5. \A x \in msgs' : MayApply(x) => \E l \in msgs : MayApply(l) /\ l.id = x.id
  BY <1>1, <1>2, <1>3 DEF MayApply
<1>6. ASSUME NEW c \in Client, since'[c] # Lost PROVE KnownTo(c)'
  <2>1. KnownTo(c) /\ since[c] \in Nat /\ req[c] # Nil
    BY <1>0, <1>6 DEF Known, Types, KnownTo
  <2>2. Kept(c)
    BY <1>0, <1>5, <2>1, QuietKept
  <2>3. AnswerOk(c, told.ans)'
    BY <1>1 DEF AnswerOk, Definite, Fresh, Unavailable, Bare, Answer
  <2>4. \A x \in msgs' : x.at = "back" /\ x.id = Id(c) =>
          (\E l \in msgs : l.at = "back" /\ l.id = Id(c) /\ l.ans = x.ans) \/ AnswerOk(c, x.ans)'
    BY <1>2, <1>3, <2>3
  <2> QED BY <1>0, <2>1, <2>2, <2>4, KnownStays
<1> QED BY <1>4, <1>6 DEF Known

\* What a client is told is so when what it receives is.
LEMMA ReceiveKnown ==
    ASSUME CInv, Told, Known, NEW m \in msgs, NEW c \in Client, NEW ans \in Replies,
           Receive(c, m, ans), since[c] # Lost => AnswerOk(c, ans)
    PROVE  Told' /\ Known'
<1>0. /\ Types /\ UNCHANGED <<db, up, sent, req, log, since>>
      /\ msgs' \subseteq msgs /\ got' = [got EXCEPT ![c] = ans]
  BY DEF CInv, Receive
<1>1. Told'
  BY <1>0 DEF Told
<1>2. ASSUME NEW d \in Client, since'[d] # Lost PROVE KnownTo(d)'
  <2>1. KnownTo(d) /\ since[d] \in Nat /\ req[d] # Nil
    BY <1>0, <1>2 DEF Known, Types, KnownTo
  <2>2. Kept(d)
    BY <1>0, <2>1, QuietKept
  <2>3. got'[d] = got[d] \/ AnswerOk(d, got[d])'
    <3>1. CASE d = c
      <4>1. AnswerOk(d, ans)'
        BY <1>0, <1>2, <2>2, <3>1, AnswerStays
      <4>2. got'[d] = ans
        BY <1>0, <3>1 DEF Types
      <4> QED BY <4>1, <4>2
    <3>2. CASE d # c
      BY <1>0, <3>2 DEF Types
    <3> QED BY <3>1, <3>2
  <2> QED BY <1>0, <2>1, <2>2, <2>3, KnownStays
<1> QED BY <1>1, <1>2 DEF Known

\* An answer that arrives was true on its way.
LEMMA DeliverKnown ==
    ASSUME CInv, Told, Known, NEW m \in msgs, NEW c \in Client, Deliver(c, m)
    PROVE  Told' /\ Known'
<1>1. /\ m.at = "back" /\ m.id = Id(c) /\ m.ans \in Replies /\ Receive(c, m, m.ans)
  BY DEF Deliver, Receive, CInv, MessagesSound, Underway
<1>2. since[c] # Lost => AnswerOk(c, m.ans)
  BY <1>1 DEF Known, KnownTo
<1> QED BY <1>1, <1>2, ReceiveKnown

\* Cut short, an answer still says by its status whether the write was applied.
LEMMA DeliverCutKnown ==
    ASSUME CInv, Told, Known, NEW m \in msgs, NEW c \in Client, DeliverCut(c, m)
    PROVE  Told' /\ Known'
<1>1. PICK cut : cut = [Bare(m.ans.status) EXCEPT !.whole = FALSE]
  OBVIOUS
<1>2. /\ m.at = "back" /\ m.id = Id(c) /\ m.ans \in Replies /\ Receive(c, m, cut) /\ FromNode(m)
  BY <1>1 DEF DeliverCut, Receive, CInv, MessagesSound, Underway
<1>3. cut \in Replies /\ cut.status = m.ans.status /\ ~cut.whole
  BY <1>1, <1>2, CutReply
<1>4. m.ans.status \in NodeStatuses
  BY <1>2 DEF Told, FromNode
<1>5. Definite(m.ans)
  BY <1>4 DEF Definite, Waiting, NoAnswer, Unavailable, Bare, Answer, NodeStatuses
<1>6. ASSUME since[c] # Lost PROVE AnswerOk(c, cut)
  <2>1. AnswerOk(c, m.ans)
    BY <1>2, <1>6 DEF Known, KnownTo
  <2>2. Fresh(c, cut)
    BY <1>3 DEF Fresh
  <2>3. IsWrite(c) => Fate(c, cut)
    BY <1>3, <1>5, <2>1 DEF AnswerOk, Fate, AppliedAt
  <2> QED BY <2>2, <2>3 DEF AnswerOk
<1> QED BY <1>2, <1>3, <1>6, ReceiveKnown

\* A client that stops waiting has heard nothing.
LEMMA GiveUpKnown ==
    ASSUME CInv, Told, Known, NEW c \in Client, GiveUp(c) PROVE Told' /\ Known'
<1>0. Types /\ UNCHANGED <<db, up, sent, req, log, since>> /\ got' = [got EXCEPT ![c] = NoAnswer]
  BY DEF CInv, GiveUp
<1>1. ASSUME NEW x \in msgs'
      PROVE  \E m \in msgs : \/ x = m
                             \/ MayApply(m) /\ x.at = m.at /\ x.id = m.id
  <2>1. PICK m \in msgs : \/ MayApply(m) /\ x = [m EXCEPT !.open = FALSE]
                          \/ x = m
    BY DEF GiveUp, MayApply
  <2>2. m \in Messages
    BY <1>0 DEF Types
  <2> QED BY <2>1, <2>2, Closed
<1>2. Told'
  BY <1>1 DEF Told, MayApply
<1>3. \A x \in msgs' : MayApply(x) => \E l \in msgs : MayApply(l) /\ l.id = x.id
  BY <1>1
<1>4. ASSUME NEW d \in Client, since'[d] # Lost PROVE KnownTo(d)'
  <2>1. KnownTo(d) /\ since[d] \in Nat /\ req[d] # Nil
    BY <1>0, <1>4 DEF Known, Types, KnownTo
  <2>2. Kept(d)
    BY <1>0, <1>3, <2>1, QuietKept
  <2>3. AnswerOk(d, NoAnswer)'
    BY DEF AnswerOk, Definite, Fresh, NoAnswer, Bare, Answer
  <2>4. got'[d] = got[d] \/ AnswerOk(d, got[d])'
    <3>1. got'[d] = got[d] \/ got'[d] = NoAnswer
      BY <1>0 DEF Types
    <3> QED BY <2>3, <3>1 DEF NoAnswer, Bare, Answer
  <2>5. \A x \in msgs' : x.at = "back" /\ x.id = Id(d) =>
          \E l \in msgs : l.at = "back" /\ l.id = Id(d) /\ l.ans = x.ans
    BY <1>1 DEF MayApply
  <2> QED BY <1>0, <2>1, <2>2, <2>4, <2>5, KnownStays
<1> QED BY <1>2, <1>4 DEF Known

\* A node that stops taking connections, or starts, tells nobody anything.
LEMMA UpKnown ==
    ASSUME CInv, Told, Known, NEW n \in NodeID, Shutdown(n) \/ Restart(n) PROVE Told' /\ Known'
<1>0. Types /\ UNCHANGED <<db, msgs, sent, req, got, log, since>>
  BY DEF CInv, Shutdown, Restart
<1>1. Told'
  BY <1>0 DEF Told
<1>2. ASSUME NEW d \in Client, since'[d] # Lost PROVE KnownTo(d)'
  <2>1. KnownTo(d) /\ since[d] \in Nat /\ req[d] # Nil
    BY <1>0, <1>2 DEF Known, Types, KnownTo
  <2>2. Kept(d)
    BY <1>0, <2>1, QuietKept
  <2> QED BY <1>0, <2>1, <2>2, KnownStays
<1> QED BY <1>1, <1>2 DEF Known

\* With its process a node's log is gone, and with it what its clients knew of it; who
\* asked of another node still knows, and who waited for this one is told nothing.
LEMMA CrashKnown ==
    ASSUME CInv, Told, Known, NEW n \in NodeID, Crash(n) PROVE Told' /\ Known'
<1>0. /\ Types /\ UNCHANGED <<sent, req, got>>
      /\ log' = [log EXCEPT ![n] = [k \in Key |-> <<>>]]
      /\ since' = [c \in Client |-> IF req[c] # Nil /\ Home(req[c].key) = n THEN Lost
                                    ELSE since[c]]
  BY DEF CInv, Crash
<1>1. ASSUME NEW x \in msgs'
      PROVE  x \in msgs \/ \E m \in msgs : x.at = "back" /\ x.ans = Failure(m) /\ x.via = m.via
  <2>1. CASE x \in msgs
    BY <2>1
  <2>2. ASSUME NEW m \in msgs, x = Back(m, Failure(m))
        PROVE  x.at = "back" /\ x.ans = Failure(m) /\ x.via = m.via
    <3>1. m \in Messages /\ Failure(m) \in Replies
      BY <1>0, BareReplies DEF Types, Failure
    <3>2. x.at = "back" /\ x.ans = Failure(m)
      BY <2>2, <3>1, SentBack
    <3>3. x.via = m.via
      BY <2>2, <3>1 DEF Back, Messages
    <3> QED BY <3>2, <3>3
  <2> QED BY <2>1, <2>2 DEF Crash
<1>2. \A m \in msgs : Failure(m) = Unavailable \/ (Failure(m) = NoAnswer /\ m.via \notin ProxyID)
  BY DEF Failure
<1>3. Told'
  BY <1>1, <1>2 DEF Told
<1>4. ASSUME NEW d \in Client, since'[d] # Lost PROVE KnownTo(d)'
  <2>1. since'[d] = since[d]
    BY <1>0, <1>4
  <2>2. KnownTo(d) /\ since[d] \in Nat /\ req[d] # Nil
    BY <2>1, <1>0, <1>4 DEF Known, Types, KnownTo
  <2>3. PICK a \in NodeID, b \in Key : a = Home(req[d].key) /\ b = req[d].key
    BY <2>2, <1>0, HomeIs DEF Types, Requests
  <2>4. a # n
    BY <1>0, <1>4, <2>2, <2>3
  <2>5. Writes(d)' = Writes(d) /\ Writes(d) \in Seq(Client \X Nat)
    <3>1. Writes(d) = log[a][b] /\ Writes(d)' = log'[a][b]
      BY <1>0, <2>3 DEF Writes
    <3> QED BY <1>0, <2>4, <3>1 DEF Types
  <2>6. Kept(d)
    <3>1. \A x \in msgs' : MayApply(x) => \E m \in msgs : MayApply(m) /\ m.id = x.id
      BY <1>1 DEF MayApply
    <3>2. Len(Writes(d)) \in Nat
      BY <2>5
    <3> QED BY <1>0, <2>1, <2>5, <3>1, <3>2 DEF Kept
  <2>7. AnswerOk(d, NoAnswer)' /\ AnswerOk(d, Unavailable)'
    BY DEF AnswerOk, Definite, Fresh, NoAnswer, Unavailable, Bare, Answer
  <2>8. ASSUME NEW x \in msgs', x.at = "back", x.id = Id(d)
        PROVE  (\E l \in msgs : l.at = "back" /\ l.id = Id(d) /\ l.ans = x.ans) \/ AnswerOk(d, x.ans)'
    <3>1. CASE x \in msgs
      BY <2>8, <3>1
    <3>2. CASE x.ans = Unavailable \/ x.ans = NoAnswer
      BY <2>7, <3>2 DEF Unavailable, NoAnswer, Bare, Answer
    <3> QED BY <1>1, <1>2, <3>1, <3>2
  <2> QED BY <1>0, <2>2, <2>6, <2>8, KnownStays
<1> QED BY <1>3, <1>4 DEF Known

\* What happens to requests under way, and to nodes, keeps what is known.
LEMMA ClusterKnown ==
    ASSUME CInv, Told, Known, NEW S \in SUBSET NodeID, Progress \/ Failures \/ Crashes(S)
    PROVE  Told' /\ Known' /\ sent' = sent
<1>1. ASSUME NEW m \in msgs, Forward(m) \/ Handle(m) \/ TimeOut(m) PROVE Told' /\ Known' /\ sent' = sent
  BY <1>1, ForwardKnown, HandleKnown, TimeOutKnown DEF Forward, Handle, TimeOut
<1>2. ASSUME NEW m \in msgs, NEW c \in Client, Deliver(c, m) \/ DeliverCut(c, m)
      PROVE  Told' /\ Known' /\ sent' = sent
  BY <1>2, DeliverKnown, DeliverCutKnown DEF Deliver, DeliverCut, Receive
<1>3. ASSUME NEW c \in Client, GiveUp(c) PROVE Told' /\ Known' /\ sent' = sent
  BY <1>3, GiveUpKnown DEF GiveUp
<1>4. ASSUME NEW n \in NodeID, Shutdown(n) \/ Crash(n) \/ Restart(n)
      PROVE  Told' /\ Known' /\ sent' = sent
  BY <1>4, UpKnown, CrashKnown DEF Shutdown, Crash, Restart
<1> QED BY <1>1, <1>2, <1>3, <1>4 DEF Progress, Failures, Crashes

\* Where nothing happens everything stays as it is.
LEMMA NothingHappens ==
    ASSUME CInv, Told, Known, UNCHANGED vars
    PROVE  CInv' /\ Told' /\ Known'
<1>1. UNCHANGED <<db, up, msgs, sent, req, got, log, since>>
  BY DEF vars
<1>2. CInv'
  <2>1. Types' /\ MessagesSound' /\ OneEach' /\ Heard'
    BY <1>1 DEF CInv, Types, MessagesSound, Underway, Current, OneEach, Same, MayApply, Heard, Id
  <2>2. LogSound' /\ NotYet' /\ Distinct' /\ Counted'
    BY <1>1 DEF CInv, LogSound, NotYet, InLog, MayApply, Distinct, Counted
  <2> QED BY <2>1, <2>2 DEF CInv
<1>3. Told'
  BY <1>1 DEF Told
<1>4. ASSUME NEW d \in Client, since'[d] # Lost PROVE KnownTo(d)'
  <2>1. KnownTo(d) /\ since[d] \in Nat /\ req[d] # Nil
    BY <1>1, <1>4 DEF Known, KnownTo, CInv, Types
  <2>2. Kept(d)
    BY <1>1, <2>1, QuietKept
  <2> QED BY <1>1, <2>1, <2>2, KnownStays
<1> QED BY <1>2, <1>3, <1>4 DEF Known
=============================================================================
